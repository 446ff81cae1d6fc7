---------------------------- MODULE MCConfirmation ----------------------------
(***************************************************************************)
(* An instance of Confirmation for TLC: an admin sends one protected call  *)
(* twice and a call that needs no confirmation; a reader sends the write   *)
(* it may not make.  There are challenges for the admin's write, for the   *)
(* call the reader may make, and one the reader is refused.  An agent calls *)
(* what it may, what needs a confirmation and what it may not.             *)
(***************************************************************************)
EXTENDS Confirmation, TLC

CONSTANTS r1, r2, r3, r4, g1, g2, g3, n1, n2, n3, admin, reader, agent, write, review, list

MCPrincipal == (r1 :> admin @@ r2 :> admin @@ r3 :> reader @@ r4 :> admin
                @@ g1 :> agent @@ g2 :> agent @@ g3 :> agent
                @@ n1 :> admin @@ n2 :> reader @@ n3 :> reader)
MCCall == (r1 :> write @@ r2 :> write @@ r3 :> write @@ r4 :> list
           @@ g1 :> list @@ g2 :> review @@ g3 :> write
           @@ n1 :> write @@ n2 :> review @@ n3 :> write)
MCProtected == {write, review}
MCPermitted == {<<admin, write>>, <<admin, list>>, <<reader, review>>,
                <<agent, list>>, <<agent, review>>}

\* The two writes of the admin are alike.
WriteSymmetry == Permutations({r1, r2})
=============================================================================
