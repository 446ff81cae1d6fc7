----------------------------- MODULE Confirmation -----------------------------
(***************************************************************************)
(* The confirmed invocation of a capability over HTTP                      *)
(* (clausula/api/http.py, api/auth.py, capabilities/registry.py), and the  *)
(* invocation by an agent (clausula/adapters/mcp.py).                      *)
(*                                                                         *)
(* ThreadingHTTPServer gives every request a thread.  A client asks for a  *)
(* challenge, which is bound to its principal and to the call, the         *)
(* capability with the digest of its arguments, and sends the call with    *)
(* the nonce.  Under registry_lock the call is preflighted, its challenge  *)
(* consumed and the handler run; registry_lock is released and taken again *)
(* to record the invocation; then the client is answered.  A dry run ends  *)
(* with the preflight.  Challenges are issued under the lock of            *)
(* LocalAuthRegistry only, with a clock that is read before that lock is   *)
(* taken.  Requests without a principal or for a capability that does not  *)
(* exist are turned away at once, unrecorded, and left out.                *)
(*                                                                         *)
(* An agent's client binds an McpAdapter to a profile, in a process of its *)
(* own with its own registry: there is no registry_lock and no challenge,  *)
(* and nothing that is protected runs.                                     *)
(***************************************************************************)
EXTENDS Naturals, FiniteSets

CONSTANTS Requests,    \* requests to invoke a capability
          Agents,      \* those that an agent makes through an McpAdapter
          Challenges,  \* requests for a challenge; each names its nonce
          Principal,   \* Principal[q]: who sends the request q of either kind
          Call,        \* Call[q]: the capability and arguments q names
          Protected,   \* the calls whose capability needs a confirmation
          Permitted,   \* the pairs <<principal, call>> a profile allows
          NoNonce, NoThread,
          TTL,         \* challenge_ttl_seconds, in ticks
          MaxClock,    \* bound: how often the clock ticks
          MaxSent      \* bound: how many requests of each kind are sent

ASSUME ConfirmationAssumption ==
  /\ NoNonce \notin Challenges
  /\ NoThread \notin Requests
  /\ Agents \subseteq Requests
  /\ TTL \in Nat \ {0}
  /\ MaxClock \in Nat /\ MaxSent \in Nat

VARIABLES
  clock,     \* time.monotonic()
  lock,      \* the thread that holds registry_lock
  live,      \* LocalAuthRegistry._challenges: the nonces in it
  issuedAt,  \* the clock a challenge was issued by
  asked,     \* where each request for a challenge is
  dry,       \* the invocations sent as dry runs
  progress,        \* where each invocation is
  nonce,     \* the nonce an invocation presents
  stamp,     \* the clock it was checked by
  outcome,   \* how the call ended
  effects,   \* the calls whose handler did what it is for
  records    \* the invocations in the audit trail

callVars == <<clock, lock, live, issuedAt, asked, dry, progress, nonce, stamp, outcome,
          effects, records>>

\* Of the requests given, another one may be sent.
MoreToSend(state) ==
  Cardinality({q \in DOMAIN state : state[q] # "new"}) < MaxSent

Nonces == Challenges \cup {NoNonce}

NeedsConfirmation(r) == Call[r] \in Protected

\* The payload of the audit event http.invoke of request r.
Invocation(r) ==
  [request   |-> r,
   confirmed |-> NeedsConfirmation(r) /\ outcome[r] = "done",
   succeeded |-> outcome[r] \in {"done", "rehearsed"}]

MayCall(q) == <<Principal[q], Call[q]>> \in Permitted

Expiry(n) == issuedAt[n] + TTL
Expired(now) == {n \in live : Expiry(n) < now}

ConfirmationInit ==
  /\ clock = 0
  /\ lock = NoThread
  /\ live = {}
  /\ issuedAt = [n \in Challenges |-> 0]
  /\ asked = [n \in Challenges |-> "new"]
  /\ dry = {}
  /\ progress = [r \in Requests |-> "new"]
  /\ nonce = [r \in Requests |-> NoNonce]
  /\ stamp = [r \in Requests |-> 0]
  /\ outcome = [r \in Requests |-> "none"]
  /\ effects = {}
  /\ records = {}

Tick ==
  /\ clock < MaxClock
  /\ clock' = clock + 1
  /\ UNCHANGED <<lock, live, issuedAt, asked, dry, progress, nonce, stamp, outcome,
                 effects, records>>

-----------------------------------------------------------------------------
(* POST /confirmations/challenge *)

\* The preflight under registry_lock, and the clock issue_challenge() reads.
Ask(n) ==
  /\ asked[n] = "new" /\ MoreToSend(asked)
  /\ lock = NoThread
  /\ IF MayCall(n) /\ Call[n] \in Protected
       THEN /\ asked' = [asked EXCEPT ![n] = "stamped"]
            /\ issuedAt' = [issuedAt EXCEPT ![n] = clock]
       ELSE /\ asked' = [asked EXCEPT ![n] = "refused"]
            /\ UNCHANGED issuedAt
  /\ UNCHANGED <<clock, lock, live, dry, progress, nonce, stamp, outcome, effects,
                 records>>

\* Under the lock of the auth registry: purge, then store the challenge.
Issue(n) ==
  /\ asked[n] = "stamped"
  /\ live' = (live \ Expired(issuedAt[n])) \cup {n}
  /\ asked' = [asked EXCEPT ![n] = "issued"]
  /\ UNCHANGED <<clock, lock, issuedAt, dry, progress, nonce, stamp, outcome, effects,
                 records>>

-----------------------------------------------------------------------------
(* POST /capabilities/<name> *)

\* A client sends the call with any nonce that was ever issued, or none; the
\* nonce of a call that is refused or needs no confirmation is not looked at.
Send(r, n) ==
  /\ progress[r] = "new" /\ MoreToSend(progress)
  /\ n # NoNonce => /\ r \notin Agents
                    /\ asked[n] = "issued" /\ MayCall(r) /\ NeedsConfirmation(r)
  /\ nonce' = [nonce EXCEPT ![r] = n]
  /\ progress' = [progress EXCEPT ![r] = "sent"]
  /\ UNCHANGED <<clock, lock, live, issuedAt, asked, dry, stamp, outcome,
                 effects, records>>

\* Or as a dry run, whose nonce nobody looks at.
SendDry(r) ==
  /\ progress[r] = "new" /\ MoreToSend(progress)
  /\ dry' = dry \cup {r}
  /\ progress' = [progress EXCEPT ![r] = "sent"]
  /\ UNCHANGED <<clock, lock, live, issuedAt, asked, nonce, stamp, outcome,
                 effects, records>>

\* The preflight of a call that is permitted is all of a dry run.
Rehearse(r) ==
  /\ progress[r] = "sent"
  /\ r \in dry \ Agents
  /\ lock = NoThread
  /\ outcome' = [outcome EXCEPT ![r] = IF MayCall(r) THEN "rehearsed"
                                                       ELSE "refused"]
  /\ progress' = [progress EXCEPT ![r] = "recording"]
  /\ UNCHANGED <<clock, lock, live, issuedAt, asked, dry, nonce, stamp, effects,
                 records>>

\* registry_lock is taken and the call preflighted.
Enter(r) ==
  /\ progress[r] = "sent"
  /\ r \notin dry \cup Agents
  /\ lock = NoThread
  /\ IF MayCall(r)
       THEN /\ lock' = r
            /\ progress' = [progress EXCEPT ![r] = IF NeedsConfirmation(r) THEN "preflighted"
                                                               ELSE "admitted"]
            /\ UNCHANGED outcome
       ELSE /\ outcome' = [outcome EXCEPT ![r] = "refused"]
            /\ progress' = [progress EXCEPT ![r] = "recording"]
            /\ UNCHANGED lock
  /\ UNCHANGED <<clock, live, issuedAt, asked, dry, nonce, stamp, effects,
                 records>>

\* consume_challenge() reads the clock before it takes its lock.
ReadClock(r) ==
  /\ progress[r] = "preflighted"
  /\ stamp' = [stamp EXCEPT ![r] = clock]
  /\ progress' = [progress EXCEPT ![r] = "stamped"]
  /\ UNCHANGED <<clock, lock, live, issuedAt, asked, dry, nonce, outcome,
                 effects, records>>

\* Mutant: expired challenges are not looked for.
ValidExpired(r, kept) ==
  /\ nonce[r] \in live
  /\ Principal[nonce[r]] = Principal[r]
  /\ Call[nonce[r]] = Call[r]

\* The challenges left when r's is looked for; without a nonce none is.
Kept(r) == IF nonce[r] = NoNonce THEN live ELSE live \ Expired(stamp[r])

\* The challenge is there, unexpired, and bound to this principal and call.
Valid(r, kept) ==
  /\ nonce[r] \in kept
  /\ Principal[nonce[r]] = Principal[r]
  /\ Call[nonce[r]] = Call[r]

\* Mutants: the challenge stays; a challenge that does not match is burnt.
ConsumeKeeps(r) ==
  /\ progress[r] = "stamped"
  /\ LET kept == Kept(r)
     IN \/ /\ Valid(r, kept)
           /\ live' = kept
           /\ progress' = [progress EXCEPT ![r] = "admitted"]
           /\ UNCHANGED <<lock, outcome>>
        \/ /\ ~Valid(r, kept)
           /\ live' = kept
           /\ lock' = NoThread
           /\ outcome' = [outcome EXCEPT ![r] = "refused"]
           /\ progress' = [progress EXCEPT ![r] = "recording"]
  /\ UNCHANGED <<clock, issuedAt, asked, dry, nonce, stamp, effects, records>>

ConsumeBurns(r) ==
  /\ progress[r] = "stamped"
  /\ LET kept == Kept(r)
     IN /\ live' = kept \ {nonce[r]}
        /\ \/ /\ Valid(r, kept)
              /\ progress' = [progress EXCEPT ![r] = "admitted"]
              /\ UNCHANGED <<lock, outcome>>
           \/ /\ ~Valid(r, kept)
              /\ lock' = NoThread
              /\ outcome' = [outcome EXCEPT ![r] = "refused"]
              /\ progress' = [progress EXCEPT ![r] = "recording"]
  /\ UNCHANGED <<clock, issuedAt, asked, dry, nonce, stamp, effects,
                 records>>

\* consume_challenge() under its lock: only a challenge that passes every
\* check is deleted.
Consume(r) ==
  /\ progress[r] = "stamped"
  /\ LET kept == Kept(r)
     IN \/ /\ Valid(r, kept)
           /\ live' = kept \ {nonce[r]}
           /\ progress' = [progress EXCEPT ![r] = "admitted"]
           /\ UNCHANGED <<lock, outcome>>
        \/ /\ ~Valid(r, kept)
           /\ live' = kept
           /\ lock' = NoThread
           /\ outcome' = [outcome EXCEPT ![r] = "refused"]
           /\ progress' = [progress EXCEPT ![r] = "recording"]
  /\ UNCHANGED <<clock, issuedAt, asked, dry, nonce, stamp, effects, records>>

\* Mutant: the invocation is recorded before its handler runs.
ExecuteRecorded(r) ==
  /\ progress[r] = "admitted"
  /\ records' = records \cup {[request |-> r, confirmed |-> NeedsConfirmation(r),
                               succeeded |-> TRUE]}
  /\ \/ /\ effects' = effects \cup {r}
        /\ outcome' = [outcome EXCEPT ![r] = "done"]
     \/ /\ outcome' = [outcome EXCEPT ![r] = "failed"]
        /\ UNCHANGED effects
  /\ lock' = NoThread
  /\ progress' = [progress EXCEPT ![r] = "recorded"]
  /\ UNCHANGED <<clock, live, issuedAt, asked, dry, nonce, stamp>>

\* CapabilityRegistry.execute(): the handler runs and its output is validated,
\* after its effects.  The lock is released however the call ends; what
\* do_POST() does not catch (KeyError, a database error) ends the thread.
Execute(r) ==
  /\ progress[r] = "admitted"
  /\ lock' = NoThread
  /\ \/ /\ effects' = effects \cup {r}
        /\ outcome' = [outcome EXCEPT ![r] = "done"]
        /\ progress' = [progress EXCEPT ![r] = "recording"]
     \/ /\ effects' \in {effects, effects \cup {r}}
        /\ outcome' = [outcome EXCEPT ![r] = "failed"]
        /\ \E next \in {"recording", "dead"} : progress' = [progress EXCEPT ![r] = next]
  /\ UNCHANGED <<clock, live, issuedAt, asked, dry, nonce, stamp, records>>

\* McpAdapter.call() of what the profile does not permit: it raises before the "try"
\* that records what is raised.
TurnAway(r) ==
  /\ progress[r] = "sent"
  /\ r \in Agents
  /\ ~MayCall(r)
  /\ outcome' = [outcome EXCEPT ![r] = "refused"]
  /\ progress' = [progress EXCEPT ![r] = "turned"]
  /\ UNCHANGED <<clock, lock, live, issuedAt, asked, dry, nonce, stamp, effects,
                 records>>

\* Or of what it permits: execute() with confirmed = False, which refuses what is
\* protected, except as a dry run.  Whatever is raised is recorded.
AgentExecute(r) ==
  /\ progress[r] = "sent"
  /\ r \in Agents
  /\ MayCall(r)
  /\ \/ /\ r \in dry
        /\ outcome' = [outcome EXCEPT ![r] = "rehearsed"]
        /\ UNCHANGED effects
     \/ /\ r \notin dry /\ NeedsConfirmation(r)
        /\ outcome' = [outcome EXCEPT ![r] = "refused"]
        /\ UNCHANGED effects
     \/ /\ r \notin dry /\ ~NeedsConfirmation(r)
        /\ effects' = effects \cup {r}
        /\ outcome' = [outcome EXCEPT ![r] = "done"]
     \/ /\ r \notin dry /\ ~NeedsConfirmation(r)
        /\ effects' \in {effects, effects \cup {r}}
        /\ outcome' = [outcome EXCEPT ![r] = "failed"]
  /\ progress' = [progress EXCEPT ![r] = "recording"]
  /\ UNCHANGED <<clock, lock, live, issuedAt, asked, dry, nonce, stamp, records>>

\* _record_invocation(), under registry_lock again; what it raises ends the
\* thread.  An agent's call is recorded by its adapter.
Record(r) ==
  /\ progress[r] = "recording"
  /\ r \in Agents \/ lock = NoThread
  /\ \/ /\ records' = records \cup {Invocation(r)}
        /\ progress' = [progress EXCEPT ![r] = "recorded"]
     \/ /\ progress' = [progress EXCEPT ![r] = "dead"]
        /\ UNCHANGED records
  /\ UNCHANGED <<clock, lock, live, issuedAt, asked, dry, nonce, stamp, outcome,
                 effects>>

Answer(r) ==
  /\ progress[r] = "recorded"
  /\ progress' = [progress EXCEPT ![r] = "answered"]
  /\ UNCHANGED <<clock, lock, live, issuedAt, asked, dry, nonce, stamp, outcome,
                 effects, records>>

Over == {"answered", "turned", "dead"}

\* The daemon is killed and started again: challenges and threads are gone,
\* what was committed stays, clients still know their nonces.
Restart ==
  /\ live' = {}
  /\ lock' = NoThread
  /\ asked' = [n \in Challenges |->
                 IF asked[n] = "stamped" THEN "refused" ELSE asked[n]]
  /\ progress' = [r \in Requests |->
             IF r \in Agents \/ progress[r] \in {"new"} \cup Over THEN progress[r] ELSE "dead"]
  /\ UNCHANGED <<clock, issuedAt, dry, nonce, stamp, outcome, effects, records>>

Serve(r) ==
  \/ Rehearse(r) \/ Enter(r) \/ ReadClock(r) \/ Consume(r)
  \/ Execute(r) \/ TurnAway(r) \/ AgentExecute(r) \/ Record(r) \/ Answer(r)

ConfirmationNext ==
  \/ Tick
  \/ Restart
  \/ \E n \in Challenges : Ask(n) \/ Issue(n)
  \/ \E r \in Requests : Serve(r) \/ SendDry(r) \/ \E n \in Nonces : Send(r, n)

ConfirmationSpec == ConfirmationInit /\ [][ConfirmationNext]_callVars

-----------------------------------------------------------------------------
(* Properties *)

ConfirmationTypeOK ==
  /\ clock \in 0..MaxClock
  /\ lock \in (Requests \ Agents) \cup {NoThread}
  /\ live \subseteq Challenges
  /\ issuedAt \in [Challenges -> 0..MaxClock]
  /\ asked \in [Challenges -> {"new", "refused", "stamped", "issued"}]
  /\ progress \in [Requests -> Over \cup {"new", "sent", "preflighted", "stamped",
                                    "admitted", "recording", "recorded"}]
  /\ dry \subseteq Requests
  /\ nonce \in [Requests -> Nonces]
  /\ stamp \in [Requests -> 0..MaxClock]
  /\ outcome \in [Requests -> {"none", "refused", "rehearsed", "failed", "done"}]
  /\ effects \subseteq Requests
  /\ records \subseteq [request : Requests, confirmed : BOOLEAN,
                          succeeded : BOOLEAN]
  \* the call that is checked and run is the one that holds registry_lock
  /\ \A r \in Requests :
       lock = r <=> progress[r] \in {"preflighted", "stamped", "admitted"}

\* SECURITY.md: a challenge is one-time.  However many requests present it,
\* and whatever fails, it lets one call through.
OneCallPerChallenge ==
  \A r, s \in effects :
    NeedsConfirmation(r) /\ NeedsConfirmation(s) /\ nonce[r] = nonce[s] => r = s

\* A call that had its effect was permitted and no dry run, and if it is
\* protected it presented a challenge issued for its principal and itself,
\* which by the clock that the check read had not expired: so an agent, which
\* can present none, has no effect that needs a confirmation.
EffectsAuthorised ==
  \A r \in effects :
    /\ MayCall(r)
    /\ r \notin dry
    /\ NeedsConfirmation(r) =>
         /\ nonce[r] # NoNonce
         /\ asked[nonce[r]] = "issued"
         /\ Principal[nonce[r]] = Principal[r]
         /\ Call[nonce[r]] = Call[r]
         /\ stamp[r] <= Expiry(nonce[r])

\* The audit trail does not claim what did not happen, says one thing of each
\* invocation, tells the dry run of a protected call from the call, and has
\* the invocation before its client is answered, also by an exception: except for
\* what an agent's profile does not permit.
RecordsTruthful ==
  /\ \A rec \in records :
       /\ rec.succeeded => rec.request \in effects \cup dry
       /\ rec.succeeded /\ NeedsConfirmation(rec.request) =>
            (rec.confirmed <=> rec.request \notin dry)
       /\ \A other \in records : other.request = rec.request => other = rec
  /\ \A r \in Requests :
       progress[r] \in {"answered", "turned"} =>
         Invocation(r) \in records \/ (r \in Agents /\ ~MayCall(r))

\* A challenge goes only by a call that matches it, by expiry, or with the
\* daemon and its threads: a request of another principal, or for another call,
\* cannot burn it.
ChallengeKept ==
  [][\A n \in live \ live' :
       \/ live' = {} /\ \A r \in Requests \ Agents : progress'[r] \in Over \cup {"new"}
       \/ Expiry(n) < clock
       \/ \E r \in Requests : /\ progress[r] = "stamped" /\ progress'[r] = "admitted"
                              /\ nonce[r] = n
                              /\ Principal[r] = Principal[n]
                              /\ Call[r] = Call[n]]_callVars
=============================================================================
