----------------------------- MODULE PluginRunner -----------------------------
(***************************************************************************)
(* One run of a plugin in a sandboxed subprocess                           *)
(* (clausula/plugins/runner.py, worker.py, bridge.py).                     *)
(*                                                                         *)
(* The worker runs the plugin.  dispatch.invoke() writes a line to its     *)
(* stdout and blocks on its stdin.  In the host one thread reads those     *)
(* lines, executes the invocations and answers them, while the caller of   *)
(* PluginRunner.run() waits for the process with a timeout and then joins  *)
(* the thread, with a timeout as well.  Every request carries the id       *)
(* "call", and the host answers an id once.                                *)
(***************************************************************************)
EXTENDS Naturals, Sequences

CONSTANT MaxInvokes  \* bound: how many invocations the plugin makes

\* An invocation is executed with a result that JSON can carry or with one it
\* cannot, or it is refused: the manifest does not declare the capability, or
\* the registry wants a confirmation, which the bridge never gives, or the
\* capability raises.
Outcomes == {"ok", "unserialisable", "denied"}

\* What a plugin prints of its own, apart from the messages of dispatch: lines
\* that are not JSON, JSON values that are no object, and JSON objects that are
\* neither an invoke nor a result without an id.
Prints == {"noise", "value", "object"}

ASSUME PluginAssumption == MaxInvokes \in Nat

VARIABLES
  worker,    \* where the subprocess is
  invoked,   \* how many invocations the plugin has made
  stdout,    \* lines from the worker that the thread has not read
  stdin,     \* answers that the worker has not read
  answered,  \* the invocations that the worker got an answer to
  thread,    \* where the thread that reads stdout is
  current,   \* the invocation it handles
  result,    \* and what came of it, or of the one before
  handled,   \* is the id "call" in handled?
  executed,  \* the invocations that were executed
  main,      \* main_result: "none", "ok" or "error"
  malformed, \* error_detail
  caller,    \* where PluginRunner.run() is
  printed    \* history: what the plugin has printed of its own

hostvars == <<thread, current, result, handled, executed, main, malformed>>
pluginVars == <<worker, invoked, stdout, stdin, answered, hostvars, caller,
                printed>>

Gone == {"exit0", "exit1", "killed"}
Ended == {"returned", "raised"}

Line(kind, k) == [kind |-> kind, k |-> k]

PluginInit ==
  /\ worker = "running"
  /\ invoked = 0
  /\ stdout = <<>>
  /\ stdin = <<>>
  /\ answered = {}
  /\ thread = "reading"
  /\ current = 0
  /\ result = "none"
  /\ handled = FALSE
  /\ executed = {}
  /\ main = "none"
  /\ malformed = FALSE
  /\ caller = "waiting"
  /\ printed = {}

-----------------------------------------------------------------------------
(* The worker *)

\* _StdinDispatch.invoke() up to its blocking read.  A line that the plugin has
\* begun and not finished takes the request with it.
Invoke ==
  /\ worker = "running"
  /\ invoked < MaxInvokes
  /\ invoked' = invoked + 1
  /\ \/ stdout' = Append(stdout, Line("invoke", invoked + 1)) /\ UNCHANGED printed
     \/ /\ stdout' = Append(stdout, Line("noise", 0))
        /\ printed' = printed \cup {"unfinished"}
  /\ worker' = "waiting"
  /\ UNCHANGED <<stdin, answered, hostvars, caller>>

\* The rest of it; the plugin may or may not catch the error of an answer.
Receive ==
  /\ worker = "waiting"
  /\ stdin # <<>>
  /\ answered' = answered \cup {Head(stdin)}
  /\ stdin' = Tail(stdin)
  /\ worker' = "running"
  /\ UNCHANGED <<invoked, stdout, hostvars, caller, printed>>

\* The plugin prints something of its own, once of each kind.
Stray ==
  /\ worker = "running"
  /\ \E kind \in Prints \ printed :
       /\ stdout' = Append(stdout, Line(kind, 0))
       /\ printed' = printed \cup {kind}
  /\ UNCHANGED <<worker, invoked, stdin, answered, hostvars, caller>>

\* It writes more than a pipe takes: to stderr, which run() reads only after
\* the process has ended, or to stdout after the thread has.
Block ==
  /\ worker = "running"
  /\ worker' = "blocked"
  /\ UNCHANGED <<invoked, stdout, stdin, answered, hostvars, caller, printed>>

\* run(dispatch) returns, raises, or the process dies without a result.
Leave ==
  /\ worker = "running"
  /\ \/ stdout' = Append(stdout, Line("ok", 0)) /\ worker' = "exit0"
     \/ stdout' = Append(stdout, Line("error", 0)) /\ worker' = "exit1"
     \/ UNCHANGED stdout /\ worker' \in {"exit0", "exit1"}
  /\ UNCHANGED <<invoked, stdin, answered, hostvars, caller, printed>>

-----------------------------------------------------------------------------
(* The thread of the host: pump_stdout() and handle_invoke() *)

\* What is not JSON is noted and passed over; a value that is no object has no
\* get(), which ends the thread; an object of another kind is ignored.
Read ==
  /\ thread = "reading"
  /\ stdout # <<>>
  /\ stdout' = Tail(stdout)
  /\ LET line == Head(stdout)
     IN /\ malformed' = (malformed \/ line.kind = "noise")
        /\ thread' = CASE line.kind = "invoke" -> "handling"
                       [] line.kind = "value"  -> "failed"
                       [] OTHER                -> "reading"
        /\ current' = IF line.kind = "invoke" THEN line.k ELSE current
        /\ main' = IF line.kind \in {"ok", "error"} THEN line.kind ELSE main
  /\ UNCHANGED <<worker, invoked, stdin, answered, result, handled, executed,
                 caller, printed>>

\* CapabilityBridge.invoke(): the call is executed unless it is denied.
BridgeInvoke ==
  /\ thread = "handling"
  /\ result' \in Outcomes
  /\ executed' = IF result' = "denied" THEN executed ELSE executed \cup {current}
  /\ thread' = "responding"
  /\ UNCHANGED <<worker, invoked, stdout, stdin, answered, current, handled,
                 main, malformed, caller, printed>>

\* Mutant: nothing is ever answered.
RespondNever ==
  /\ thread = "responding"
  /\ handled' = TRUE
  /\ thread' = "reading"
  /\ current' = 0
  /\ UNCHANGED <<worker, invoked, stdout, stdin, answered, result, executed,
                 main, malformed, caller, printed>>

\* respond(): an id that is in handled gets nothing.  It enters handled before
\* json.dumps() fails on a result, so the error is not answered either.  The
\* error of a denial that meets a closed pipe ends the thread.
Respond ==
  /\ thread = "responding"
  /\ handled' = TRUE
  /\ stdin' = IF handled \/ result = "unserialisable" \/ worker \in Gone
                THEN stdin ELSE Append(stdin, current)
  /\ thread' = IF ~handled /\ result = "denied" /\ worker \in Gone
                 THEN "failed" ELSE "reading"
  /\ current' = 0
  /\ UNCHANGED <<worker, invoked, stdout, answered, result, executed, main,
                 malformed, caller, printed>>

\* The worker is gone and all it wrote is read.
Drained ==
  /\ thread = "reading"
  /\ worker \in Gone
  /\ stdout = <<>>
  /\ thread' = "over"
  /\ UNCHANGED <<worker, invoked, stdout, stdin, answered, current, result,
                 handled, executed, main, malformed, caller, printed>>

-----------------------------------------------------------------------------
(* PluginRunner.run() *)

\* process.wait() returns.
Exited ==
  /\ caller = "waiting"
  /\ worker \in Gone
  /\ caller' = "joining"
  /\ UNCHANGED <<worker, invoked, stdout, stdin, answered, hostvars, printed>>

\* process.wait() times out: the worker is killed and the caller told so.
TimeOut ==
  /\ caller = "waiting"
  /\ worker \notin Gone
  /\ worker' = "killed"
  /\ caller' = "raised"
  /\ UNCHANGED <<invoked, stdout, stdin, answered, hostvars, printed>>

\* Mutant: what the plugin printed between its messages is ignored.
JoinedIgnoring ==
  /\ caller = "joining"
  /\ caller' = IF worker = "exit0" /\ main = "ok" THEN "returned" ELSE "raised"
  /\ UNCHANGED <<worker, invoked, stdout, stdin, answered, hostvars, printed>>

\* The thread has ended, whichever way, or did not within the five seconds of join().
Joined ==
  /\ caller = "joining"
  /\ caller' = IF ~malformed /\ worker = "exit0" /\ main = "ok" THEN "returned"
                                                                 ELSE "raised"
  /\ UNCHANGED <<worker, invoked, stdout, stdin, answered, hostvars, printed>>

\* The run is over for everybody.
Done ==
  /\ caller \in Ended
  /\ thread \in {"over", "failed"}
  /\ UNCHANGED pluginVars

PluginNext ==
  \/ Invoke \/ Receive \/ Stray \/ Block \/ Leave
  \/ Read \/ BridgeInvoke \/ Respond \/ Drained
  \/ Exited \/ TimeOut \/ Joined \/ Done

PluginSpec == PluginInit /\ [][PluginNext]_pluginVars

\* The thread of the host runs, and a worker that has an answer reads it; the
\* plugin may loop for ever or hang, and the timeout need not be near.
PluginFairSpec ==
  /\ PluginSpec
  /\ WF_pluginVars(Read \/ BridgeInvoke \/ Respond)
  /\ WF_pluginVars(Receive)

-----------------------------------------------------------------------------
(* Properties *)

\* A run that is reported as a success is a whole one: all that the worker
\* wrote was read, what the plugin printed of its own was objects that no
\* message is mistaken for, and every invocation it made was answered.
SuccessIsWhole ==
  caller = "returned" =>
    /\ worker = "exit0"
    /\ stdout = <<>>
    /\ printed \subseteq {"object"}
    /\ answered = 1..invoked

\* "Each dispatch.invoke is relayed to this host over stdio JSON lines,
\* executed ..., and the result is returned to the sandbox": true of the first
\* one, without the help of the timeout, if JSON can carry its result and the
\* plugin has printed no JSON value that ended the thread, and left no line of
\* its own unfinished, before.
FirstAnswered ==
  invoked = 1 /\ worker = "waiting" ~>
    \/ 1 \in answered
    \/ worker = "killed"
    \/ thread = "failed" /\ "value" \in printed
    \/ "unfinished" \in printed
    \/ thread = "reading" /\ result = "unserialisable"
=============================================================================
