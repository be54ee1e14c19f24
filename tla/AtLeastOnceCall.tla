--------------------------- MODULE AtLeastOnceCall ---------------------------
(***************************************************************************)
(* What a caller of runtime_call may rely on, with timeouts, attempts and  *)
(* the network hidden: calls run one at a time, the runtime executes the   *)
(* request of a started call at most Budget times, possibly after the call *)
(* has returned, and a call that returns a result was executed at least    *)
(* once.  Module RuntimeCalls is shown to implement this one.              *)
(***************************************************************************)
EXTENDS Naturals

CONSTANTS Calls,   \* the calls one trial makes to its runtime
          Budget   \* how often the runtime may execute the request of a call

VARIABLES started,  \* calls the client has issued
          outcome,  \* what the client saw, "none" while the call is open
          effects   \* executions of the request by the runtime

vars == <<started, outcome, effects>>

Codes == {"ok", "deadline", "error"}

Open(c) == c \in started /\ outcome[c] = "none"

Init == /\ started = {}
        /\ outcome = [c \in Calls |-> "none"]
        /\ effects = [c \in Calls |-> 0]

Begin(c) == /\ c \notin started
            /\ \A d \in Calls : ~Open(d)
            /\ started' = started \cup {c}
            /\ UNCHANGED <<outcome, effects>>

\* Not guarded by Open(c): an abandoned request may still be executed.
Execute(c) == /\ c \in started
              /\ effects[c] < Budget[c]
              /\ effects' = [effects EXCEPT ![c] = @ + 1]
              /\ UNCHANGED <<started, outcome>>

Return(c, code) == /\ Open(c)
                   /\ code = "ok" => effects[c] > 0
                   /\ outcome' = [outcome EXCEPT ![c] = code]
                   /\ UNCHANGED <<started, effects>>

Next == \E c \in Calls : \/ Begin(c)
                         \/ Execute(c)
                         \/ \E code \in Codes : Return(c, code)

Spec == Init /\ [][Next]_vars
=============================================================================
