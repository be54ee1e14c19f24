---------------------------- MODULE RuntimeCalls ----------------------------
(***************************************************************************)
(* runtime_calls.py: one trial calls its runtime, sequentially, through    *)
(* runtime_call.  An attempt is a request that travels to the runtime and  *)
(* a reply that travels back; either may be lost, and the runtime may fail *)
(* before or after the request took effect.  When the effective timeout    *)
(* elapses, or the connection breaks, the client abandons the attempt, but *)
(* the request it sent stays in the network and may be executed later.     *)
(*                                                                         *)
(* Timeouts are in milliseconds and 0 stands for None: Explicit[c] = 0 is  *)
(* a call without timeout_ms, DefaultTimeout = 0 and RetryTimeout = 0 are  *)
(* the environment variables set to 0.                                     *)
(***************************************************************************)
EXTENDS Naturals

CONSTANTS Calls,           \* the calls one trial makes to its runtime
          DefaultTimeout,  \* AGENT_RUNTIME_TIMEOUT_MS
          RetryTimeout,    \* AGENT_RUNTIME_RETRY_TIMEOUT_MS
          Explicit,        \* timeout_ms given by the caller of each call
          Timeoutless      \* calls of methods without a timeout_ms parameter

ASSUME TimeoutType == /\ DefaultTimeout \in Nat
                      /\ RetryTimeout \in Nat
                      /\ Explicit \in [Calls -> Nat]
                      /\ Timeoutless \subseteq Calls

VARIABLES tries,     \* attempts the client has made of each call
          outcome,   \* "none", then the result or the code raised to the caller
          requests,  \* requests sent and neither executed nor lost
          replies,   \* replies sent and neither received nor lost
          effects    \* executions of the request of each call by the runtime

vars == <<tries, outcome, requests, replies, effects>>

Codes == {"ok", "deadline", "error"}
Attempts == [call : Calls, try : 1..2]
Replies == [call : Calls, try : 1..2, code : Codes]

TypeOK == /\ tries \in [Calls -> 0..2]
          /\ outcome \in [Calls -> Codes \cup {"none"}]
          /\ requests \subseteq Attempts
          /\ replies \subseteq Replies
          /\ effects \in [Calls -> Nat]

-----------------------------------------------------------------------------
Effective(c) == IF Explicit[c] = 0 THEN DefaultTimeout ELSE Explicit[c]

\* The client passes a timeout with the first attempt.
Timed(c) == Effective(c) # 0 /\ c \notin Timeoutless

\* Faulty variant: a caller's own timeout does not switch the retry off.
RetryableAlways(c) == Timed(c) /\ RetryTimeout > Effective(c)

\* The conditions under which DEADLINE_EXCEEDED is retried and not raised.
Retryable(c) == /\ Timed(c)
                /\ Explicit[c] = 0
                /\ RetryTimeout # 0
                /\ RetryTimeout > Effective(c)

Open(c) == tries[c] > 0 /\ outcome[c] = "none"

Init == /\ tries = [c \in Calls |-> 0]
        /\ outcome = [c \in Calls |-> "none"]
        /\ requests = {}
        /\ replies = {}
        /\ effects = [c \in Calls |-> 0]

-----------------------------------------------------------------------------
(* The client.                                                             *)

Send(c) == /\ tries' = [tries EXCEPT ![c] = @ + 1]
           /\ requests' = requests \cup {[call |-> c, try |-> tries[c] + 1]}
           /\ UNCHANGED <<outcome, effects>>

Issue(c) == /\ tries[c] = 0
            /\ \A d \in Calls : ~Open(d)
            /\ Send(c)
            /\ UNCHANGED replies

\* Faulty variants: retry without end; retry whatever went wrong.
ConcludeEndless(c, code) ==
    IF code = "deadline" /\ Retryable(c)
    THEN Send(c)
    ELSE /\ outcome' = [outcome EXCEPT ![c] = code]
         /\ UNCHANGED <<tries, requests, effects>>

ConcludeAnyCode(c, code) ==
    IF code # "ok" /\ tries[c] = 1
    THEN Send(c)
    ELSE /\ outcome' = [outcome EXCEPT ![c] = code]
         /\ UNCHANGED <<tries, requests, effects>>

\* The attempt ends with code: a second attempt, or the call is over.
Conclude(c, code) ==
    IF code = "deadline" /\ tries[c] = 1 /\ Retryable(c)
    THEN Send(c)
    ELSE /\ outcome' = [outcome EXCEPT ![c] = code]
         /\ UNCHANGED <<tries, requests, effects>>

Receive(c) == \E r \in replies :
    /\ Open(c)
    /\ r.call = c /\ r.try = tries[c]
    /\ Conclude(c, r.code)
    /\ replies' = replies \ {r}

\* Faulty variants: the failed call yields a result; the second attempt has
\* no timer.
ExpireAsResult(c) == Open(c) /\ Timed(c) /\ Conclude(c, "ok") /\ UNCHANGED replies
ExpireFirstOnly(c) == /\ Open(c) /\ Timed(c) /\ tries[c] = 1
                      /\ Conclude(c, "deadline")
                      /\ UNCHANGED replies

\* The client's own timer; the abandoned request stays where it is.
Expire(c) == /\ Open(c) /\ Timed(c)
             /\ Conclude(c, "deadline")
             /\ UNCHANGED replies

\* The client's transport fails (refused, reset, unavailable), with or without
\* a deadline and wherever the request is by then.
Disconnect(c) == Open(c) /\ Conclude(c, "error") /\ UNCHANGED replies

-----------------------------------------------------------------------------
(* The runtime and the network.                                            *)

Reply(a, code) == replies' = replies \cup
                      {[call |-> a.call, try |-> a.try, code |-> code]}

\* The request takes effect; the reply may still report a failure.
Execute(a) == /\ requests' = requests \ {a}
              /\ effects' = [effects EXCEPT ![a.call] = @ + 1]
              /\ \E code \in Codes : Reply(a, code)
              /\ UNCHANGED <<tries, outcome>>

Reject(a) == /\ requests' = requests \ {a}
             /\ \E code \in Codes \ {"ok"} : Reply(a, code)
             /\ UNCHANGED <<tries, outcome, effects>>

LoseRequest(a) == /\ requests' = requests \ {a}
                  /\ UNCHANGED <<tries, outcome, replies, effects>>

LoseReply(r) == /\ replies' = replies \ {r}
                /\ UNCHANGED <<tries, outcome, requests, effects>>

-----------------------------------------------------------------------------
Client == \E c \in Calls : Issue(c) \/ Receive(c) \/ Expire(c) \/ Disconnect(c)

Runtime == \/ \E a \in requests : Execute(a) \/ Reject(a) \/ LoseRequest(a)
           \/ \E r \in replies : LoseReply(r)

Next == Client \/ Runtime

\* The client's timer is a local clock: it runs out whatever the runtime does.
Spec == Init /\ [][Next]_vars /\ \A c \in Calls : WF_vars(Expire(c))

-----------------------------------------------------------------------------
(* A result handed to the caller (tool output, deletion counted, answer    *)
(* accepted) stands for at least one execution of the request, whichever   *)
(* of the two attempts the result came from.                               *)
ResultTookEffect == \A c \in Calls : outcome[c] = "ok" => effects[c] > 0

(* A non-idempotent request is executed twice only if it was sent under    *)
(* the default timeout; a call with its own timeout (automatic --help) or  *)
(* with timeouts switched off is executed at most once.                    *)
AtMostTwice == \A c \in Calls :
    effects[c] <= IF DefaultTimeout # 0 /\ Explicit[c] = 0 THEN 2 ELSE 1

(* What a result says has happened is all that happens, so that the call   *)
(* cannot overtake those that follow it, unless runtime_call itself had    *)
(* given up a first attempt: then that one may still execute, once.  Calls *)
(* that raise promise nothing of the kind, with or without a deadline.     *)
ResultIsFinal ==
    [][\A c \in Calls : outcome[c] = "ok" /\ effects'[c] # effects[c]
            => tries[c] = 2 /\ Retryable(c) /\ effects'[c] = 2]_vars

(* Every call that carries a timeout returns to its caller, even if the    *)
(* runtime never answers: a hung command cannot hold up the trial.         *)
TimedCallsReturn == \A c \in Calls : Open(c) /\ Timed(c) ~> outcome[c] # "none"

(* Timeouts, attempts and the network are invisible to the caller but for  *)
(* the budget of two executions.                                           *)
Abstract == INSTANCE AtLeastOnceCall
                WITH started <- {c \in Calls : tries[c] > 0},
                     Budget <- [c \in Calls |->
                                   IF DefaultTimeout # 0 /\ Explicit[c] = 0
                                   THEN 2 ELSE 1]
ImplementsAtLeastOnce == Abstract!Spec
=============================================================================
