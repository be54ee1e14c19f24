------------------------- MODULE RuntimeCallsProofs -------------------------
(***************************************************************************)
(* Proofs about RuntimeCalls: its safety properties, and that it           *)
(* implements AtLeastOnceCall, for every set of calls and all timeouts.    *)
(***************************************************************************)
EXTENDS RuntimeCalls, TLAPS

Attempt(c, n) == [call |-> c, try |-> n]
Travelling(c, n) == IF Attempt(c, n) \in requests THEN 1 ELSE 0

(* Executions done and executions still possible are paid for by attempts. *)
Accounted == \A c \in Calls :
                effects[c] + Travelling(c, 1) + Travelling(c, 2) <= tries[c]

TriesInv == \A c \in Calls : /\ tries[c] = 2 => Retryable(c)
                             /\ outcome[c] # "none" => tries[c] > 0

RequestsInv == \A a \in requests : a.try <= tries[a.call]

(* A reply answers an attempt that no longer travels.                      *)
RepliesInv == \A r \in replies :
                /\ r.try <= tries[r.call]
                /\ Attempt(r.call, r.try) \notin requests
                /\ r.code = "ok" => effects[r.call] > 0

(* The attempt that gave a result no longer travels.                       *)
SettledInv == \A c \in Calls :
                outcome[c] = "ok" => Attempt(c, tries[c]) \notin requests

Inv == /\ TypeOK
       /\ Accounted
       /\ TriesInv
       /\ RequestsInv
       /\ RepliesInv
       /\ SettledInv
       /\ ResultTookEffect

-----------------------------------------------------------------------------
(* Sending the next attempt of a call keeps the invariant.                 *)
LEMMA SendInv ==
  ASSUME Inv, NEW c \in Calls, Send(c),
         tries[c] < 2, outcome[c] = "none",
         tries[c] = 1 => Retryable(c),
         replies' \subseteq replies
  PROVE  Inv'
<1>. USE DEF Inv, TypeOK
<1>0. /\ tries[c] \in 0..1
      /\ tries' = [tries EXCEPT ![c] = @ + 1]
      /\ requests' = requests \cup {Attempt(c, tries[c] + 1)}
      /\ UNCHANGED <<outcome, effects>>
  BY DEF Send, Attempt
<1>1. TypeOK'
  BY <1>0 DEF Attempt, Attempts
<1>2. Attempt(c, tries[c] + 1) \notin requests
  BY <1>0 DEF RequestsInv, Attempt
<1>3. Accounted'
  <2> SUFFICES ASSUME NEW d \in Calls
               PROVE  (effects[d] + Travelling(d, 1) + Travelling(d, 2) <= tries[d])'
    BY DEF Accounted
  <2>1. effects[d] + Travelling(d, 1) + Travelling(d, 2) <= tries[d]
    BY DEF Accounted
  <2>2. CASE d = c
    <3>1. CASE tries[c] = 0
      <4>1. Attempt(c, 2) \notin requests /\ Attempt(c, 1) \notin requests
        BY <3>1 DEF RequestsInv, Attempt
      <4>2. Attempt(c, 2) \notin requests'
        BY <1>0, <3>1, <4>1 DEF Attempt
      <4> QED BY <1>0, <2>1, <2>2, <3>1, <4>1, <4>2 DEF Travelling
    <3>2. CASE tries[c] = 1
      <4>1. Attempt(c, 2) \notin requests
        BY <3>2 DEF RequestsInv, Attempt
      <4>2. Attempt(c, 1) \in requests' <=> Attempt(c, 1) \in requests
        BY <1>0, <3>2 DEF Attempt
      <4> QED BY <1>0, <2>1, <2>2, <3>2, <4>1, <4>2 DEF Travelling
    <3> QED BY <1>0, <3>1, <3>2
  <2>3. CASE d # c
    <3>1. \A n \in 1..2 : Attempt(d, n) \in requests' <=> Attempt(d, n) \in requests
      BY <1>0, <2>3 DEF Attempt
    <3> QED BY <1>0, <2>1, <2>3, <3>1 DEF Travelling
  <2> QED BY <2>2, <2>3
<1>4. TriesInv'
  BY <1>0 DEF TriesInv, Retryable, Timed, Effective
<1>5. RequestsInv'
  BY <1>0 DEF RequestsInv, Attempt, Attempts
<1>6. RepliesInv'
  <2> SUFFICES ASSUME NEW r \in replies'
               PROVE  (/\ r.try <= tries[r.call]
                       /\ Attempt(r.call, r.try) \notin requests
                       /\ r.code = "ok" => effects[r.call] > 0)'
    BY DEF RepliesInv
  <2>1. r \in replies /\ r \in Replies
    OBVIOUS
  <2>2. /\ r.try <= tries[r.call]
        /\ Attempt(r.call, r.try) \notin requests
        /\ r.code = "ok" => effects[r.call] > 0
    BY <2>1 DEF RepliesInv
  <2>3. Attempt(r.call, r.try) # Attempt(c, tries[c] + 1)
    BY <1>0, <2>1, <2>2 DEF Attempt, Replies
  <2> QED BY <1>0, <2>1, <2>2, <2>3 DEF Replies
<1>7. SettledInv'
  BY <1>0 DEF SettledInv, Attempt
<1>8. ResultTookEffect'
  BY <1>0 DEF ResultTookEffect
<1> QED BY <1>1, <1>3, <1>4, <1>5, <1>6, <1>7, <1>8

(* Ending a call with a code keeps the invariant when the code is honest:  *)
(* a result means that the attempt was executed and has been answered.     *)
LEMMA SettleInv ==
  ASSUME Inv, NEW c \in Calls, NEW code \in Codes,
         Open(c),
         code = "ok" => effects[c] > 0 /\ Attempt(c, tries[c]) \notin requests,
         outcome' = [outcome EXCEPT ![c] = code],
         UNCHANGED <<tries, requests, effects>>,
         replies' \subseteq replies
  PROVE  Inv'
<1>. USE DEF Inv, TypeOK
<1>1. TypeOK'
  BY DEF Codes
<1>2. Accounted'
  BY DEF Accounted, Travelling
<1>3. TriesInv'
  BY DEF TriesInv, Retryable, Timed, Effective, Open
<1>4. RequestsInv' /\ RepliesInv'
  BY DEF RequestsInv, RepliesInv
<1>5. SettledInv'
  BY DEF SettledInv
<1>6. ResultTookEffect'
  BY DEF ResultTookEffect
<1> QED BY <1>1, <1>2, <1>3, <1>4, <1>5, <1>6

LEMMA ConcludeInv ==
  ASSUME Inv, NEW c \in Calls, NEW code \in Codes,
         Open(c), Conclude(c, code),
         code = "ok" => effects[c] > 0 /\ Attempt(c, tries[c]) \notin requests,
         replies' \subseteq replies
  PROVE  Inv'
<1>1. CASE code = "deadline" /\ tries[c] = 1 /\ Retryable(c)
  BY <1>1, SendInv DEF Conclude, Open
<1>2. CASE ~(code = "deadline" /\ tries[c] = 1 /\ Retryable(c))
  BY <1>2, SettleInv DEF Conclude
<1> QED BY <1>1, <1>2

(* An answered request leaves the network; effects may grow by one.        *)
LEMMA AnswerInv ==
  ASSUME Inv, NEW a \in requests, NEW code \in Codes,
         requests' = requests \ {a},
         Reply(a, code),
         \/ effects' = [effects EXCEPT ![a.call] = @ + 1]
         \/ effects' = effects /\ code # "ok",
         UNCHANGED <<tries, outcome>>
  PROVE  Inv'
<1>. USE DEF Inv, TypeOK
<1>0. /\ a \in Attempts
      /\ a = Attempt(a.call, a.try)
      /\ a.call \in Calls /\ a.try \in 1..2
      /\ a.try <= tries[a.call]
  BY DEF Attempts, Attempt, RequestsInv
<1>1. TypeOK'
  BY <1>0 DEF Reply, Replies, Attempts
<1>2. Accounted'
  <2> SUFFICES ASSUME NEW d \in Calls
               PROVE  (effects[d] + Travelling(d, 1) + Travelling(d, 2) <= tries[d])'
    BY DEF Accounted
  <2>1. effects[d] + Travelling(d, 1) + Travelling(d, 2) <= tries[d]
    BY DEF Accounted
  <2>2. CASE d = a.call
    <3>1. /\ a.try = 1 => /\ Attempt(d, 1) \in requests /\ Attempt(d, 1) \notin requests'
                          /\ Attempt(d, 2) \in requests' <=> Attempt(d, 2) \in requests
          /\ a.try = 2 => /\ Attempt(d, 2) \in requests /\ Attempt(d, 2) \notin requests'
                          /\ Attempt(d, 1) \in requests' <=> Attempt(d, 1) \in requests
      BY <1>0, <2>2 DEF Attempt
    <3>2. effects'[d] <= effects[d] + 1 /\ effects'[d] \in Nat
      BY <1>0, <2>2
    <3> QED BY <1>0, <2>1, <2>2, <3>1, <3>2 DEF Travelling
  <2>3. CASE d # a.call
    <3>1. \A n \in 1..2 : Attempt(d, n) \in requests' <=> Attempt(d, n) \in requests
      BY <1>0, <2>3 DEF Attempt
    <3>2. effects'[d] = effects[d]
      BY <2>3
    <3> QED BY <2>1, <2>3, <3>1, <3>2 DEF Travelling
  <2> QED BY <2>2, <2>3
<1>3. TriesInv'
  BY DEF TriesInv, Retryable, Timed, Effective
<1>4. RequestsInv'
  BY DEF RequestsInv
<1>5. \A c \in Calls : effects'[c] >= effects[c] /\ effects'[c] \in Nat
  BY <1>0
<1>6. RepliesInv'
  <2> SUFFICES ASSUME NEW r \in replies'
               PROVE  (/\ r.try <= tries[r.call]
                       /\ Attempt(r.call, r.try) \notin requests
                       /\ r.code = "ok" => effects[r.call] > 0)'
    BY DEF RepliesInv
  <2>1. CASE r \in replies
    BY <1>5, <2>1 DEF RepliesInv, Replies
  <2>2. CASE r \notin replies
    <3>1. r = [call |-> a.call, try |-> a.try, code |-> code]
      BY <2>2 DEF Reply
    <3>2. code = "ok" => effects'[a.call] > 0
      BY <1>0
    <3> QED BY <1>0, <3>1, <3>2
  <2> QED BY <2>1, <2>2
<1>7. SettledInv'
  BY DEF SettledInv
<1>8. ResultTookEffect'
  BY <1>5 DEF ResultTookEffect
<1> QED BY <1>1, <1>2, <1>3, <1>4, <1>6, <1>7, <1>8

(* Losing requests or replies keeps the invariant.                         *)
LEMMA LossInv ==
  ASSUME Inv, requests' \subseteq requests, replies' \subseteq replies,
         UNCHANGED <<tries, outcome, effects>>
  PROVE  Inv'
<1>. USE DEF Inv, TypeOK
<1>1. TypeOK' /\ TriesInv' /\ RequestsInv' /\ RepliesInv' /\ SettledInv' /\ ResultTookEffect'
  BY DEF TriesInv, RequestsInv, RepliesInv, SettledInv, ResultTookEffect,
         Retryable, Timed, Effective
<1>2. Accounted'
  <2> SUFFICES ASSUME NEW d \in Calls
               PROVE  (effects[d] + Travelling(d, 1) + Travelling(d, 2) <= tries[d])'
    BY DEF Accounted
  <2>1. effects[d] + Travelling(d, 1) + Travelling(d, 2) <= tries[d]
    BY DEF Accounted
  <2>2. Travelling(d, 1)' <= Travelling(d, 1) /\ Travelling(d, 2)' <= Travelling(d, 2)
    BY DEF Travelling
  <2> QED BY <2>1, <2>2 DEF Travelling
<1> QED BY <1>1, <1>2

-----------------------------------------------------------------------------
LEMMA InitInv == Init => Inv
BY DEF Init, Inv, TypeOK, Accounted, Travelling, TriesInv, RequestsInv,
       RepliesInv, SettledInv, ResultTookEffect

LEMMA NextInv == Inv /\ [Next]_vars => Inv'
<1> SUFFICES ASSUME Inv, [Next]_vars PROVE Inv'
  OBVIOUS
<1>1. ASSUME NEW c \in Calls, Issue(c) PROVE Inv'
  <2>1. tries[c] = 0 /\ outcome[c] = "none"
    BY <1>1 DEF Issue, Inv, TriesInv
  <2> QED BY <1>1, <2>1, SendInv DEF Issue
<1>2. ASSUME NEW c \in Calls, Receive(c) PROVE Inv'
  <2> PICK r \in replies : /\ Open(c)
                           /\ r.call = c /\ r.try = tries[c]
                           /\ Conclude(c, r.code)
                           /\ replies' = replies \ {r}
    BY <1>2 DEF Receive
  <2>1. r.code \in Codes
    BY DEF Inv, TypeOK, Replies
  <2>2. /\ r.code = "ok" => effects[c] > 0
        /\ Attempt(c, tries[c]) \notin requests
    BY DEF Inv, RepliesInv
  <2> QED BY <2>1, <2>2, ConcludeInv
<1>3. ASSUME NEW c \in Calls, Expire(c) \/ Disconnect(c) PROVE Inv'
  <2> PICK code \in {"deadline", "error"} : Open(c) /\ Conclude(c, code) /\ UNCHANGED replies
    BY <1>3 DEF Expire, Disconnect
  <2> QED BY ConcludeInv DEF Codes
<1>4. ASSUME NEW a \in requests, Execute(a) PROVE Inv'
  <2> PICK code \in Codes : Reply(a, code)
    BY <1>4 DEF Execute
  <2> QED BY <1>4, AnswerInv DEF Execute
<1>5. ASSUME NEW a \in requests, Reject(a) PROVE Inv'
  <2> PICK code \in Codes \ {"ok"} : Reply(a, code)
    BY <1>5 DEF Reject
  <2> QED BY <1>5, AnswerInv DEF Reject
<1>6. ASSUME NEW a \in requests, LoseRequest(a) PROVE Inv'
  BY <1>6, LossInv DEF LoseRequest
<1>7. ASSUME NEW r \in replies, LoseReply(r) PROVE Inv'
  BY <1>7, LossInv DEF LoseReply
<1>8. CASE UNCHANGED vars
  BY <1>8, LossInv DEF vars
<1> QED BY <1>1, <1>2, <1>3, <1>4, <1>5, <1>6, <1>7, <1>8
        DEF Next, Client, Runtime

LEMMA Invariance == Spec => []Inv
BY InitInv, NextInv, PTL DEF Spec

(* The variables of RuntimeCalls keep their types.                         *)
THEOREM TypeCorrect == Spec => []TypeOK
BY Invariance, PTL DEF Inv

(* A result handed to the caller of runtime_call stands for an execution   *)
(* of the request, for every combination of timeouts.                      *)
THEOREM ResultsAreReal == Spec => []ResultTookEffect
BY Invariance, PTL DEF Inv

LEMMA InvBounds == Inv => AtMostTwice
<1> SUFFICES ASSUME Inv, NEW c \in Calls
             PROVE  effects[c] <= IF DefaultTimeout # 0 /\ Explicit[c] = 0
                                  THEN 2 ELSE 1
  BY DEF AtMostTwice
<1>1. effects[c] \in Nat /\ tries[c] \in 0..2
  BY DEF Inv, TypeOK
<1>2. effects[c] <= tries[c]
  BY <1>1 DEF Inv, Accounted, Travelling
<1>3. tries[c] = 2 => DefaultTimeout # 0 /\ Explicit[c] = 0
  BY DEF Inv, TriesInv, Retryable, Timed, Effective
<1> QED BY <1>1, <1>2, <1>3

(* A request is executed at most twice, and once when it is not retryable. *)
THEOREM BoundedExecutions == Spec => []AtMostTwice
BY Invariance, InvBounds, PTL

(* After a result only the first attempt that runtime_call gave up can be  *)
(* executed; what it leaves of a call it did not retry is never executed   *)
(* (runtime_calls.py:35-46).                                               *)
THEOREM ResultsAreFinal == Spec => ResultIsFinal
<1>1. Inv /\ Inv' /\ [Next]_vars =>
        [\A c \in Calls : outcome[c] = "ok" /\ effects'[c] # effects[c]
            => tries[c] = 2 /\ Retryable(c) /\ effects'[c] = 2]_vars
  <2> SUFFICES ASSUME Inv, Inv', Next, NEW c \in Calls,
                      outcome[c] = "ok", effects'[c] # effects[c]
               PROVE  tries[c] = 2 /\ Retryable(c) /\ effects'[c] = 2
    BY DEF vars
  <2>1. PICK a \in requests : Execute(a)
    BY DEF Next, Client, Runtime, Issue, Receive, Expire, Disconnect, Conclude, Send,
           Reject, LoseRequest, LoseReply
  <2>2. /\ a = Attempt(a.call, a.try) /\ a.try <= tries[a.call]
        /\ a.call \in Calls /\ a.try \in 1..2
    BY DEF Inv, TypeOK, Attempts, Attempt, RequestsInv
  <2>3. a.call = c
    BY <2>1, <2>2 DEF Execute, Inv, TypeOK
  <2>4. a.try # tries[c]
    BY <2>2, <2>3 DEF Inv, SettledInv
  <2>5. tries[c] \in 0..2 /\ effects[c] \in Nat /\ effects'[c] = effects[c] + 1
    BY <2>1, <2>3 DEF Execute, Inv, TypeOK
  <2>6. tries[c] = 2
    BY <2>2, <2>3, <2>4, <2>5
  <2>7. effects[c] > 0
    BY DEF Inv, ResultTookEffect
  <2>8. tries'[c] = 2 /\ effects'[c] <= tries'[c]
    <3>1. tries'[c] = 2
      BY <2>1, <2>6 DEF Execute
    <3>2. (effects[c] + Travelling(c, 1) + Travelling(c, 2) <= tries[c])' /\ effects'[c] \in Nat
      BY <2>5 DEF Inv, Accounted
    <3> QED BY <3>1, <3>2 DEF Travelling
  <2> QED BY <2>5, <2>6, <2>7, <2>8 DEF Inv, TriesInv
<1> QED BY <1>1, Invariance, PTL DEF Spec, ResultIsFinal

-----------------------------------------------------------------------------
LEMMA InvBoundsNext == Inv' => AtMostTwice'
BY InvBounds, PTL

(* Every step of RuntimeCalls is a step of AtLeastOnceCall or a stutter:   *)
(* a retry, a loss and a refusal are invisible to the caller.              *)
LEMMA StepRefines == Inv /\ Inv' /\ [Next]_vars => [Abstract!Next]_(Abstract!vars)
<1> SUFFICES ASSUME Inv, Inv', [Next]_vars
             PROVE  Abstract!Next \/ UNCHANGED Abstract!vars
  OBVIOUS
<1>. USE DEF Abstract!vars
<1>0. /\ tries \in [Calls -> 0..2] /\ outcome \in [Calls -> Codes \cup {"none"}]
      /\ effects \in [Calls -> Nat]
  BY DEF Inv, TypeOK
<1>1. ASSUME NEW c \in Calls, Issue(c)
      PROVE  Abstract!Next
  <2>1. {d \in Calls : tries'[d] > 0} = {d \in Calls : tries[d] > 0} \cup {c}
    BY <1>0, <1>1 DEF Issue, Send
  <2>2. Abstract!Begin(c)
    BY <1>0, <1>1, <2>1 DEF Issue, Send, Open, Abstract!Begin, Abstract!Open
  <2> QED BY <2>2 DEF Abstract!Next
<1>2. ASSUME NEW c \in Calls, NEW code \in Codes, Open(c), Conclude(c, code),
             code = "ok" => effects[c] > 0
      PROVE  Abstract!Next \/ UNCHANGED Abstract!vars
  <2>1. CASE code = "deadline" /\ tries[c] = 1 /\ Retryable(c)
    <3>1. {d \in Calls : tries'[d] > 0} = {d \in Calls : tries[d] > 0}
      BY <1>0, <1>2, <2>1 DEF Conclude, Send
    <3> QED BY <1>2, <2>1, <3>1 DEF Conclude, Send
  <2>2. CASE ~(code = "deadline" /\ tries[c] = 1 /\ Retryable(c))
    <3>1. Abstract!Return(c, code)
      BY <1>0, <1>2, <2>2 DEF Conclude, Open, Abstract!Return, Abstract!Open
    <3> QED BY <3>1 DEF Abstract!Next, Abstract!Codes, Codes
  <2> QED BY <2>1, <2>2
<1>3. ASSUME NEW c \in Calls, Receive(c)
      PROVE  Abstract!Next \/ UNCHANGED Abstract!vars
  <2> PICK r \in replies : /\ Open(c)
                           /\ r.call = c /\ r.try = tries[c]
                           /\ Conclude(c, r.code)
    BY <1>3 DEF Receive
  <2>1. r.code \in Codes /\ (r.code = "ok" => effects[c] > 0)
    BY DEF Inv, TypeOK, Replies, RepliesInv
  <2> QED BY <1>2, <2>1
<1>4. ASSUME NEW c \in Calls, Expire(c) \/ Disconnect(c)
      PROVE  Abstract!Next \/ UNCHANGED Abstract!vars
  BY <1>2, <1>4 DEF Expire, Disconnect, Codes
<1>5. ASSUME NEW a \in requests, Execute(a)
      PROVE  Abstract!Next
  <2>1. a.call \in Calls /\ a.try \in 1..2 /\ a.try <= tries[a.call]
    BY DEF Inv, TypeOK, Attempts, RequestsInv
  <2>2. effects'[a.call] <= IF DefaultTimeout # 0 /\ Explicit[a.call] = 0
                            THEN 2 ELSE 1
    BY <2>1, InvBoundsNext DEF AtMostTwice
  <2>3. effects[a.call] < [c \in Calls |-> IF DefaultTimeout # 0 /\ Explicit[c] = 0
                                           THEN 2 ELSE 1][a.call]
    BY <1>0, <1>5, <2>1, <2>2 DEF Execute
  <2>4. Abstract!Execute(a.call)
    BY <1>0, <1>5, <2>1, <2>3 DEF Execute, Abstract!Execute
  <2> QED BY <2>1, <2>4 DEF Abstract!Next
<1>6. CASE \E a \in requests : Reject(a) \/ LoseRequest(a)
  BY <1>6 DEF Reject, LoseRequest
<1>7. CASE \E r \in replies : LoseReply(r)
  BY <1>7 DEF LoseReply
<1>8. CASE UNCHANGED vars
  BY <1>8 DEF vars
<1> QED BY <1>1, <1>3, <1>4, <1>5, <1>6, <1>7, <1>8 DEF Next, Client, Runtime

LEMMA InitRefines == Init => Abstract!Init
BY DEF Init, Abstract!Init

(* runtime_call implements an at-least-once call with a budget of two      *)
(* executions: callers need to know nothing of attempts and timeouts.      *)
THEOREM Refinement == Spec => ImplementsAtLeastOnce
<1>1. Spec => []Inv
  BY Invariance
<1>2. Spec => Init /\ [][Next]_vars
  BY PTL DEF Spec
<1> QED BY <1>1, <1>2, InitRefines, StepRefines, PTL
        DEF ImplementsAtLeastOnce, Abstract!Spec
=============================================================================
