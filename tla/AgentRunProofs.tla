--------------------------- MODULE AgentRunProofs ---------------------------
(***************************************************************************)
(* Proofs about AgentRun for any tasks, documents, commands and budgets.   *)
(***************************************************************************)
EXTENDS AgentRun, TLAPS

-----------------------------------------------------------------------------
(* The inductive invariants.                                               *)

Over == {"returned", "raised", "reread"}

(* Where the program is decides what is still open: calls of a response,   *)
(* the classifier, the answer.                                             *)
Control ==
    /\ pending <= modelCalls
    /\ pc \in {"batch", "tree", "upload"} => pending > 0
    /\ pc \notin {"batch", "tree", "upload", "raised"} => pending = 0
    /\ pc \in {"batch", "tree", "upload", "reread"} => step > 0
    /\ pc # "startup" => classifier = "done"
    /\ classifier = "running" => classification = {}
    /\ pc \notin Over => dispatched = 0 /\ ~result.completed
    /\ dispatched <= 1
    /\ pc \in {"returned", "reread"} => dispatched = 1
    /\ delivered <= 2 * dispatched
    /\ result.completed => pc = "returned"
    /\ result.completed /\ delivered = 0 => step > 0 /\ ~result.fallback

(* Until the override check nothing has happened, and nothing gets past it. *)
Guarded ==
    /\ pc \in {"startup", "preflight", "closing"} => step = 0
    /\ pc = "startup" => stage = 1
    /\ pc = "preflight" /\ stage <= 5 => touched = {}
    /\ pc = "startup" => touched = {}
    /\ "override" \in classification =>
          /\ touched = {} /\ step = 0
          /\ pc \in {"startup", "preflight", "closing", "returned", "raised"}
          /\ pc = "preflight" => stage <= 3

(* A document that was read is in the seen set, from which the loaded      *)
(* documents are refreshed at completion.                                  *)
Reading ==
    /\ read \subseteq seenRead
    /\ followups \cap Docs \subseteq seenRead
    /\ pc = "reread" => read \subseteq loaded
    /\ result.completed /\ step > 0 /\ ~result.fallback => read \subseteq loaded

(* The history c with a synthetic calls and m calls of the model, of which *)
(* the first k have been run: ids are used once and answered once.         *)
CallAt(c, n) == c[n].type = "function_call"
OutputAt(c, n) == c[n].type = "function_call_output"

Ordered(c, a, k, m) ==
    /\ \A n \in 1..Len(c) : CallAt(c, n) =>
          \/ c[n].id.source = "auto" /\ c[n].id.n \in 1..a
          \/ c[n].id.source = "model" /\ c[n].id.n \in 1..m
    /\ \A n \in 1..Len(c) : OutputAt(c, n) =>
          \/ c[n].id.source = "auto" /\ c[n].id.n \in 1..a
          \/ c[n].id.source = "model" /\ c[n].id.n \in 1..k
    /\ \A i, j \in 1..Len(c) : c[i].id = c[j].id =>
          /\ CallAt(c, i) /\ CallAt(c, j) => i = j
          /\ OutputAt(c, i) /\ OutputAt(c, j) => i = j
          /\ CallAt(c, i) /\ OutputAt(c, j) => i < j
    /\ \A j \in 1..Len(c) : OutputAt(c, j) =>
          \E i \in 1..Len(c) : CallAt(c, i) /\ c[i].id = c[j].id

Answered(c, k, m) ==
    /\ \A i \in 1..Len(c) :
          CallAt(c, i) /\ (c[i].id.source = "model" => c[i].id.n <= k) =>
             \E j \in 1..Len(c) : OutputAt(c, j) /\ c[i].id = c[j].id
    /\ \A x \in k+1..m : \E i \in 1..Len(c) : CallAt(c, i) /\ c[i].id = Id("model", x)

History ==
    /\ Ordered(context, autoCalls, modelCalls - pending, modelCalls)
    /\ pc \notin Over => Answered(context, modelCalls - pending, modelCalls)

-----------------------------------------------------------------------------
(* The items of the history.                                               *)
LEMMA ItemTypes ==
  /\ User \in Items /\ Text \in Items
  /\ \A n \in Nat : /\ Call(Id("auto", n)) \in Items /\ Output(Id("auto", n)) \in Items
                    /\ Call(Id("model", n)) \in Items /\ Output(Id("model", n)) \in Items
BY DEF User, Text, Call, Output, Id, Items

LEMMA AppendPairType ==
  ASSUME TypeOK, AppendPair
  PROVE  /\ context' \in Seq(Items) /\ autoCalls' \in Nat /\ modelCalls' = modelCalls
         /\ autoCalls' = autoCalls + 1
BY ItemTypes DEF TypeOK, AppendPair

LEMMA EndCallType ==
  ASSUME TypeOK, EndCall, 0 < pending, pending <= modelCalls
  PROVE  /\ context' \in Seq(Items)
         /\ pending' \in 0..MaxCalls /\ pending' = pending - 1
         /\ pc' = (IF pending = 1 THEN "ask" ELSE "batch")
         /\ autoCalls' = autoCalls /\ modelCalls' = modelCalls
<1>1. MaxCalls \in Nat /\ pending \in 0..MaxCalls /\ modelCalls \in Nat
  BY RunAssumption DEF TypeOK
<1>2. modelCalls - pending + 1 \in Nat
  BY <1>1
<1>3. Output(Id("model", modelCalls - pending + 1)) \in Items
  BY <1>2, ItemTypes
<1>4. context' \in Seq(Items)
  BY <1>3 DEF TypeOK, EndCall
<1>5. pending' \in 0..MaxCalls
  BY <1>1 DEF EndCall
<1>. QED
  BY <1>4, <1>5 DEF EndCall

LEMMA Lengths == Len(Must) = 6 /\ Len(Preflights) = 10 /\ DOMAIN Preflights = 1..10
BY DEF Must, Preflights

(* The actions, one case each.                                             *)
LEMMA Actions ==
  ASSUME Next
  PROVE  \/ ClassifierReturns
         \/ StartupCall \/ StartupError \/ StartupFollowup \/ AwaitClassifier
         \/ \E i \in DOMAIN Preflights : PreflightPasses(Preflights[i])
         \/ \E i \in DOMAIN Preflights : PreflightCloses(Preflights[i])
         \/ \E i \in DOMAIN Preflights : PreflightRaises(Preflights[i])
         \/ SelectBasket \/ FinalizePreflight \/ BeginLoop
         \/ Ask \/ AskRaises \/ PlainCall \/ ReadCall \/ HelpCall
         \/ TreeCall \/ TreeFollowup \/ TreeDone
         \/ \E way \in {"raw", "exec"} : ChangingCall(way)
         \/ CallRaises \/ Completion \/ Fallback \/ ReadUpload \/ RereadUpload
BY DEF Next, PreflightStep, LoopStep

-----------------------------------------------------------------------------
(* Types, and the control part of the invariant.                           *)
LEMMA InitBase ==
  ASSUME Init
  PROVE  TypeOK /\ Control
<1>1. <<>> \in Seq(Items) /\ 0 \in 0..MaxSteps /\ 0 \in 0..MaxCalls
  BY RunAssumption
<1>2. [completed |-> FALSE, fallback |-> FALSE] \in Results
  BY DEF Results
<1>3. must \in 0..Len(Must) /\ stage \in 1..Len(Preflights) + 1
  BY Lengths DEF Init
<1>5. context \in Seq(Items) /\ pending \in 0..MaxCalls /\ step \in 0..MaxSteps
  BY <1>1 DEF Init
<1>6. TypeOK
  BY <1>2, <1>3, <1>5 DEF Init, TypeOK, EmptyClassification
<1>4. Control
  BY DEF Init, Control, Over, EmptyClassification
<1>. QED
  BY <1>6, <1>4

LEMMA SubmitOnce ==
  ASSUME NEW ok \in BOOLEAN, Submit(ok), dispatched = 0, delivered \in Nat, delivered <= 2 * dispatched
  PROVE  dispatched' = 1 /\ delivered' \in 0..2 /\ (ok => delivered' > 0)
<1>1. PICK r \in AtLeastOnce : /\ r.ok = ok /\ dispatched' = dispatched + 1
                              /\ delivered' = delivered + r.times
  BY DEF Submit
<1>2. r.times \in 0..2 /\ (ok => r.times > 0)
  BY <1>1 DEF AtLeastOnce
<1>. QED
  BY <1>1, <1>2

LEMMA CompletionTypes ==
  ASSUME TypeOK, Completion, 0 < pending, pending <= modelCalls
  PROVE  context' \in Seq(Items)
<1>1. modelCalls - pending + 1 \in Nat
  BY RunAssumption DEF TypeOK
<1>. QED
  BY <1>1, ItemTypes DEF TypeOK, Completion

LEMMA AskTypes ==
  ASSUME TypeOK, Ask
  PROVE  /\ context' \in Seq(Items) /\ modelCalls' = modelCalls + pending'
         /\ pending' \in 0..MaxCalls /\ step' = step + 1
         /\ pc' = IF pending' = 0 THEN "ask" ELSE "batch"
<1>1. PICK n \in 0..MaxCalls :
        /\ IF n = 0
           THEN pc' = pc /\ context' = context \o <<Text, User>>
           ELSE /\ pc' = "batch"
                /\ context' = context \o [i \in 1..n |-> Call(Id("model", modelCalls + i))]
        /\ modelCalls' = modelCalls + n
        /\ pending' = n
  BY DEF Ask
<1>2. n \in Nat /\ modelCalls \in Nat /\ context \in Seq(Items)
  BY RunAssumption DEF TypeOK
<1>3. <<Text, User>> \in Seq(Items)
  BY ItemTypes
<1>4. [i \in 1..n |-> Call(Id("model", modelCalls + i))] \in Seq(Items)
  <2>1. \A i \in 1..n : Call(Id("model", modelCalls + i)) \in Items
    BY <1>2, ItemTypes
  <2>. QED
    BY <1>2, <2>1
<1>5. context' \in Seq(Items)
  <2>1. CASE n = 0
    BY <2>1, <1>1, <1>2, <1>3
  <2>2. CASE n # 0
    <3>1. context' = context \o [i \in 1..n |-> Call(Id("model", modelCalls + i))]
      BY <2>2, <1>1
    <3>. QED
      BY <3>1, <1>2, <1>4
  <2>. QED
    BY <2>1, <2>2
<1>6. pc' = IF pending' = 0 THEN "ask" ELSE "batch"
  BY <1>1, <1>2 DEF Ask
<1>. QED
  BY <1>1, <1>5, <1>6 DEF Ask

LEMMA BaseStep ==
  ASSUME TypeOK, Control, [Next]_vars
  PROVE  TypeOK' /\ Control'
<1>. USE Lengths, RunAssumption
<1>. USE DEF TypeOK, Control, Over, startupVars, docVars, contextVars, answerVars
<1>1. CASE ClassifierReturns
  BY <1>1 DEF ClassifierReturns, Normalize, EmptyClassification, Intents
<1>2. CASE StartupCall
  <2>1. /\ must' = must + 1 /\ must < 6 /\ AppendPair
        /\ UNCHANGED <<task, pc, classifier, classification, loaded, stage, closedBy,
                       pending, step, touched, answerVars>>
    BY <1>2 DEF StartupCall, Startup
  <2>2. /\ date' \in BOOLEAN /\ followups' \subseteq Docs \cup Commands
        /\ seenRead' \subseteq Docs /\ seenHelp' \subseteq Commands /\ read' \subseteq Docs
    <3>1. ASSUME NEW shown \in SUBSET ((Docs \ {AgentsMd}) \cup Commands),
                 FollowTree(shown), UNCHANGED date
          PROVE  <2>2!:
      BY <3>1 DEF FollowTree
    <3>. QED
      BY <3>1, <1>2 DEF StartupCall
  <2>. QED
    BY <2>1, <2>2, AppendPairType
<1>3. CASE StartupError
  BY AppendPairType, <1>3 DEF StartupError, Startup
<1>4. CASE StartupFollowup
  BY AppendPairType, <1>4 DEF StartupFollowup, Follow
<1>5. CASE AwaitClassifier
  BY <1>5 DEF AwaitClassifier
<1>6. ASSUME NEW i \in DOMAIN Preflights, PreflightPasses(Preflights[i])
      PROVE  TypeOK' /\ Control'
  BY <1>6 DEF PreflightPasses, Preflight
<1>7. ASSUME NEW i \in DOMAIN Preflights, PreflightCloses(Preflights[i])
      PROVE  TypeOK' /\ Control'
  BY <1>7 DEF PreflightCloses, Preflight
<1>8. ASSUME NEW i \in DOMAIN Preflights, PreflightRaises(Preflights[i])
      PROVE  TypeOK' /\ Control'
  BY <1>8 DEF PreflightRaises, Preflight
<1>9. CASE SelectBasket
  BY AppendPairType, <1>9 DEF SelectBasket, Preflight
<1>10. CASE FinalizePreflight
  <2>1. /\ dispatched = 0 /\ delivered \in Nat /\ delivered <= 2 * dispatched
        /\ pending <= modelCalls /\ (pc = "batch" => 0 < pending)
        /\ pc = "closing" /\ ~result.completed
        /\ \E ok \in BOOLEAN : Submit(ok)
    BY <1>10 DEF FinalizePreflight
  <2>2. /\ dispatched' = 1 /\ dispatched' \in Nat
        /\ delivered' \in Nat /\ delivered' <= 2 * dispatched'
    BY <2>1, SubmitOnce
  <2>4. /\ result' \in Results
        /\ pc' \in {"returned", "raised"}
        /\ result'.completed => pc' = "returned" /\ delivered' > 0
    <3>1. CASE /\ Submit(TRUE) /\ pc' = "returned"
               /\ result' = [completed |-> TRUE, fallback |-> FALSE]
      BY <2>1, <3>1, SubmitOnce DEF Results
    <3>2. CASE pc' = "raised" /\ result' = result
      BY <2>1, <3>2 DEF Results
    <3>. QED
      BY <3>1, <3>2, <1>10 DEF FinalizePreflight
  <2>. QED
    BY <2>1, <2>2, <2>4, <1>10 DEF FinalizePreflight, Results
<1>11. CASE BeginLoop
  BY ItemTypes, <1>11 DEF BeginLoop
<1>12. CASE Ask
  <2>1. /\ pc = "ask" /\ step < MaxSteps
        /\ UNCHANGED <<task, startupVars, followups, docVars, loaded, stage, closedBy,
                       autoCalls, touched, answerVars>>
    BY <1>12 DEF Ask
  <2>2. /\ step' \in 0..MaxSteps /\ pending' \in 0..MaxCalls /\ modelCalls' \in Nat
        /\ pending' <= modelCalls' /\ step' > 0
    BY <2>1, <1>12, AskTypes
  <2>3. TypeOK'
    BY <2>1, <2>2, <1>12, AskTypes
  <2>4. Control'
    <3>1. \/ pc' = "ask" /\ pending' = 0
          \/ pc' = "batch" /\ pending' > 0
      <4>1. pc' = IF pending' = 0 THEN "ask" ELSE "batch"
        BY <1>12, AskTypes
      <4>2. MaxCalls \in Nat
        OBVIOUS
      <4>3. pending' = 0 \/ pending' > 0
        BY <2>2, <4>2
      <4>. QED
        BY <4>1, <4>3
    <3>. QED
      BY <2>1, <2>2, <3>1
  <2>. QED
    BY <2>3, <2>4
<1>13. CASE AskRaises
  BY <1>13 DEF AskRaises
<1>14. CASE PlainCall
  BY EndCallType, <1>14 DEF PlainCall
<1>15. CASE ReadCall
  BY EndCallType, <1>15 DEF ReadCall
<1>16. CASE HelpCall
  BY EndCallType, <1>16 DEF HelpCall
<1>17. CASE TreeCall
  BY <1>17 DEF TreeCall, FollowTree
<1>18. CASE TreeFollowup
  BY <1>18 DEF TreeFollowup, Follow
<1>19. CASE TreeDone
  BY EndCallType, <1>19 DEF TreeDone
<1>20. ASSUME NEW way \in {"raw", "exec"}, ChangingCall(way)
      PROVE  TypeOK' /\ Control'
  BY EndCallType, <1>20 DEF ChangingCall
<1>21. CASE CallRaises
  BY <1>21 DEF CallRaises
<1>22. CASE Completion
  <2>1. /\ dispatched = 0 /\ delivered \in Nat /\ delivered <= 2 * dispatched
        /\ pending <= modelCalls /\ 0 < pending /\ step > 0
        /\ pc \in {"batch", "upload"} /\ ~result.completed
        /\ \E ok \in BOOLEAN : Submit(ok)
    BY <1>22 DEF Completion
  <2>2. /\ dispatched' = 1 /\ dispatched' \in Nat
        /\ delivered' \in Nat /\ delivered' <= 2 * dispatched'
    BY <2>1, SubmitOnce
  <2>3. context' \in Seq(Items)
    BY <2>1, <1>22, CompletionTypes
  <2>4. /\ result' \in Results
        /\ pc' \in {"returned", "reread"}
        /\ result'.completed => pc' = "returned" /\ ~result'.fallback
    <3>1. CASE pc' = "returned" /\ result' = [completed |-> TRUE, fallback |-> FALSE]
      BY <3>1 DEF Results
    <3>2. CASE pc' = "reread" /\ result' = result
      BY <2>1, <3>2
    <3>. QED
      BY <3>1, <3>2, <1>22 DEF Completion
  <2>5. pending' = 0 /\ step' = step /\ modelCalls' = modelCalls
    BY <1>22 DEF Completion
  <2>6. TypeOK'
    BY <2>1, <2>2, <2>3, <2>4, <2>5, <1>22 DEF Completion
  <2>7. Control'
    BY <2>1, <2>2, <2>4, <2>5, <1>22 DEF Completion
  <2>. QED
    BY <2>6, <2>7
<1>23. CASE Fallback
  <2>1. /\ dispatched = 0 /\ delivered \in Nat /\ delivered <= 2 * dispatched
        /\ pending <= modelCalls /\ (pc = "batch" => 0 < pending)
        /\ pc = "ask"
    BY <1>23 DEF Fallback
  <2>3. PICK ok \in BOOLEAN : Submit(ok) /\ result' = [completed |-> ok, fallback |-> TRUE]
    BY <1>23 DEF Fallback
  <2>2. /\ dispatched' = 1 /\ dispatched' \in Nat
        /\ delivered' \in Nat /\ delivered' <= 2 * dispatched'
        /\ ok => delivered' > 0
    BY <2>1, <2>3, SubmitOnce
  <2>4. /\ result' \in Results
        /\ pc' = "returned"
        /\ result'.completed => delivered' > 0
    BY <2>2, <2>3, <1>23 DEF Fallback, Results
  <2>. QED
    BY <2>1, <2>2, <2>4, <1>23 DEF Fallback, Results
<1>24. CASE UNCHANGED vars
  BY <1>24 DEF vars
<1>25. CASE ReadUpload
  BY <1>25 DEF ReadUpload
<1>26. CASE RereadUpload
  BY <1>26 DEF RereadUpload, Results
<1>. QED
  BY Actions, <1>1, <1>2, <1>3, <1>4, <1>5, <1>6, <1>7, <1>8, <1>9, <1>10, <1>11, <1>12, <1>13, <1>14, <1>15, <1>16, <1>17, <1>18, <1>19, <1>20, <1>21, <1>22, <1>23, <1>24, <1>25, <1>26

-----------------------------------------------------------------------------
(* The override check: nothing that changes files comes before it.         *)
LEMMA EarlyStages ==
  /\ Preflights[3] = "security"
  /\ \A i \in 1..4 : Preflights[i] \notin {"tmp_cleanup", "city", "selected_basket"}
<1>. SUFFICES ASSUME NEW i \in 1..4
              PROVE  Preflights[i] \notin {"tmp_cleanup", "city", "selected_basket"}
  BY DEF Preflights
<1>. i = 1 \/ i = 2 \/ i = 3 \/ i = 4
  OBVIOUS
<1>. QED
  BY DEF Preflights

LEMMA SecurityDenies ==
  ASSUME "override" \in classification
  PROVE  ~PreflightPasses("security")
BY DEF PreflightPasses, Forced, Applies, Knows

LEMMA GuardedStep ==
  ASSUME TypeOK, Control, Guarded, [Next]_vars
  PROVE  Guarded'
<1>. USE Lengths, RunAssumption
<1>. USE DEF TypeOK, Control, Guarded, Over, startupVars, docVars, contextVars, answerVars
<1>1. CASE ClassifierReturns
  BY <1>1 DEF ClassifierReturns, Normalize, EmptyClassification, Intents
<1>2. CASE StartupCall
  BY <1>2 DEF StartupCall, Startup, FollowTree
<1>3. CASE StartupError
  BY <1>3 DEF StartupError, Startup
<1>4. CASE StartupFollowup
  BY <1>4 DEF StartupFollowup, Follow
<1>5. CASE AwaitClassifier
  BY <1>5 DEF AwaitClassifier
<1>6. ASSUME NEW i \in DOMAIN Preflights, PreflightPasses(Preflights[i])
      PROVE  Guarded'
  <2>1. pc = "preflight" /\ stage \in 1..10 /\ Preflights[i] = Preflights[stage]
    BY <1>6 DEF PreflightPasses, Preflight
  <2>2. "override" \in classification => stage # 3
    BY <2>1, <1>6, EarlyStages, SecurityDenies
  <2>. QED
    BY <2>1, <2>2, <1>6 DEF PreflightPasses
<1>7. ASSUME NEW i \in DOMAIN Preflights, PreflightCloses(Preflights[i])
      PROVE  Guarded'
  <2>1. pc = "preflight" /\ stage \in 1..10 /\ Preflights[i] = Preflights[stage]
    BY <1>7 DEF PreflightCloses, Preflight
  <2>2. stage <= 3 => touched' = touched
    BY <2>1, <1>7, EarlyStages DEF PreflightCloses
  <2>. QED
    BY <2>1, <2>2, <1>7 DEF PreflightCloses
<1>8. ASSUME NEW i \in DOMAIN Preflights, PreflightRaises(Preflights[i])
      PROVE  Guarded'
  <2>1. pc = "preflight" /\ stage \in 1..10 /\ Preflights[i] = Preflights[stage]
    BY <1>8 DEF PreflightRaises, Preflight
  <2>2. stage > 4
    BY <2>1, <1>8, EarlyStages DEF PreflightRaises
  <2>. QED
    BY <2>1, <2>2, <1>8 DEF PreflightRaises
<1>9. CASE SelectBasket
  <2>1. pc = "preflight" /\ stage \in 1..10 /\ Preflights[stage] = "selected_basket"
    BY <1>9 DEF SelectBasket, Preflight
  <2>2. stage > 4
    BY <2>1, EarlyStages
  <2>. QED
    BY <2>1, <2>2, <1>9 DEF SelectBasket
<1>10. CASE FinalizePreflight
  BY <1>10 DEF FinalizePreflight, Results
<1>11. CASE BeginLoop
  BY <1>11 DEF BeginLoop
<1>12. CASE Ask
  BY <1>12 DEF Ask
<1>13. CASE AskRaises
  BY <1>13 DEF AskRaises
<1>14. CASE PlainCall
  BY <1>14 DEF PlainCall, EndCall
<1>15. CASE ReadCall
  BY <1>15 DEF ReadCall, EndCall
<1>16. CASE HelpCall
  BY <1>16 DEF HelpCall, EndCall
<1>17. CASE TreeCall
  BY <1>17 DEF TreeCall, FollowTree
<1>18. CASE TreeFollowup
  BY <1>18 DEF TreeFollowup, Follow
<1>19. CASE TreeDone
  BY <1>19 DEF TreeDone, EndCall
<1>20. ASSUME NEW way \in {"raw", "exec"}, ChangingCall(way)
      PROVE  Guarded'
  BY <1>20 DEF ChangingCall, EndCall
<1>21. CASE CallRaises
  BY <1>21 DEF CallRaises
<1>22. CASE Completion
  BY <1>22 DEF Completion, Results
<1>23. CASE Fallback
  BY <1>23 DEF Fallback, Results
<1>24. CASE UNCHANGED vars
  BY <1>24 DEF vars
<1>25. CASE ReadUpload
  BY <1>25 DEF ReadUpload
<1>26. CASE RereadUpload
  BY <1>26 DEF RereadUpload, Results
<1>. QED
  BY Actions, <1>1, <1>2, <1>3, <1>4, <1>5, <1>6, <1>7, <1>8, <1>9, <1>10, <1>11, <1>12,
     <1>13, <1>14, <1>15, <1>16, <1>17, <1>18, <1>19, <1>20, <1>21, <1>22, <1>23, <1>24, <1>25, <1>26

(* Documents: what was read is in the seen set.                            *)
LEMMA ReadingStep ==
  ASSUME TypeOK, Control, Guarded, Reading, [Next]_vars
  PROVE  Reading'
<1>. USE Lengths, RunAssumption
<1>. USE DEF TypeOK, Control, Reading, Over, startupVars, docVars, contextVars, answerVars
<1>1. CASE ClassifierReturns
  BY <1>1 DEF ClassifierReturns, Normalize, EmptyClassification, Intents
<1>2. CASE StartupCall
  BY <1>2 DEF StartupCall, Startup, FollowTree
<1>3. CASE StartupError
  BY <1>3 DEF StartupError, Startup
<1>4. CASE StartupFollowup
  BY <1>4 DEF StartupFollowup, Follow
<1>5. CASE AwaitClassifier
  BY <1>5 DEF AwaitClassifier
<1>6. ASSUME NEW i \in DOMAIN Preflights, PreflightPasses(Preflights[i])
      PROVE  Reading'
  BY <1>6 DEF PreflightPasses, Preflight, Forced, Applies, Knows
<1>7. ASSUME NEW i \in DOMAIN Preflights, PreflightCloses(Preflights[i])
      PROVE  Reading'
  BY <1>7 DEF PreflightCloses, Preflight
<1>8. ASSUME NEW i \in DOMAIN Preflights, PreflightRaises(Preflights[i])
      PROVE  Reading'
  BY <1>8 DEF PreflightRaises, Preflight
<1>9. CASE SelectBasket
  BY <1>9 DEF SelectBasket, Preflight
<1>10. CASE FinalizePreflight
  <2>1. step' = 0 /\ pc' \in {"returned", "raised"}
    BY <1>10 DEF FinalizePreflight, Guarded
  <2>. QED
    BY <2>1, <1>10 DEF FinalizePreflight
<1>11. CASE BeginLoop
  BY <1>11 DEF BeginLoop
<1>12. CASE Ask
  BY <1>12 DEF Ask
<1>13. CASE AskRaises
  BY <1>13 DEF AskRaises
<1>14. CASE PlainCall
  BY <1>14 DEF PlainCall, EndCall
<1>15. CASE ReadCall
  BY <1>15 DEF ReadCall, EndCall
<1>16. CASE HelpCall
  BY <1>16 DEF HelpCall, EndCall
<1>17. CASE TreeCall
  BY <1>17 DEF TreeCall, FollowTree
<1>18. CASE TreeFollowup
  BY <1>18 DEF TreeFollowup, Follow
<1>19. CASE TreeDone
  BY <1>19 DEF TreeDone, EndCall
<1>20. ASSUME NEW way \in {"raw", "exec"}, ChangingCall(way)
      PROVE  Reading'
  BY <1>20 DEF ChangingCall, EndCall
<1>21. CASE CallRaises
  BY <1>21 DEF CallRaises
<1>22. CASE Completion
  BY <1>22 DEF Completion, Results
<1>23. CASE Fallback
  BY <1>23 DEF Fallback, Results
<1>24. CASE UNCHANGED vars
  BY <1>24 DEF vars
<1>25. CASE ReadUpload
  BY <1>25 DEF ReadUpload
<1>26. CASE RereadUpload
  BY <1>26 DEF RereadUpload, Results
<1>. QED
  BY Actions, <1>1, <1>2, <1>3, <1>4, <1>5, <1>6, <1>7, <1>8, <1>9, <1>10, <1>11, <1>12,
     <1>13, <1>14, <1>15, <1>16, <1>17, <1>18, <1>19, <1>20, <1>21, <1>22, <1>23, <1>24, <1>25, <1>26

-----------------------------------------------------------------------------
(* The history: lemmas on what appending does to it.                       *)
LEMMA Identity ==
  /\ \A n \in Nat : \A source \in {"auto", "model"} :
        /\ Call(Id(source, n)).type = "function_call"
        /\ Output(Id(source, n)).type = "function_call_output"
        /\ Call(Id(source, n)).id = Id(source, n)
        /\ Output(Id(source, n)).id = Id(source, n)
        /\ Id(source, n).source = source /\ Id(source, n).n = n
  /\ User.type = "message" /\ Text.type = "message"
BY DEF Call, Output, Id, User, Text

LEMMA AppendFacts ==
  ASSUME NEW c \in Seq(Items), NEW x \in Items
  PROVE  /\ Len(Append(c, x)) = Len(c) + 1
         /\ \A i \in 1..Len(c) : Append(c, x)[i] = c[i]
         /\ Append(c, x)[Len(c) + 1] = x
         /\ Append(c, x) \in Seq(Items)
         /\ Len(c) \in Nat
OBVIOUS

(* A message changes nothing.                                              *)
LEMMA MessageKeeps ==
  ASSUME NEW c \in Seq(Items), NEW x \in Items, x.type = "message",
         NEW a \in Nat, NEW k \in Nat, NEW m \in Nat, Ordered(c, a, k, m)
  PROVE  /\ Ordered(Append(c, x), a, k, m)
         /\ Answered(c, k, m) => Answered(Append(c, x), k, m)
<1>. DEFINE d == Append(c, x)
            L == Len(c)
<1>1. /\ Len(d) = L + 1 /\ L \in Nat /\ d[L + 1] = x
      /\ \A i \in 1..L : d[i] = c[i]
  BY AppendFacts
<1>2. \A i \in 1..Len(d) : CallAt(d, i) \/ OutputAt(d, i) => i \in 1..L /\ d[i] = c[i]
  BY <1>1 DEF CallAt, OutputAt
<1>3. \A i \in 1..L : i \in 1..Len(d) /\ (CallAt(d, i) <=> CallAt(c, i)) /\ (OutputAt(d, i) <=> OutputAt(c, i))
  BY <1>1 DEF CallAt, OutputAt
<1>. HIDE DEF d, L
<1>4. Ordered(d, a, k, m)
  <2>1. \A n \in 1..Len(d) : CallAt(d, n) =>
          \/ d[n].id.source = "auto" /\ d[n].id.n \in 1..a
          \/ d[n].id.source = "model" /\ d[n].id.n \in 1..m
    BY <1>2, <1>3 DEF Ordered, L
  <2>2. \A n \in 1..Len(d) : OutputAt(d, n) =>
          \/ d[n].id.source = "auto" /\ d[n].id.n \in 1..a
          \/ d[n].id.source = "model" /\ d[n].id.n \in 1..k
    BY <1>2, <1>3 DEF Ordered, L
  <2>3. \A i, j \in 1..Len(d) : d[i].id = d[j].id =>
          /\ CallAt(d, i) /\ CallAt(d, j) => i = j
          /\ OutputAt(d, i) /\ OutputAt(d, j) => i = j
          /\ CallAt(d, i) /\ OutputAt(d, j) => i < j
    BY <1>2, <1>3 DEF Ordered, L
  <2>4. \A j \in 1..Len(d) : OutputAt(d, j) =>
          \E i \in 1..Len(d) : CallAt(d, i) /\ d[i].id = d[j].id
    <3>. SUFFICES ASSUME NEW j \in 1..Len(d), OutputAt(d, j)
                  PROVE  \E i \in 1..Len(d) : CallAt(d, i) /\ d[i].id = d[j].id
      OBVIOUS
    <3>1. PICK i \in 1..L : CallAt(c, i) /\ c[i].id = c[j].id
      BY <1>2, <1>3 DEF Ordered, L
    <3>. QED
      BY <3>1, <1>1, <1>2, <1>3
  <2>. QED
    BY <2>1, <2>2, <2>3, <2>4 DEF Ordered
<1>5. Answered(c, k, m) => Answered(d, k, m)
  <2>. SUFFICES ASSUME Answered(c, k, m) PROVE Answered(d, k, m)
    OBVIOUS
  <2>1. ASSUME NEW i \in 1..Len(d), CallAt(d, i), d[i].id.source = "model" => d[i].id.n <= k
        PROVE  \E j \in 1..Len(d) : OutputAt(d, j) /\ d[i].id = d[j].id
    <3>1. i \in 1..L /\ CallAt(c, i) /\ d[i] = c[i]
      BY <2>1, <1>2, <1>3
    <3>2. PICK j \in 1..L : OutputAt(c, j) /\ c[i].id = c[j].id
      BY <2>1, <3>1 DEF Answered, L
    <3>. QED
      BY <3>1, <3>2, <1>1, <1>3
  <2>2. ASSUME NEW y \in k+1..m
        PROVE  \E i \in 1..Len(d) : CallAt(d, i) /\ d[i].id = Id("model", y)
    <3>1. PICK i \in 1..L : CallAt(c, i) /\ c[i].id = Id("model", y)
      BY DEF Answered, L
    <3>. QED
      BY <3>1, <1>1, <1>3
  <2>. QED
    BY <2>1, <2>2 DEF Answered
<1>. QED
  BY <1>4, <1>5 DEF d

(* The output of the next call of the model answers that call.             *)
LEMMA OutputKeeps ==
  ASSUME NEW c \in Seq(Items), NEW a \in Nat, NEW k \in Nat, NEW m \in Nat, k < m,
         Ordered(c, a, k, m), Answered(c, k, m)
  PROVE  LET d == Append(c, Output(Id("model", k + 1)))
         IN  Ordered(d, a, k + 1, m) /\ Answered(d, k + 1, m)
<1>. DEFINE x == Output(Id("model", k + 1))
            d == Append(c, x)
            L == Len(c)
<1>0. /\ x \in Items /\ x.type = "function_call_output"
      /\ x.id = Id("model", k + 1) /\ x.id.source = "model" /\ x.id.n = k + 1
  <2>1. k + 1 \in Nat
    OBVIOUS
  <2>2. x \in Items
    BY <2>1, ItemTypes
  <2>3. x.type = "function_call_output" /\ x.id = Id("model", k + 1)
    BY <2>1, Identity
  <2>4. Id("model", k + 1).source = "model" /\ Id("model", k + 1).n = k + 1
    BY <2>1, Identity
  <2>. QED
    BY <2>2, <2>3, <2>4
<1>. HIDE DEF x
<1>1. /\ Len(d) = L + 1 /\ L \in Nat /\ d[L + 1] = x
      /\ \A i \in 1..L : d[i] = c[i]
  BY <1>0, AppendFacts
<1>2. /\ \A i \in 1..Len(d) : CallAt(d, i) => i \in 1..L /\ d[i] = c[i] /\ CallAt(c, i)
      /\ \A i \in 1..Len(d) : OutputAt(d, i) /\ i # L + 1 => i \in 1..L /\ d[i] = c[i] /\ OutputAt(c, i)
      /\ OutputAt(d, L + 1)
  BY <1>0, <1>1 DEF CallAt, OutputAt
<1>3. \A i \in 1..L : i \in 1..Len(d) /\ (CallAt(d, i) <=> CallAt(c, i)) /\ (OutputAt(d, i) <=> OutputAt(c, i))
  BY <1>1 DEF CallAt, OutputAt
<1>4. PICK p \in 1..L : CallAt(c, p) /\ c[p].id = x.id
  <2>1. k + 1 \in k+1..m
    OBVIOUS
  <2>. QED
    BY <2>1, <1>0 DEF Answered
<1>5. \A i \in 1..L : OutputAt(c, i) => c[i].id # x.id
  BY <1>0 DEF Ordered
<1>. HIDE DEF d, L
<1>6. Ordered(d, a, k + 1, m)
  <2>1. \A n \in 1..Len(d) : CallAt(d, n) =>
          \/ d[n].id.source = "auto" /\ d[n].id.n \in 1..a
          \/ d[n].id.source = "model" /\ d[n].id.n \in 1..m
    BY <1>2, <1>3 DEF Ordered, L
  <2>2. \A n \in 1..Len(d) : OutputAt(d, n) =>
          \/ d[n].id.source = "auto" /\ d[n].id.n \in 1..a
          \/ d[n].id.source = "model" /\ d[n].id.n \in 1..k+1
    <3>. SUFFICES ASSUME NEW n \in 1..Len(d), OutputAt(d, n)
                  PROVE \/ d[n].id.source = "auto" /\ d[n].id.n \in 1..a
                        \/ d[n].id.source = "model" /\ d[n].id.n \in 1..k+1
      OBVIOUS
    <3>1. CASE n = L + 1
      <4>1. d[n].id.source = "model" /\ d[n].id.n = k + 1
        BY <3>1, <1>0, <1>1
      <4>. QED
        BY <4>1
    <3>2. CASE n # L + 1
      <4>1. n \in 1..L /\ OutputAt(c, n) /\ d[n] = c[n]
        BY <3>2, <1>2
      <4>2. 1..k \subseteq 1..k+1
        OBVIOUS
      <4>. QED
        BY <4>1, <4>2 DEF Ordered, L
    <3>. QED
      BY <3>1, <3>2
  <2>3. ASSUME NEW i \in 1..Len(d), NEW j \in 1..Len(d), d[i].id = d[j].id
        PROVE  /\ CallAt(d, i) /\ CallAt(d, j) => i = j
               /\ OutputAt(d, i) /\ OutputAt(d, j) => i = j
               /\ CallAt(d, i) /\ OutputAt(d, j) => i < j
    <3>1. CallAt(d, i) /\ CallAt(d, j) => i = j
      BY <2>3, <1>2 DEF Ordered, L
    <3>2. OutputAt(d, i) /\ OutputAt(d, j) => i = j
      BY <2>3, <1>1, <1>2, <1>5 DEF Ordered, L
    <3>3. CallAt(d, i) /\ OutputAt(d, j) => i < j
      <4>1. CASE j = L + 1
        BY <4>1, <1>1, <1>2
      <4>2. CASE j # L + 1
        BY <4>2, <2>3, <1>2 DEF Ordered, L
      <4>. QED
        BY <4>1, <4>2
    <3>. QED
      BY <3>1, <3>2, <3>3
  <2>4. ASSUME NEW j \in 1..Len(d), OutputAt(d, j)
        PROVE  \E i \in 1..Len(d) : CallAt(d, i) /\ d[i].id = d[j].id
    <3>1. CASE j = L + 1
      BY <3>1, <1>1, <1>3, <1>4
    <3>2. CASE j # L + 1
      <4>1. PICK i \in 1..L : CallAt(c, i) /\ c[i].id = c[j].id
        BY <2>4, <3>2, <1>2 DEF Ordered, L
      <4>. QED
        BY <2>4, <3>2, <4>1, <1>1, <1>2, <1>3
    <3>. QED
      BY <3>1, <3>2
  <2>. QED
    BY <2>1, <2>2, <2>3, <2>4 DEF Ordered
<1>7. Answered(d, k + 1, m)
  <2>1. ASSUME NEW i \in 1..Len(d), CallAt(d, i), d[i].id.source = "model" => d[i].id.n <= k + 1
        PROVE  \E j \in 1..Len(d) : OutputAt(d, j) /\ d[i].id = d[j].id
    <3>1. i \in 1..L /\ CallAt(c, i) /\ d[i] = c[i]
      BY <2>1, <1>2
    <3>2. CASE i = p
      BY <3>1, <3>2, <1>1, <1>2, <1>4
    <3>3. CASE i # p
      <4>1. c[i].id # x.id
        BY <3>1, <3>3, <1>4 DEF Ordered, L
      <4>2. c[i].id.source = "model" => c[i].id.n \in Nat /\ c[i].id.n # k + 1
        <5>1. c[i] \in Items
          BY <3>1 DEF L
        <5>2. c[i].id = Id(c[i].id.source, c[i].id.n) /\ c[i].id.n \in Nat
          BY <5>1 DEF Items, Id
        <5>. QED
          BY <5>2, <4>1, <1>0
      <4>3. c[i].id.source = "model" => c[i].id.n <= k
        BY <2>1, <3>1, <4>2
      <4>4. PICK j \in 1..L : OutputAt(c, j) /\ c[i].id = c[j].id
        BY <3>1, <4>3 DEF Answered, L
      <4>. QED
        BY <3>1, <4>4, <1>1, <1>3
    <3>. QED
      BY <3>2, <3>3
  <2>2. ASSUME NEW y \in (k+1)+1..m
        PROVE  \E i \in 1..Len(d) : CallAt(d, i) /\ d[i].id = Id("model", y)
    <3>0. y \in k+1..m
      OBVIOUS
    <3>1. PICK i \in 1..L : CallAt(c, i) /\ c[i].id = Id("model", y)
      BY <3>0 DEF Answered, L
    <3>. QED
      BY <3>1, <1>1, <1>3
  <2>. QED
    BY <2>1, <2>2 DEF Answered
<1>. QED
  BY <1>6, <1>7 DEF d, x

(* Several calls of the model at once.                                     *)
LEMMA CallsKeep ==
  ASSUME NEW c \in Seq(Items), NEW a \in Nat, NEW m \in Nat, NEW n \in Nat,
         Ordered(c, a, m, m), Answered(c, m, m)
  PROVE  LET d == c \o [i \in 1..n |-> Call(Id("model", m + i))]
         IN  Ordered(d, a, m, m + n) /\ Answered(d, m, m + n)
<1>. DEFINE g == [i \in 1..n |-> Call(Id("model", m + i))]
            d == c \o g
            L == Len(c)
<1>0. /\ g \in Seq(Items) /\ Len(g) = n
      /\ \A i \in 1..n : /\ g[i].type = "function_call" /\ g[i].id = Id("model", m + i)
                         /\ g[i].id.source = "model" /\ g[i].id.n = m + i
  <2>1. \A i \in 1..n : m + i \in Nat /\ g[i] = Call(Id("model", m + i))
    OBVIOUS
  <2>2. \A i \in 1..n : g[i] \in Items
    BY <2>1, ItemTypes
  <2>3. g \in Seq(Items) /\ Len(g) = n
    BY <2>2
  <2>. HIDE DEF g
  <2>4. ASSUME NEW i \in 1..n
        PROVE  /\ g[i].type = "function_call" /\ g[i].id = Id("model", m + i)
               /\ g[i].id.source = "model" /\ g[i].id.n = m + i
    <3>1. g[i].type = "function_call" /\ g[i].id = Id("model", m + i)
      BY <2>1, Identity
    <3>2. Id("model", m + i).source = "model" /\ Id("model", m + i).n = m + i
      BY <2>1, Identity
    <3>. QED
      BY <3>1, <3>2
  <2>. QED
    BY <2>3, <2>4
<1>. HIDE DEF g
<1>1. /\ Len(d) = L + n /\ L \in Nat
      /\ \A i \in 1..L : d[i] = c[i]
      /\ \A i \in 1..n : d[L + i] = g[i]
  <2>1. g \in Seq(Items) /\ Len(g) = n
    BY <1>0
  <2>. QED
    BY <2>1
<1>2. \A i \in 1..Len(d) : i \in 1..L \/ (i - L \in 1..n /\ d[i] = g[i - L])
  <2>. SUFFICES ASSUME NEW i \in 1..Len(d), i \notin 1..L
                PROVE  i - L \in 1..n /\ d[i] = g[i - L]
    OBVIOUS
  <2>1. i - L \in 1..n /\ L + (i - L) = i
    BY <1>1
  <2>. QED
    BY <1>1, <2>1
<1>. HIDE DEF d, L
<1>3. \A i \in 1..L : /\ i \in 1..Len(d) /\ d[i] = c[i]
                      /\ (CallAt(d, i) <=> CallAt(c, i)) /\ (OutputAt(d, i) <=> OutputAt(c, i))
  BY <1>1 DEF CallAt, OutputAt
<1>4. \A i \in 1..Len(d) : i \notin 1..L =>
         /\ CallAt(d, i) /\ ~OutputAt(d, i)
         /\ d[i].id.source = "model" /\ d[i].id.n = m + (i - L) /\ i - L \in 1..n
  BY <1>0, <1>2 DEF CallAt, OutputAt
<1>5. Ordered(d, a, m, m + n)
  <2>1. ASSUME NEW i \in 1..Len(d), CallAt(d, i)
        PROVE  \/ d[i].id.source = "auto" /\ d[i].id.n \in 1..a
               \/ d[i].id.source = "model" /\ d[i].id.n \in 1..m+n
    <3>1. CASE i \in 1..L
      BY <3>1, <2>1, <1>3 DEF Ordered, L
    <3>2. CASE i \notin 1..L
      BY <3>2, <1>4
    <3>. QED
      BY <3>1, <3>2
  <2>2. \A i \in 1..Len(d) : OutputAt(d, i) =>
          \/ d[i].id.source = "auto" /\ d[i].id.n \in 1..a
          \/ d[i].id.source = "model" /\ d[i].id.n \in 1..m
    BY <1>3, <1>4 DEF Ordered, L
  <2>3. ASSUME NEW i \in 1..Len(d), NEW j \in 1..Len(d), d[i].id = d[j].id
        PROVE  /\ CallAt(d, i) /\ CallAt(d, j) => i = j
               /\ OutputAt(d, i) /\ OutputAt(d, j) => i = j
               /\ CallAt(d, i) /\ OutputAt(d, j) => i < j
    <3>1. CASE i \in 1..L /\ j \in 1..L
      BY <3>1, <2>3, <1>3 DEF Ordered, L
    <3>2. CASE i \notin 1..L /\ j \notin 1..L
      BY <3>2, <2>3, <1>1, <1>4
    <3>3. CASE i \in 1..L /\ j \notin 1..L
      <4>1. CallAt(d, i) /\ d[i].id.source = "model" => d[i].id.n \in 1..m
        BY <3>3, <1>3 DEF Ordered, L
      <4>. QED
        BY <3>3, <4>1, <2>3, <1>1, <1>4
    <3>4. CASE i \notin 1..L /\ j \in 1..L
      <4>1. (CallAt(d, j) \/ OutputAt(d, j)) /\ d[j].id.source = "model" => d[j].id.n \in 1..m
        BY <3>4, <1>3 DEF Ordered, L
      <4>. QED
        BY <3>4, <4>1, <2>3, <1>1, <1>4
    <3>. QED
      BY <3>1, <3>2, <3>3, <3>4
  <2>4. ASSUME NEW j \in 1..Len(d), OutputAt(d, j)
        PROVE  \E i \in 1..Len(d) : CallAt(d, i) /\ d[i].id = d[j].id
    <3>1. j \in 1..L /\ OutputAt(c, j)
      BY <2>4, <1>3, <1>4
    <3>2. PICK i \in 1..L : CallAt(c, i) /\ c[i].id = c[j].id
      BY <3>1 DEF Ordered, L
    <3>. QED
      BY <3>1, <3>2, <1>3
  <2>. QED
    BY <2>1, <2>2, <2>3, <2>4 DEF Ordered
<1>6. Answered(d, m, m + n)
  <2>1. ASSUME NEW i \in 1..Len(d), CallAt(d, i), d[i].id.source = "model" => d[i].id.n <= m
        PROVE  \E j \in 1..Len(d) : OutputAt(d, j) /\ d[i].id = d[j].id
    <3>1. i \in 1..L
      BY <2>1, <1>4
    <3>2. CallAt(c, i) /\ d[i] = c[i]
      BY <3>1, <2>1, <1>3
    <3>3. PICK j \in 1..L : OutputAt(c, j) /\ c[i].id = c[j].id
      BY <2>1, <3>1, <3>2 DEF Answered, L
    <3>. QED
      BY <3>2, <3>3, <1>3
  <2>2. ASSUME NEW y \in m+1..m+n
        PROVE  \E i \in 1..Len(d) : CallAt(d, i) /\ d[i].id = Id("model", y)
    <3>1. y - m \in 1..n /\ m + (y - m) = y
      OBVIOUS
    <3>2. L + (y - m) \in 1..Len(d) /\ d[L + (y - m)] = g[y - m]
      BY <3>1, <1>1
    <3>. QED
      BY <3>1, <3>2, <1>0 DEF CallAt
  <2>. QED
    BY <2>1, <2>2 DEF Answered
<1>. QED
  BY <1>5, <1>6 DEF d, g

(* A synthetic pair is a call that is answered at once.                    *)
LEMMA PairKeeps ==
  ASSUME NEW c \in Seq(Items), NEW a \in Nat, NEW k \in Nat, NEW m \in Nat,
         Ordered(c, a, k, m), Answered(c, k, m)
  PROVE  LET d == c \o <<Call(Id("auto", a + 1)), Output(Id("auto", a + 1))>>
         IN  Ordered(d, a + 1, k, m) /\ Answered(d, k, m)
<1>. DEFINE id == Id("auto", a + 1)
            x == Call(id)
            y == Output(id)
            d == c \o <<x, y>>
            L == Len(c)
<1>0. /\ x \in Items /\ x.type = "function_call" /\ x.id = id
      /\ y \in Items /\ y.type = "function_call_output" /\ y.id = id
      /\ id.source = "auto" /\ id.n = a + 1
  <2>1. a + 1 \in Nat
    OBVIOUS
  <2>. QED
    BY <2>1, ItemTypes, Identity
<1>. HIDE DEF x, y, id
<1>1. /\ Len(d) = L + 2 /\ L \in Nat /\ d[L + 1] = x /\ d[L + 2] = y
      /\ \A i \in 1..L : d[i] = c[i]
  BY <1>0
<1>2. /\ CallAt(d, L + 1) /\ ~OutputAt(d, L + 1)
      /\ OutputAt(d, L + 2) /\ ~CallAt(d, L + 2)
  BY <1>0, <1>1 DEF CallAt, OutputAt
<1>3. \A i \in 1..L : /\ i \in 1..Len(d) /\ d[i] = c[i]
                      /\ (CallAt(d, i) <=> CallAt(c, i)) /\ (OutputAt(d, i) <=> OutputAt(c, i))
  BY <1>1 DEF CallAt, OutputAt
<1>4. \A i \in 1..Len(d) : i \in 1..L \/ i = L + 1 \/ i = L + 2
  BY <1>1
<1>5. \A i \in 1..L : CallAt(c, i) \/ OutputAt(c, i) => c[i].id # id
  BY <1>0 DEF Ordered
<1>6. 1..a \subseteq 1..a+1 /\ a + 1 \in 1..a+1
  OBVIOUS
<1>. HIDE DEF d, L
<1>7. Ordered(d, a + 1, k, m)
  <2>1. ASSUME NEW n \in 1..Len(d)
        PROVE  /\ CallAt(d, n) =>
                     \/ d[n].id.source = "auto" /\ d[n].id.n \in 1..a+1
                     \/ d[n].id.source = "model" /\ d[n].id.n \in 1..m
               /\ OutputAt(d, n) =>
                     \/ d[n].id.source = "auto" /\ d[n].id.n \in 1..a+1
                     \/ d[n].id.source = "model" /\ d[n].id.n \in 1..k
    <3>1. CASE n \in 1..L
      <4>1. /\ CallAt(c, n) =>
                  \/ c[n].id.source = "auto" /\ c[n].id.n \in 1..a
                  \/ c[n].id.source = "model" /\ c[n].id.n \in 1..m
            /\ OutputAt(c, n) =>
                  \/ c[n].id.source = "auto" /\ c[n].id.n \in 1..a
                  \/ c[n].id.source = "model" /\ c[n].id.n \in 1..k
        BY <3>1 DEF Ordered, L
      <4>2. c[n].id.n \in 1..a => c[n].id.n \in 1..a+1
        OBVIOUS
      <4>. QED
        BY <3>1, <4>1, <4>2, <1>3
    <3>2. CASE n = L + 1 \/ n = L + 2
      <4>1. d[n].id = id
        BY <3>2, <1>0, <1>1
      <4>2. d[n].id.source = "auto" /\ d[n].id.n = a + 1
        BY <4>1, <1>0
      <4>3. d[n].id.n \in 1..a+1
        BY <4>2
      <4>. QED
        BY <4>2, <4>3
    <3>. QED
      BY <3>1, <3>2, <1>4
  <2>3. ASSUME NEW i \in 1..Len(d), NEW j \in 1..Len(d), d[i].id = d[j].id
        PROVE  /\ CallAt(d, i) /\ CallAt(d, j) => i = j
               /\ OutputAt(d, i) /\ OutputAt(d, j) => i = j
               /\ CallAt(d, i) /\ OutputAt(d, j) => i < j
    <3>1. CASE i \in 1..L /\ j \in 1..L
      BY <3>1, <2>3, <1>3 DEF Ordered, L
    <3>2. CASE i \in 1..L /\ j \notin 1..L
      BY <3>2, <2>3, <1>0, <1>1, <1>3, <1>4, <1>5
    <3>3. CASE i \notin 1..L /\ j \in 1..L
      BY <3>3, <2>3, <1>0, <1>1, <1>3, <1>4, <1>5
    <3>4. CASE i \notin 1..L /\ j \notin 1..L
      BY <3>4, <1>1, <1>2, <1>4
    <3>. QED
      BY <3>1, <3>2, <3>3, <3>4
  <2>4. ASSUME NEW j \in 1..Len(d), OutputAt(d, j)
        PROVE  \E i \in 1..Len(d) : CallAt(d, i) /\ d[i].id = d[j].id
    <3>1. CASE j \in 1..L
      <4>1. PICK i \in 1..L : CallAt(c, i) /\ c[i].id = c[j].id
        BY <2>4, <3>1, <1>3 DEF Ordered, L
      <4>. QED
        BY <3>1, <4>1, <1>3
    <3>2. CASE j \notin 1..L
      <4>1. L + 1 \in 1..Len(d) /\ j = L + 2
        BY <2>4, <3>2, <1>1, <1>2, <1>4
      <4>. QED
        BY <4>1, <1>0, <1>1, <1>2
    <3>. QED
      BY <3>1, <3>2
  <2>. QED
    BY <2>1, <2>3, <2>4 DEF Ordered
<1>8. Answered(d, k, m)
  <2>1. ASSUME NEW i \in 1..Len(d), CallAt(d, i), d[i].id.source = "model" => d[i].id.n <= k
        PROVE  \E j \in 1..Len(d) : OutputAt(d, j) /\ d[i].id = d[j].id
    <3>1. CASE i \in 1..L
      <4>1. PICK j \in 1..L : OutputAt(c, j) /\ c[i].id = c[j].id
        BY <2>1, <3>1, <1>3 DEF Answered, L
      <4>. QED
        BY <3>1, <4>1, <1>3
    <3>2. CASE i \notin 1..L
      <4>1. L + 2 \in 1..Len(d) /\ i = L + 1
        BY <2>1, <3>2, <1>1, <1>2, <1>4
      <4>. QED
        BY <4>1, <1>0, <1>1, <1>2
    <3>. QED
      BY <3>1, <3>2
  <2>2. ASSUME NEW z \in k+1..m
        PROVE  \E i \in 1..Len(d) : CallAt(d, i) /\ d[i].id = Id("model", z)
    <3>1. PICK i \in 1..L : CallAt(c, i) /\ c[i].id = Id("model", z)
      BY DEF Answered, L
    <3>. QED
      BY <3>1, <1>3
  <2>. QED
    BY <2>1, <2>2 DEF Answered
<1>. QED
  BY <1>7, <1>8 DEF d, x, y, id

-----------------------------------------------------------------------------
(* The history: every action keeps it.                                     *)
LEMMA HistoryFrame ==
  ASSUME TypeOK, History, pc' \notin Over => pc \notin Over,
         context' = context, autoCalls' = autoCalls, modelCalls' = modelCalls,
         pending' = pending
  PROVE  History'
BY DEF History

LEMMA HistoryPair ==
  ASSUME TypeOK, Control, History, AppendPair, pc \notin Over, pending' = pending
  PROVE  History'
<1>. DEFINE k == modelCalls - pending
<1>1. context \in Seq(Items) /\ autoCalls \in Nat /\ modelCalls \in Nat /\ k \in Nat
  BY RunAssumption DEF TypeOK, Control
<1>2. Ordered(context, autoCalls, k, modelCalls) /\ Answered(context, k, modelCalls)
  BY DEF History
<1>3. /\ context' = context \o <<Call(Id("auto", autoCalls + 1)), Output(Id("auto", autoCalls + 1))>>
      /\ autoCalls' = autoCalls + 1 /\ modelCalls' = modelCalls /\ k' = k
  BY DEF AppendPair
<1>. HIDE DEF k
<1>4. Ordered(context', autoCalls', k, modelCalls) /\ Answered(context', k, modelCalls)
  BY <1>1, <1>2, <1>3, PairKeeps
<1>. QED
  BY <1>3, <1>4 DEF History, k

LEMMA HistoryOutput ==
  ASSUME TypeOK, Control, History, pc \in {"batch", "tree", "upload"},
         context' = Append(context, Output(Id("model", modelCalls - pending + 1))),
         autoCalls' = autoCalls, modelCalls' = modelCalls
  PROVE  /\ Ordered(context', autoCalls, modelCalls - pending + 1, modelCalls)
         /\ Answered(context', modelCalls - pending + 1, modelCalls)
<1>. DEFINE k == modelCalls - pending
<1>1. context \in Seq(Items) /\ autoCalls \in Nat /\ modelCalls \in Nat
      /\ k \in Nat /\ k < modelCalls
  BY RunAssumption DEF TypeOK, Control
<1>2. Ordered(context, autoCalls, k, modelCalls) /\ Answered(context, k, modelCalls)
  BY DEF History, Over
<1>. HIDE DEF k
<1>3. Ordered(Append(context, Output(Id("model", k + 1))), autoCalls, k + 1, modelCalls)
      /\ Answered(Append(context, Output(Id("model", k + 1))), k + 1, modelCalls)
  BY <1>1, <1>2, OutputKeeps
<1>. QED
  BY <1>3 DEF k

LEMMA HistoryEndCall ==
  ASSUME TypeOK, Control, History, EndCall, pc = "batch" \/ pc = "tree"
  PROVE  History'
<1>1. Ordered(context', autoCalls, modelCalls - pending + 1, modelCalls)
      /\ Answered(context', modelCalls - pending + 1, modelCalls)
  BY HistoryOutput DEF EndCall
<1>2. (modelCalls - pending)' = modelCalls - pending + 1
      /\ autoCalls' = autoCalls /\ modelCalls' = modelCalls
  BY RunAssumption DEF EndCall, TypeOK
<1>. QED
  BY <1>1, <1>2 DEF History

(* A completion drops the calls after it: they count as run.               *)
LEMMA HistoryCompletion ==
  ASSUME TypeOK, Control, History, Completion
  PROVE  History'
<1>. DEFINE k == modelCalls - pending + 1
<1>1. Ordered(context', autoCalls, k, modelCalls)
  BY HistoryOutput DEF Completion
<1>2. k \in Nat /\ k <= modelCalls /\ modelCalls \in Nat
  BY RunAssumption DEF TypeOK, Control, Completion
<1>3. pending' = 0 /\ autoCalls' = autoCalls /\ modelCalls' = modelCalls
      /\ pc' \in {"returned", "reread"}
  BY DEF Completion
<1>4. (modelCalls - pending)' = modelCalls
  BY <1>2, <1>3
<1>. HIDE DEF k
<1>5. 1..k \subseteq 1..modelCalls
  BY <1>2
<1>6. Ordered(context', autoCalls, modelCalls, modelCalls)
  BY <1>1, <1>5 DEF Ordered
<1>. QED
  BY <1>3, <1>4, <1>6 DEF History, Over

LEMMA HistoryBeginLoop ==
  ASSUME TypeOK, Control, History, BeginLoop
  PROVE  History'
<1>. DEFINE k == modelCalls - pending
<1>1. context \in Seq(Items) /\ autoCalls \in Nat /\ modelCalls \in Nat /\ k \in Nat
  BY RunAssumption DEF TypeOK, Control
<1>2. Ordered(context, autoCalls, k, modelCalls) /\ Answered(context, k, modelCalls)
  BY DEF History, BeginLoop, Over
<1>3. context' = Append(context, User) /\ autoCalls' = autoCalls
      /\ modelCalls' = modelCalls /\ k' = k
  BY DEF BeginLoop
<1>. HIDE DEF k
<1>4. Ordered(context', autoCalls, k, modelCalls) /\ Answered(context', k, modelCalls)
  BY <1>1, <1>2, <1>3, MessageKeeps, ItemTypes, Identity
<1>. QED
  BY <1>3, <1>4 DEF History, k

LEMMA HistoryAsk ==
  ASSUME TypeOK, Control, History, Ask
  PROVE  History'
<1>0. PICK n \in 0..MaxCalls :
        /\ IF n = 0
           THEN pc' = pc /\ context' = context \o <<Text, User>>
           ELSE /\ pc' = "batch"
                /\ context' = context \o [i \in 1..n |-> Call(Id("model", modelCalls + i))]
        /\ modelCalls' = modelCalls + n
        /\ pending' = n
  BY DEF Ask
<1>1. /\ context \in Seq(Items) /\ autoCalls \in Nat /\ modelCalls \in Nat
      /\ n \in Nat /\ pending = 0 /\ modelCalls - pending = modelCalls
      /\ autoCalls' = autoCalls /\ pc = "ask"
  BY RunAssumption DEF TypeOK, Control, Ask
<1>2. Ordered(context, autoCalls, modelCalls, modelCalls) /\ Answered(context, modelCalls, modelCalls)
  BY <1>1 DEF History, Over
<1>3. (modelCalls - pending)' = modelCalls
  BY <1>0, <1>1
<1>4. Ordered(context', autoCalls, modelCalls, modelCalls + n)
      /\ Answered(context', modelCalls, modelCalls + n)
  <2>1. CASE n = 0
    <3>1. context' = Append(Append(context, Text), User) /\ Append(context, Text) \in Seq(Items)
      BY <2>1, <1>0, <1>1, ItemTypes
    <3>2. Ordered(Append(context, Text), autoCalls, modelCalls, modelCalls)
          /\ Answered(Append(context, Text), modelCalls, modelCalls)
      BY <1>1, <1>2, MessageKeeps, ItemTypes, Identity
    <3>3. Ordered(context', autoCalls, modelCalls, modelCalls)
          /\ Answered(context', modelCalls, modelCalls)
      BY <1>1, <3>1, <3>2, MessageKeeps, ItemTypes, Identity
    <3>. QED
      BY <2>1, <3>3, <1>1
  <2>2. CASE n # 0
    <3>1. context' = context \o [i \in 1..n |-> Call(Id("model", modelCalls + i))]
      BY <2>2, <1>0
    <3>. QED
      BY <3>1, <1>1, <1>2, CallsKeep
  <2>. QED
    BY <2>1, <2>2
<1>. QED
  BY <1>0, <1>1, <1>3, <1>4 DEF History

LEMMA HistoryStep ==
  ASSUME TypeOK, Control, History, [Next]_vars
  PROVE  History'
<1>. USE DEF Over, startupVars, docVars, contextVars, answerVars
<1>1. CASE ClassifierReturns
  BY <1>1, HistoryFrame DEF ClassifierReturns
<1>2. CASE StartupCall
  BY <1>2, HistoryPair DEF StartupCall, Startup
<1>3. CASE StartupError
  BY <1>3, HistoryPair DEF StartupError, Startup
<1>4. CASE StartupFollowup
  BY <1>4, HistoryPair DEF StartupFollowup
<1>5. CASE AwaitClassifier
  BY <1>5, HistoryFrame DEF AwaitClassifier
<1>6. ASSUME NEW i \in DOMAIN Preflights, PreflightPasses(Preflights[i])
      PROVE  History'
  BY <1>6, HistoryFrame DEF PreflightPasses, Preflight
<1>7. ASSUME NEW i \in DOMAIN Preflights, PreflightCloses(Preflights[i])
      PROVE  History'
  BY <1>7, HistoryFrame DEF PreflightCloses, Preflight
<1>8. ASSUME NEW i \in DOMAIN Preflights, PreflightRaises(Preflights[i])
      PROVE  History'
  BY <1>8, HistoryFrame DEF PreflightRaises, Preflight
<1>9. CASE SelectBasket
  BY <1>9, HistoryPair DEF SelectBasket, Preflight
<1>10. CASE FinalizePreflight
  BY <1>10, HistoryFrame DEF FinalizePreflight
<1>11. CASE BeginLoop
  BY <1>11, HistoryBeginLoop
<1>12. CASE Ask
  BY <1>12, HistoryAsk
<1>13. CASE AskRaises
  BY <1>13, HistoryFrame DEF AskRaises
<1>14. CASE PlainCall
  BY <1>14, HistoryEndCall DEF PlainCall
<1>15. CASE ReadCall
  BY <1>15, HistoryEndCall DEF ReadCall
<1>16. CASE HelpCall
  BY <1>16, HistoryEndCall DEF HelpCall
<1>17. CASE TreeCall
  BY <1>17, HistoryFrame DEF TreeCall, FollowTree
<1>18. CASE TreeFollowup
  BY <1>18, HistoryFrame DEF TreeFollowup, Follow
<1>19. CASE TreeDone
  BY <1>19, HistoryEndCall DEF TreeDone
<1>20. ASSUME NEW way \in {"raw", "exec"}, ChangingCall(way)
      PROVE  History'
  BY <1>20, HistoryEndCall DEF ChangingCall
<1>21. CASE CallRaises
  BY <1>21, HistoryFrame DEF CallRaises
<1>22. CASE Completion
  BY <1>22, HistoryCompletion
<1>23. CASE Fallback
  BY <1>23, HistoryFrame DEF Fallback
<1>24. CASE UNCHANGED vars
  BY <1>24, HistoryFrame DEF vars
<1>25. CASE ReadUpload
  BY <1>25, HistoryFrame DEF ReadUpload
<1>26. CASE RereadUpload
  BY <1>26, HistoryFrame DEF RereadUpload
<1>. QED
  BY Actions, <1>1, <1>2, <1>3, <1>4, <1>5, <1>6, <1>7, <1>8, <1>9, <1>10, <1>11, <1>12,
     <1>13, <1>14, <1>15, <1>16, <1>17, <1>18, <1>19, <1>20, <1>21, <1>22, <1>23, <1>24, <1>25, <1>26

-----------------------------------------------------------------------------
(* The theorems.                                                           *)
Inv == TypeOK /\ Control /\ Guarded /\ Reading /\ History

LEMMA InitInv ==
  ASSUME Init
  PROVE  Inv
<1>1. Guarded /\ Reading
  BY DEF Init, Guarded, Reading, EmptyClassification
<1>2. History
  <2>1. Len(context) = 0 /\ modelCalls - pending = 0 /\ modelCalls = 0 /\ autoCalls = 0
    BY DEF Init
  <2>. QED
    BY <2>1 DEF History, Ordered, Answered
<1>. QED
  BY <1>1, <1>2, InitBase DEF Inv

LEMMA InvHolds == Spec => []Inv
<1>1. Inv /\ [Next]_vars => Inv'
  BY BaseStep, GuardedStep, ReadingStep, HistoryStep DEF Inv
<1>. QED
  BY InitInv, <1>1, PTL DEF Spec

(* The trial keeps its types for any tasks, documents and budgets.         *)
THEOREM TypeCorrect == Spec => []TypeOK
<1>1. Inv => TypeOK
  BY DEF Inv
<1>. QED
  BY InvHolds, <1>1, PTL

(* However the startup, the preflights and the responses of the model add  *)
(* to it, the history sent to the model pairs calls and outputs.           *)
THEOREM HistoryIsPaired == Spec => []ContextWellFormed
<1>1. Inv => ContextWellFormed
  <2>. SUFFICES ASSUME Inv PROVE ContextWellFormed
    OBVIOUS
  <2>1. DOMAIN context = 1..Len(context)
    BY DEF Inv, TypeOK
  <2>2. Ordered(context, autoCalls, modelCalls - pending, modelCalls)
    BY DEF Inv, History
  <2>3. pc = "ask" => Answered(context, modelCalls, modelCalls) /\ modelCalls \in Nat
    BY DEF Inv, History, Control, Over, TypeOK
  <2>4. /\ \A m, n \in DOMAIN context :
             /\ SameId(m, n) /\ IsCall(m) /\ IsCall(n) => m = n
             /\ SameId(m, n) /\ IsOutput(m) /\ IsOutput(n) => m = n
             /\ SameId(m, n) /\ IsCall(m) /\ IsOutput(n) => m < n
        /\ \A n \in DOMAIN context : IsOutput(n) =>
             \E m \in DOMAIN context : IsCall(m) /\ SameId(m, n)
    BY <2>1, <2>2 DEF Ordered, CallAt, OutputAt, SameId, IsCall, IsOutput
  <2>5. ASSUME pc = "ask", NEW m \in DOMAIN context, IsCall(m)
        PROVE  \E n \in DOMAIN context : IsOutput(n) /\ SameId(m, n)
    <3>1. context[m].id.source = "model" => context[m].id.n <= modelCalls
      BY <2>1, <2>2, <2>3, <2>5 DEF Ordered, CallAt, IsCall
    <3>. QED
      BY <2>1, <2>3, <2>5, <3>1 DEF Answered, CallAt, OutputAt, SameId, IsCall, IsOutput
  <2>. QED
    BY <2>4, <2>5 DEF ContextWellFormed
<1>. QED
  BY InvHolds, <1>1, PTL

(* At most one answer is submitted, and none is missing from a result.     *)
THEOREM OneAnswer == Spec => []AnsweredOnce
<1>1. Inv => AnsweredOnce
  BY DEF Inv, AnsweredOnce, Control, TypeOK
<1>. QED
  BY InvHolds, <1>1, PTL

(* An override attempt is denied before anything is changed or asked.      *)
THEOREM OverrideDenied == Spec => []OverrideChangesNothing
<1>1. Inv => OverrideChangesNothing
  BY DEF Inv, OverrideChangesNothing, Guarded
<1>. QED
  BY InvHolds, <1>1, PTL

(* Every document read is a candidate for the citations of a completion.   *)
THEOREM ReadIsLoaded == Spec => []ReadDocsAreLoaded
<1>1. Inv => ReadDocsAreLoaded
  BY DEF Inv, ReadDocsAreLoaded, Reading
<1>. QED
  BY InvHolds, <1>1, PTL

(* The answer is the last thing a trial does.                              *)
LEMMA AfterAnswer ==
  ASSUME TypeOK, Control, [Next]_vars, dispatched > 0
  PROVE  /\ UNCHANGED <<step, touched, context>>
         /\ UNCHANGED dispatched
<1>1. pc \in Over
  BY DEF Control, TypeOK
<1>. QED
  BY <1>1, Actions DEF vars, Over, startupVars, docVars, contextVars, answerVars,
     ClassifierReturns, StartupCall, StartupError, Startup, StartupFollowup, AwaitClassifier,
     PreflightPasses, PreflightCloses, PreflightRaises, Preflight, SelectBasket,
     FinalizePreflight, BeginLoop, Ask, AskRaises, PlainCall, ReadCall, HelpCall,
     TreeCall, TreeFollowup, TreeDone, ChangingCall, CallRaises, Completion, Fallback,
     ReadUpload, RereadUpload

THEOREM AnswerIsLast == Spec => NothingAfterAnswer
<1>1. Inv /\ [Next]_vars => [dispatched > 0 => UNCHANGED <<step, touched, context>>]_vars
  BY AfterAnswer DEF Inv
<1>. QED
  BY InvHolds, <1>1, PTL DEF Spec, NothingAfterAnswer

(* For the loop over the tasks a trial is the protocol of TrialOutcome.    *)
LEMMA OutcomeStep ==
  ASSUME Inv, [Next]_vars
  PROVE  [Outcome!Next]_(Outcome!vars)
<1>. DEFINE phase == IF pc \in {"returned", "raised"} THEN pc ELSE "working"
<1>. USE DEF Outcome!Next, Outcome!vars, Outcome!Change, Outcome!Answer, Outcome!Return,
             Outcome!Abort, Over, startupVars, docVars, contextVars, answerVars
<1>0. TypeOK /\ Control /\ TypeOK' /\ Control'
  BY BaseStep DEF Inv
<1>1. pc \notin Over => dispatched = 0 /\ result.completed = FALSE
  BY <1>0 DEF Control, TypeOK, Results
<1>2. ASSUME UNCHANGED <<dispatched, result>>, pc \notin Over,
             pc' \notin Over \/ pc' = "raised",
             touched' \in SUBSET {"cleanup", "raw", "exec"}, touched \subseteq touched'
      PROVE  Outcome!Next
  BY <1>2
<1>3. ASSUME UNCHANGED touched, pc \notin Over, pc' \in Over,
             \E ok \in BOOLEAN : Submit(ok),
             result'.completed \in BOOLEAN, pc' # "returned" => ~result'.completed
      PROVE  Outcome!Next
  <2>1. dispatched' = dispatched + 1
    BY <1>3 DEF Submit
  <2>2. pc' # "returned" => result'.completed = FALSE
    BY <1>3
  <2>. QED
    BY <1>3, <2>1, <2>2
<1>4. touched' \in SUBSET {"cleanup", "raw", "exec"} /\ touched \in SUBSET {"cleanup", "raw", "exec"}
  BY <1>0 DEF TypeOK
<1>5. CASE ClassifierReturns
  BY <1>5 DEF ClassifierReturns
<1>6. CASE StartupCall \/ StartupError \/ StartupFollowup \/ AwaitClassifier
  BY <1>6, <1>2, <1>4 DEF StartupCall, StartupError, Startup, StartupFollowup, AwaitClassifier
<1>7. ASSUME NEW i \in DOMAIN Preflights,
             \/ PreflightPasses(Preflights[i]) \/ PreflightCloses(Preflights[i])
             \/ PreflightRaises(Preflights[i])
      PROVE  Outcome!Next
  BY <1>7, <1>2, <1>4 DEF PreflightPasses, PreflightCloses, PreflightRaises, Preflight
<1>8. CASE SelectBasket \/ BeginLoop
  BY <1>8, <1>2, <1>4 DEF SelectBasket, Preflight, BeginLoop
<1>9. CASE FinalizePreflight
  <2>1. /\ UNCHANGED touched /\ pc \notin Over /\ pc' \in Over
        /\ \E ok \in BOOLEAN : Submit(ok)
    BY <1>9 DEF FinalizePreflight
  <2>2. result'.completed \in BOOLEAN /\ (pc' # "returned" => ~result'.completed)
    BY <1>0, <1>9 DEF TypeOK, Control, Results
  <2>. QED
    BY <2>1, <2>2, <1>3
<1>10. CASE Completion \/ Fallback
  <2>1. /\ UNCHANGED touched /\ pc \notin Over /\ pc' \in Over
        /\ \E ok \in BOOLEAN : Submit(ok)
    BY <1>10 DEF Completion, Fallback
  <2>2. result'.completed \in BOOLEAN /\ (pc' # "returned" => ~result'.completed)
    BY <1>0, <1>10 DEF TypeOK, Control, Results
  <2>. QED
    BY <2>1, <2>2, <1>3
<1>11. CASE Ask \/ AskRaises \/ CallRaises \/ TreeCall \/ TreeFollowup
  BY <1>11, <1>2, <1>4 DEF Ask, AskRaises, CallRaises, TreeCall, TreeFollowup
<1>12. CASE PlainCall \/ ReadCall \/ HelpCall \/ TreeDone
  BY <1>12, <1>2, <1>4 DEF PlainCall, ReadCall, HelpCall, TreeDone, EndCall
<1>13. ASSUME NEW way \in {"raw", "exec"}, ChangingCall(way)
       PROVE  Outcome!Next
  BY <1>13, <1>2, <1>4 DEF ChangingCall, EndCall
<1>14. CASE UNCHANGED vars
  BY <1>14 DEF vars
<1>15. CASE ReadUpload
  BY <1>15, <1>2, <1>4 DEF ReadUpload
<1>16. CASE RereadUpload
  BY <1>16 DEF RereadUpload
<1>. QED
  BY Actions, <1>5, <1>6, <1>7, <1>8, <1>9, <1>10, <1>11, <1>12, <1>13, <1>14, <1>15, <1>16

THEOREM Refinement == Spec => ImplementsOutcome
<1>1. Init => Outcome!Init
  BY DEF Init, Outcome!Init
<1>2. Inv /\ [Next]_vars => [Outcome!Next]_(Outcome!vars)
  BY OutcomeStep
<1>. QED
  BY InvHolds, <1>1, <1>2, PTL DEF Spec, ImplementsOutcome, Outcome!Spec
=============================================================================
