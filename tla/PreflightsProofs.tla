--------------------------- MODULE PreflightsProofs ---------------------------
(* What the preflights may close a trial with, whatever the cases and whichever *)
(* calls fail: the cleanup of tmp_cleanup.py deletes exactly what it is asked    *)
(* to, and the others cite, ask, count and choose what the records justify.  The *)
(* second part is about the planner that answers the dispatch tasks in their     *)
(* place: for any files its search finds every route and the best assignment.    *)
EXTENDS Cascade, ListProofs, FiniteSetTheorems, TLAPS

\* The preflights up to and including the cleanup.
Before == {"override", "contact", "foreign", "discount", "amount", "rejected", "cleanup"}
After == {"count", "ambiguous", "selector", "model"}

Gone == case.files \ files

\* Nothing is deleted before the cleanup.
Untouched == pc \in Before => files = case.files /\ listed = {}

\* While it deletes, what is gone and what is still to be deleted make up what
\* was wanted, and only an attempt that was not seen to succeed is not listed.
Halfway ==
    pc = "deleting" =>
        /\ targets \subseteq Wanted(case.files)
        /\ Gone = Wanted(case.files) \ targets
        /\ listed \subseteq Gone
        /\ ~ missed => listed = Gone

\* Only an answer ends the preflights, and only the cleanup answers with it.
Ended == answer.kind = "cleanup" => pc = "answered"

IInv == Untouched /\ Halfway /\ Ended /\ CleanupIsExact

\* What every other preflight does: it passes or it gives an answer of its own.
Elsewhere ==
    /\ UNCHANGED <<case, files, targets, listed>>
    /\ \/ pc' = Following(pc) /\ UNCHANGED answer
       \/ pc' = "answered" /\ answer'.kind # "cleanup"

-------------------------------------------------------------------------------
\* The order in which the preflights are tried.
LEMMA FollowingIs ==
    /\ Following("override") = "contact" /\ Following("contact") = "foreign"
    /\ Following("foreign") = "discount" /\ Following("discount") = "amount"
    /\ Following("amount") = "rejected" /\ Following("rejected") = "cleanup"
    /\ Following("cleanup") = "count" /\ Following("count") = "ambiguous"
    /\ Following("ambiguous") = "selector" /\ Following("selector") = "model"
<1> DEFINE At(stage) == CHOOSE i \in DOMAIN Stages : Stages[i] = stage
<1>1. DOMAIN Stages = 1 .. 10
  BY DEF Stages
<1>2. \A i \in 1 .. 10 : At(Stages[i]) = i
  <2> SUFFICES ASSUME NEW i \in 1 .. 10 PROVE At(Stages[i]) = i
    OBVIOUS
  <2>1. \A j \in 1 .. 10 : Stages[j] = Stages[i] => j = i
    BY DEF Stages
  <2> QED BY <1>1, <2>1
<1>3. /\ Stages[1] = "override" /\ Stages[2] = "contact" /\ Stages[3] = "foreign"
      /\ Stages[4] = "discount" /\ Stages[5] = "amount" /\ Stages[6] = "rejected"
      /\ Stages[7] = "cleanup" /\ Stages[8] = "count" /\ Stages[9] = "ambiguous"
      /\ Stages[10] = "selector"
  BY DEF Stages
<1>4. /\ At("override") = 1 /\ At("contact") = 2 /\ At("foreign") = 3
      /\ At("discount") = 4 /\ At("amount") = 5 /\ At("rejected") = 6
      /\ At("cleanup") = 7 /\ At("count") = 8 /\ At("ambiguous") = 9
  BY <1>2, <1>3
<1>5. \A stage : stage # "selector" => Following(stage) = Stages[1 + At(stage)]
  BY DEF Following
<1> HIDE DEF At
<1> QED BY <1>3, <1>4, <1>5 DEF Following

\* From the cleanup on it leads only to later ones.
LEMMA FollowingOrder ==
    /\ \A stage \in Before \ {"cleanup"} : Following(stage) \in Before
    /\ \A stage \in {"cleanup", "count", "ambiguous", "selector"} : Following(stage) \in After
  BY FollowingIs DEF Before, After

\* An action that is not of the cleanup leaves the invariant.
LEMMA ElsewhereKeeps ==
    ASSUME IInv, Elsewhere, pc \in (Before \ {"cleanup"}) \cup {"count", "ambiguous", "selector"}
    PROVE  IInv'
<1>1. pc' \in Before => pc \in Before
  BY FollowingOrder DEF Elsewhere, Before, After
<1>2. pc' # "deleting"
  BY FollowingOrder DEF Elsewhere, Before, After
<1>3. Untouched'
  BY <1>1 DEF IInv, Untouched, Elsewhere
<1>4. Halfway'
  BY <1>2 DEF Halfway
<1>5. answer'.kind = "cleanup" => FALSE
  BY DEF IInv, Ended, Elsewhere, Before
<1>6. Ended' /\ CleanupIsExact'
  BY <1>5 DEF Ended, IInv, CleanupIsExact, Elsewhere, Wanted, Under, task
<1> QED BY <1>3, <1>4, <1>6 DEF IInv

\* The preflights other than the cleanup answer for themselves or pass.
LEMMA OthersElsewhere ==
    ASSUME Override \/ Contact \/ Foreign \/ Discount \/ Amount \/ Rejected
             \/ Count \/ Ambiguous \/ Selector
    PROVE  Elsewhere /\ pc \in (Before \ {"cleanup"}) \cup {"count", "ambiguous", "selector"}
<1>1. CASE Override
  BY <1>1 DEF Override, Elsewhere, Before, Close, Pass, Protected, NoAnswer, cleanup
<1>2. CASE Contact
  BY <1>2 DEF Contact, Elsewhere, Before, Close, Pass, Answer, NoAnswer, cleanup
<1>3. CASE Foreign
  BY <1>3 DEF Foreign, Elsewhere, Before, Close, Pass, Protected, NoAnswer, cleanup
<1>4. CASE Discount
  BY <1>4 DEF Discount, Elsewhere, Before, Close, Pass, Answer, NoAnswer, cleanup
<1>5. CASE Amount
  BY <1>5 DEF Amount, Elsewhere, Before, Close, Pass, Answer, NoAnswer, cleanup
<1>6. CASE Rejected
  BY <1>6 DEF Rejected, Elsewhere, Before, Close, Pass, Answer, NoAnswer, cleanup
<1>7. CASE Count
  BY <1>7 DEF Count, Elsewhere, Before, Close, Pass, Answer, NoAnswer, cleanup
<1>8. CASE Ambiguous
  BY <1>8 DEF Ambiguous, Elsewhere, Before, Close, Pass, Answer, NoAnswer, cleanup
<1>9. CASE Selector
  BY <1>9 DEF Selector, Elsewhere, Before, Pass, cleanup
<1> QED BY <1>1, <1>2, <1>3, <1>4, <1>5, <1>6, <1>7, <1>8, <1>9

\* The cleanup starts with nothing gone and all that is wanted still to delete,
\* or leaves the task to the next preflight.
LEMMA InspectKeeps ==
    ASSUME IInv, Inspect
    PROVE  IInv'
<1>1. case' = case /\ files' = files /\ listed' = listed /\ answer' = answer
  BY DEF Inspect, Pass
<1>2. files = case.files /\ listed = {} /\ answer.kind # "cleanup"
  BY DEF IInv, Untouched, Ended, Inspect, Before
<1>3. Untouched'
  BY <1>1, <1>2 DEF Untouched
<1>4. pc' = "deleting" => targets' = Wanted(files)
  BY FollowingOrder DEF Inspect, Pass, After
<1>5. Halfway'
  BY <1>1, <1>2, <1>4 DEF Halfway, Gone, Wanted, Under, task
<1>6. Ended' /\ CleanupIsExact'
  BY <1>1, <1>2 DEF Ended, CleanupIsExact
<1> QED BY <1>3, <1>5, <1>6 DEF IInv

\* A deletion takes its file out of both, whatever was seen of it, unless it
\* fails, which ends the cleanup without an answer.
LEMMA DeleteKeeps ==
    ASSUME IInv, Delete
    PROVE  IInv'
<1>1. PICK f \in targets, deletion \in Deletions :
          /\ targets' = targets \ {f}
          /\ files' = IF deletion.gone THEN files \ {f} ELSE files
          /\ listed' = IF deletion.reply = "ok" THEN listed \cup {f} ELSE listed
          /\ missed' = (missed \/ deletion.reply # "ok")
          /\ pc' = AfterDelete(deletion.reply)
  BY DEF Delete
<1>2. /\ pc = "deleting" /\ case' = case /\ answer' = answer /\ answer.kind # "cleanup"
      /\ pc' \in {"raised", "deleting"} /\ (pc' = "deleting" => deletion.reply # "error")
  BY <1>1 DEF Delete, AfterDelete, IInv, Ended
<1>3. /\ targets \subseteq Wanted(case.files) /\ Gone = Wanted(case.files) \ targets
      /\ listed \subseteq Gone /\ (~ missed => listed = Gone)
  BY <1>2 DEF IInv, Halfway
<1>4. Wanted(case.files) \subseteq case.files /\ Wanted(case.files)' = Wanted(case.files)
  BY <1>2 DEF Wanted, Under, task
<1>5. deletion.reply # "error" => deletion.gone
  BY DEF Deletions
<1>6. Gone' = IF deletion.gone THEN Gone \cup {f} ELSE Gone
  BY <1>1, <1>2, <1>3, <1>4 DEF Gone
<1>7. Untouched'
  BY <1>2 DEF Untouched, Before
<1>8. Halfway'
  <2>1. CASE deletion.reply = "error"
    BY <1>2, <2>1 DEF Halfway
  <2>2. CASE deletion.reply # "error"
    <3>1. Gone' = Gone \cup {f} /\ targets' = targets \ {f}
      BY <1>1, <1>5, <1>6, <2>2
    <3>2. targets' \subseteq Wanted(case.files) /\ Gone' = Wanted(case.files) \ targets'
      BY <1>3, <3>1
    <3>3. listed' \subseteq Gone' /\ (~ missed' => listed' = Gone')
      BY <1>1, <1>3, <3>1
    <3> QED BY <1>2, <1>4, <3>2, <3>3 DEF Halfway
  <2> QED BY <2>1, <2>2
<1>9. Ended'
  BY <1>2 DEF Ended
<1>10. CleanupIsExact'
  BY <1>1, <1>2, <1>3, <1>4, <1>6 DEF CleanupIsExact, Gone
<1> QED BY <1>7, <1>8, <1>9, <1>10 DEF IInv

\* The cleanup answers when nothing is left to delete.
LEMMA ReportKeeps ==
    ASSUME IInv, ReportDeleted
    PROVE  IInv'
<1>1. /\ pc = "deleting" /\ targets = {} /\ pc' = "answered"
      /\ UNCHANGED <<case, missed, files, targets, listed>>
  BY DEF ReportDeleted, Close, cleanup
<1>2. /\ Gone = Wanted(case.files) /\ listed \subseteq Gone /\ (~ missed => listed = Gone)
  BY <1>1 DEF IInv, Halfway
<1>3. Wanted(case.files)' = Wanted(case.files)
  BY <1>1 DEF Wanted, Under, task
<1>4. CleanupIsExact'
  BY <1>1, <1>2, <1>3 DEF CleanupIsExact, Gone
<1> QED BY <1>1, <1>4 DEF IInv, Untouched, Halfway, Ended, Before

\* Only wanted files are ever deleted, and a cleanup that answers has deleted
\* them all and lists them, except after an attempt that took effect unseen
\* (tmp_cleanup.py:44-67), for any case.
THEOREM CleanupExact == Spec => []CleanupIsExact
<1>1. Init => IInv
  BY DEF Init, IInv, Untouched, Halfway, Ended, CleanupIsExact, NoAnswer
<1>2. IInv /\ [Next]_vars => IInv'
  <2> SUFFICES ASSUME IInv, [Next]_vars PROVE IInv'
    OBVIOUS
  <2>1. CASE Override \/ Contact \/ Foreign \/ Discount \/ Amount \/ Rejected
               \/ Count \/ Ambiguous \/ Selector
    BY <2>1, OthersElsewhere, ElsewhereKeeps
  <2>2. CASE Inspect
    BY <2>2, InspectKeeps
  <2>3. CASE Delete
    BY <2>3, DeleteKeeps
  <2>4. CASE ReportDeleted
    BY <2>4, ReportKeeps
  <2>5. CASE UNCHANGED vars
    BY <2>5 DEF vars, IInv, Untouched, Halfway, Ended, CleanupIsExact, Gone, Wanted, Under, task
  <2> QED BY <2>1, <2>2, <2>3, <2>4, <2>5 DEF Next
<1>3. IInv => CleanupIsExact
  BY DEF IInv
<1> QED BY <1>1, <1>2, <1>3, PTL DEF Spec

-------------------------------------------------------------------------------
(* What the other preflights cite, ask and choose.                              *)

Mine(kind) == {r \in Kind(kind) : r.owner = who.user}

\* The parts of DecisionsFitRecords that an answer bears, of any answer.
RealChoice(a) ==
    a.kind \in Questions =>
        \E r, s \in case.records :
            /\ {r.id, s.id} \subseteq a.refs /\ r # s /\ r.kind = s.kind
            /\ IF a.kind = "checkout" THEN r.active /\ s.active ELSE r.amount = s.amount

InRole == {e \in Kind("employee") : task.role \in e.roles /\ task.store \in {"none", e.store}}

FullCount(a, failed) ==
    a.kind = "count" =>
        /\ Cardinality(a.refs \cap Ids(InRole)) = a.count
        /\ ~ failed => Ids(InRole) \subseteq a.refs

\* An answer may cite the records of the one who asks, and no profiles if it
\* refuses and no call failed.
MayClose(a, failed) ==
    /\ a.kind \in Refusals \cup Questions \cup {"cleanup", "count"}
    /\ a.refs \subseteq Ids(case.records)
    /\ a.protected => a.kind \in {"override", "foreign"} /\ a.refs = {}
    /\ \A r \in case.records : r.kind \in Owned /\ r.id \in a.refs => r.owner = who.user
    /\ a.kind \in Refusals /\ ~ failed /\ (who.user = "none" => who.roles = {"guest"}) =>
          a.refs \cap Ids(Kind("employee")) = {}
    /\ RealChoice(a)
    /\ FullCount(a, failed)

\* A preflight that was passed had no choice to ask about, if no call failed.
PastAmount == {"rejected", "cleanup", "deleting", "count", "ambiguous", "selector", "model"}
Settled ==
    ~ missed =>
        /\ pc \in PastAmount /\ AmountOnly /\ RefundCustomer(who) =>
              Cardinality(OfAmount(Mine("payment"), task.amount)) <= 1
        /\ pc \in {"selector", "model"} /\ CheckoutWith({"none"}) /\ IsCustomer(who) =>
              Cardinality(Active(Mine("basket"))) <= 1
        /\ pc = "model" /\ CheckoutWith({"newest", "oldest"}) /\ IsCustomer(who)
              /\ Active(Mine("basket")) # {} =>
              chosen = Extreme(Active(Mine("basket"))).id

DInv == TypeOK /\ OnlyOwnRecords /\ ProfilesStayInside /\ RealChoice(answer)
          /\ FullCount(answer, missed) /\ Settled

-------------------------------------------------------------------------------
\* The records of the runtime.
LEMMA RecordsAre ==
    ASSUME case \in Cases
    PROVE  /\ IsFiniteSet(case.records)
           /\ \A r \in case.records : r.id # "none"
           /\ \A r, s \in case.records : r.id = s.id => r = s
           /\ \A r, s \in case.records : r.kind \in Owned /\ r.kind = s.kind => r.home = s.home
           /\ \A r \in case.records : r.kind \in {"basket", "return"} => r.at \in Nat
  BY CaseAssumption

\* What a reading of a customer's records finds is the customer's, and all of it
\* if no call failed.
LEMMA ReadingIs ==
    ASSUME case \in Cases, NEW kind \in Owned, NEW customer,
           NEW reading \in RecordsForCustomer(kind, customer)
    PROVE  LET own == {r \in Kind(kind) : r.owner = customer} IN
           /\ reading.got \subseteq own
           /\ ~ reading.missed => reading.got = own
<1> DEFINE own == {r \in Kind(kind) : r.owner = customer}
           home == {r \in own : r.home}
<1>1. \/ reading = [got |-> IF home # {} THEN home ELSE own, missed |-> FALSE]
      \/ \E R \in SUBSET own : reading = [got |-> R, missed |-> TRUE]
  BY DEF RecordsForCustomer
<1>2. home # {} => home = own
  BY RecordsAre DEF Kind
<1> QED BY <1>1, <1>2

\* Of finitely many baskets or returns one is the latest and one the oldest.
LEMMA ExtremesExist ==
    ASSUME NEW R, IsFiniteSet(R), R # {}, \A r \in R : r.at \in Nat
    PROVE  /\ \E r \in R : \A q \in R : q.at <= r.at
           /\ \E r \in R : \A q \in R : r.at <= q.at
<1> DEFINE Topped(X) == \E r \in X : \A q \in X : q.at <= r.at
           S == {n \in Nat : \A X \in SUBSET R : Cardinality(X) = n + 1 => Topped(X)}
<1>1. \A X \in SUBSET R : IsFiniteSet(X) /\ Cardinality(X) \in Nat
  BY FS_Subset, FS_CardinalityType
<1>2. 0 \in S
  <2> SUFFICES ASSUME NEW X \in SUBSET R, Cardinality(X) = 0 + 1 PROVE Topped(X)
    OBVIOUS
  <2>1. PICK x : X = {x}
    <3>1. IsFiniteSet(X) /\ Cardinality(X) = 1
      BY <1>1
    <3> QED BY <3>1, FS_Singleton
  <2>2. x.at \in Nat
    BY <2>1
  <2> QED BY <2>1, <2>2
<1>3. ASSUME NEW n \in Nat, n \in S PROVE n + 1 \in S
  <2> SUFFICES ASSUME NEW X \in SUBSET R, Cardinality(X) = (n + 1) + 1 PROVE Topped(X)
    OBVIOUS
  <2>1. X # {}
    BY <1>1, FS_EmptySet
  <2>2. PICK x \in X : TRUE
    BY <2>1
  <2>3. Cardinality(X \ {x}) = n + 1
    BY <1>1, FS_RemoveElement
  <2>4. PICK r \in X \ {x} : \A q \in X \ {x} : q.at <= r.at
    BY <1>3, <2>3
  <2>5. \A q \in X : q.at \in Nat
    OBVIOUS
  <2>6. CASE x.at <= r.at
    BY <2>4, <2>6
  <2>7. CASE ~ (x.at <= r.at)
    <3>1. \A q \in X : q.at <= x.at
      BY <2>4, <2>5, <2>7
    <3> QED BY <3>1
  <2> QED BY <2>6, <2>7
<1>4. Nat \subseteq S
  <2> HIDE DEF S
  <2> QED BY <1>2, <1>3, SetInduction
<1>5. Topped(R)
  <2>1. Cardinality(R) - 1 \in Nat
    BY <1>1, FS_EmptySet
  <2>2. Cardinality(R) - 1 \in S
    BY <1>4, <2>1
  <2> QED BY <1>1, <2>2
<1>6. \E r \in R : \A q \in R : r.at <= q.at
  <2> DEFINE T == {r.at : r \in R}
  <2>1. T \in SUBSET Nat /\ T # {}
    OBVIOUS
  <2>2. PICK t \in T : \A u \in T : t <= u
    BY <2>1, Least
  <2> QED BY <2>2
<1> QED BY <1>5, <1>6

\* A set with more than one element has two.
LEMMA TwoOfMany ==
    ASSUME NEW S, IsFiniteSet(S), Cardinality(S) > 1
    PROVE  \E r, s \in S : r # s
<1>1. S # {}
  BY FS_EmptySet
<1>2. PICK r \in S : TRUE
  BY <1>1
<1>3. S # {r}
  BY FS_Singleton
<1> QED BY <1>2, <1>3

\* There are as many ids as records.
LEMMA IdsCount ==
    ASSUME case \in Cases, NEW R \in SUBSET case.records
    PROVE  Cardinality(Ids(R)) = Cardinality(R)
<1> DEFINE f == [r \in R |-> r.id]
<1>1. f \in Bijection(R, Ids(R))
  <2>1. f \in [R -> Ids(R)] /\ \A r \in R : f[r] = r.id
    BY DEF Ids
  <2>2. IsInjective(f)
    BY <2>1, RecordsAre DEF IsInjective
  <2>3. \A t \in Ids(R) : \E r \in R : f[r] = t
    BY <2>1 DEF Ids
  <2> QED BY <2>1, <2>2, <2>3 DEF Bijection, Injection, Surjection
<1>2. ExistsBijection(R, Ids(R))
  BY <1>1 DEF ExistsBijection
<1> QED BY <1>2, RecordsAre, FS_Subset, FS_Bijection

-------------------------------------------------------------------------------
\* A preflight that passes.
LEMMA PassKeeps ==
    ASSUME DInv, UNCHANGED <<case, answer, chosen>>, pc # "answered",
           pc' # "answered",
           pc' \in {Stages[i] : i \in DOMAIN Stages} \cup {"deleting", "raised", "model"},
           missed' \in BOOLEAN, missed => missed',
           files' \subseteq case.files, targets' \subseteq case.files, listed' \subseteq case.files,
           Settled'
    PROVE  DInv'
<1>1. case \in Cases /\ answer.kind = "none"
  BY DEF DInv, TypeOK
<1>2. TypeOK'
  BY DEF DInv, TypeOK, Ids
<1>3. OnlyOwnRecords'
  BY DEF DInv, OnlyOwnRecords, who
<1>4. ProfilesStayInside' /\ RealChoice(answer)' /\ FullCount(answer, missed)'
  BY <1>1 DEF ProfilesStayInside, RealChoice, FullCount, Refusals, Questions
<1> QED BY <1>2, <1>3, <1>4 DEF DInv

\* A preflight that answers.
LEMMA CloseKeeps ==
    ASSUME DInv, NEW a, Close(a), MayClose(a, missed'), UNCHANGED <<case, chosen>>,
           missed' \in BOOLEAN,
           files' \subseteq case.files, targets' \subseteq case.files, listed' \subseteq case.files
    PROVE  DInv'
<1>1. pc' = "answered" /\ answer' = a /\ case' = case /\ chosen' = chosen
  BY DEF Close
<1>2. TypeOK'
  BY <1>1 DEF DInv, TypeOK, MayClose, Ids, Refusals, Questions
<1>3. OnlyOwnRecords'
  BY <1>1 DEF DInv, OnlyOwnRecords, MayClose, who
<1>4. ProfilesStayInside'
  BY <1>1 DEF ProfilesStayInside, MayClose, who, Kind, Ids
<1>5. RealChoice(answer)' /\ FullCount(answer, missed)'
  BY <1>1 DEF MayClose, RealChoice, FullCount, InRole, Kind, Ids, task
<1>6. Settled'
  BY <1>1 DEF Settled, PastAmount
<1> QED BY <1>2, <1>3, <1>4, <1>5, <1>6 DEF DInv

LEMMA StagesAre == {Stages[i] : i \in DOMAIN Stages} = Before \cup {"count", "ambiguous", "selector"}
<1>1. DOMAIN Stages = 1 .. 10
  BY DEF Stages
<1>2. {Stages[i] : i \in 1 .. 10} =
        {Stages[1], Stages[2], Stages[3], Stages[4], Stages[5], Stages[6], Stages[7],
         Stages[8], Stages[9], Stages[10]}
  OBVIOUS
<1> QED BY <1>1, <1>2 DEF Stages, Before

\* The same for one of the preflights before or after the cleanup.
LEMMA StagePasses ==
    ASSUME DInv, Pass, UNCHANGED <<case, cleanup>>,
           pc \in Before \cup {"count", "ambiguous", "selector"},
           missed' \in BOOLEAN, missed => missed',
           chosen' = chosen, Settled'
    PROVE  DInv'
<1>1. /\ pc' \in Before \cup After
      /\ answer' = answer /\ case' = case /\ files' = files /\ targets' = targets /\ listed' = listed
  BY FollowingIs DEF Pass, Before, After, cleanup
<1>2. pc' \in {Stages[i] : i \in DOMAIN Stages} \cup {"deleting", "raised", "model"}
  BY <1>1, StagesAre DEF Before, After
<1>3. pc # "answered" /\ pc' # "answered"
  BY <1>1 DEF Before, After
<1>4. files \subseteq case.files /\ targets \subseteq case.files /\ listed \subseteq case.files
  BY DEF DInv, TypeOK
<1> QED BY <1>1, <1>2, <1>3, <1>4, PassKeeps

\* Most preflights, when they pass, leave what was settled before.
LEMMA SettledBefore ==
    ASSUME DInv, Pass, UNCHANGED <<case, chosen, cleanup>>,
           pc \in (Before \ {"amount"}) \cup {"count"}, missed' \in BOOLEAN, missed => missed'
    PROVE  DInv'
<1>1. case' = case /\ pc' = Following(pc)
  BY DEF Pass
<1>2. /\ pc' \in PastAmount => pc \in PastAmount
      /\ pc' \notin {"selector", "model"}
  BY <1>1, FollowingIs DEF Before, PastAmount
<1>3. Settled'
  BY <1>1, <1>2 DEF DInv, Settled, Mine, Kind, OfAmount, AmountOnly, RefundCustomer, task, who
<1> QED BY <1>3, StagePasses DEF Before

\* A preflight that answers leaves the files to the cleanup.
LEMMA StageCloses ==
    ASSUME DInv, NEW a, Close(a), MayClose(a, missed'), UNCHANGED <<case, chosen, cleanup>>,
           missed' \in BOOLEAN
    PROVE  DInv'
<1>1. /\ files' \subseteq case.files /\ targets' \subseteq case.files /\ listed' \subseteq case.files
      /\ case' = case /\ chosen' = chosen
  BY DEF DInv, TypeOK, cleanup
<1> QED BY <1>1, CloseKeeps

\* /bin/id names the one who asks, or nobody when it fails.
LEMMA IdentityIs ==
    ASSUME NEW seen \in Identity
    PROVE  /\ seen.missed => seen.id = Unknown
           /\ ~ seen.missed => seen.id = who
           /\ IsCustomer(seen.id) => seen.id = who
           /\ ~ seen.missed => seen = [id |-> who, missed |-> FALSE]
  BY DEF Identity, IsCustomer, Unknown

\* The check of the manager returns a store, and the profile of an employee only
\* if a call failed or the one who asks is not of the public.
LEMMA ManagerIs ==
    ASSUME case \in Cases, NEW manager \in ManagerRefs
    PROVE  /\ manager.refs \subseteq Ids(case.records)
           /\ \A r \in case.records : r.kind \in Owned => r.id \notin manager.refs
           /\ ~ manager.missed /\ FacesPublic(who) =>
                 manager.refs \cap Ids(Kind("employee")) = {}
<1> DEFINE named == {e \in Kind("employee") : e.id = task.manager /\ e.store \in Ids(Kind("store"))}
           Cited(e, public) == IF public THEN {e.store} ELSE {e.id, e.store}
<1>1. \/ manager.refs = {}
      \/ \E e \in named, seen \in Identity :
            \/ /\ manager.refs = Cited(e, FacesPublic(seen.id))
               /\ manager.missed = seen.missed
            \/ /\ manager.refs = Cited(e, FacesPublicByFiles(seen.id))
               /\ manager.missed = TRUE
  <2> DEFINE Pair(e, seen) ==
                {[refs |-> Cited(e, FacesPublic(seen.id)), missed |-> seen.missed],
                 [refs |-> Cited(e, FacesPublicByFiles(seen.id)), missed |-> TRUE]}
             Checked == UNION {Pair(e, seen) : e \in named, seen \in Identity}
  <2>1. manager.refs = {} \/ manager \in Checked
    BY DEF ManagerRefs
  <2>2. ASSUME manager \in Checked
        PROVE  \E e \in named, seen \in Identity : manager \in Pair(e, seen)
    BY <2>2
  <2>3. \A e, seen : manager \in Pair(e, seen) =>
            \/ /\ manager.refs = Cited(e, FacesPublic(seen.id))
               /\ manager.missed = seen.missed
            \/ /\ manager.refs = Cited(e, FacesPublicByFiles(seen.id))
               /\ manager.missed = TRUE
    BY DEF Cited
  <2> HIDE DEF Pair, Cited, named
  <2> QED BY <2>1, <2>2, <2>3
<1>2. CASE manager.refs = {}
  BY <1>2
<1>3. ASSUME NEW e \in named, NEW seen \in Identity,
             \/ /\ manager.refs = Cited(e, FacesPublic(seen.id))
                /\ manager.missed = seen.missed
             \/ /\ manager.refs = Cited(e, FacesPublicByFiles(seen.id))
                /\ manager.missed = TRUE
      PROVE  /\ manager.refs \subseteq Ids(case.records)
             /\ \A r \in case.records : r.kind \in Owned => r.id \notin manager.refs
             /\ ~ manager.missed /\ FacesPublic(who) =>
                   manager.refs \cap Ids(Kind("employee")) = {}
  <2>1. e \in case.records /\ e.kind = "employee"
    BY DEF Kind
  <2>2. PICK s \in case.records : s.kind = "store" /\ s.id = e.store
    BY DEF Kind, Ids
  <2>3. manager.refs \subseteq {e.id, s.id}
    BY <1>3, <2>2
  <2>4. \A r \in case.records : r.id = s.id => r.kind = "store"
    BY <2>2, RecordsAre
  <2>5. \A r \in case.records : r.id = e.id => r.kind = "employee"
    BY <2>1, RecordsAre
  <2>6. \A r \in case.records : r.kind \in Owned => r.id \notin manager.refs
    BY <2>3, <2>4, <2>5 DEF Owned
  <2>7. ASSUME ~ manager.missed, FacesPublic(who)
        PROVE  manager.refs \cap Ids(Kind("employee")) = {}
    <3>1. manager.refs = {s.id}
      BY <1>3, <2>2, <2>7, IdentityIs
    <3> QED BY <3>1, <2>4 DEF Ids, Kind
  <2>8. manager.refs \subseteq Ids(case.records)
    BY <2>1, <2>2, <2>3 DEF Ids
  <2> QED BY <2>6, <2>7, <2>8
<1> QED BY <1>1, <1>2, <1>3

\* A refusal that cites nothing may always be given.
LEMMA ProtectedMayClose ==
    ASSUME NEW kind \in {"override", "foreign"}, NEW failed
    PROVE  MayClose(Protected(kind), failed)
  BY DEF MayClose, Protected, NoAnswer, RealChoice, FullCount, Refusals, Questions, Ids, Kind

-------------------------------------------------------------------------------
\* The refusals.
LEMMA OverrideKeeps == ASSUME DInv, Override PROVE DInv'
<1>1. pc = "override" /\ UNCHANGED <<case, missed, chosen, cleanup>>
  BY DEF Override
<1>2. missed' \in BOOLEAN
  BY <1>1 DEF DInv, TypeOK
<1>3. CASE Pass
  BY <1>1, <1>2, <1>3, SettledBefore DEF Before
<1>4. CASE Close(Protected("override"))
  BY <1>1, <1>2, <1>4, StageCloses, ProtectedMayClose
<1> QED BY <1>3, <1>4 DEF Override

LEMMA ContactKeeps == ASSUME DInv, Contact PROVE DInv'
<1>1. pc = "contact" /\ UNCHANGED <<case, chosen, cleanup>> /\ case \in Cases
  BY DEF Contact, DInv, TypeOK
<1>2. PICK seen \in Identity, manager \in ManagerRefs :
         \/ Pass /\ (missed' = missed \/ Missed({seen}))
         \/ /\ ~ (\/ seen.id.user # "none" /\ ~ IsCustomer(seen.id)
                  \/ ~ seen.id.roles \subseteq {"guest", "customer"})
            /\ Close(Answer("contact", manager.refs))
            /\ Missed({seen, manager})
  BY DEF Contact
<1>3. missed' \in BOOLEAN /\ (missed => missed')
  BY <1>2 DEF DInv, TypeOK, Missed
<1>4. CASE Pass
  BY <1>1, <1>3, <1>4, SettledBefore DEF Before
<1>5. CASE ~ Pass
  <2>1. Close(Answer("contact", manager.refs)) /\ Missed({seen, manager})
    BY <1>2, <1>5
  <2>2. ASSUME ~ missed', who.user = "none" => who.roles = {"guest"}
        PROVE  manager.refs \cap Ids(Kind("employee")) = {}
    <3>1. ~ seen.missed /\ ~ manager.missed /\ seen.id = who
      BY <2>1, <2>2, IdentityIs DEF Missed
    <3>2. FacesPublic(who)
      BY <1>2, <1>5, <2>2, <3>1 DEF FacesPublic
    <3> QED BY <1>1, <3>1, <3>2, ManagerIs
  <2>3. MayClose(Answer("contact", manager.refs), missed')
    BY <1>1, <2>2, ManagerIs
       DEF MayClose, Answer, NoAnswer, RealChoice, FullCount, Refusals, Questions
  <2> QED BY <1>1, <1>3, <2>1, <2>3, StageCloses
<1> QED BY <1>4, <1>5

LEMMA ForeignKeeps == ASSUME DInv, Foreign PROVE DInv'
<1>1. pc = "foreign" /\ UNCHANGED <<case, chosen, cleanup>>
  BY DEF Foreign
<1>2. /\ Pass \/ Close(Protected("foreign"))
      /\ missed' \in BOOLEAN /\ (missed => missed')
  BY DEF Foreign, DInv, TypeOK, Missed
<1> QED BY <1>1, <1>2, SettledBefore, StageCloses, ProtectedMayClose DEF Before

\* The basket the task names is one of the customer's.
LEMMA NamedBasketIs ==
    ASSUME case \in Cases, NEW customer, NEW baskets \in NamedBasket(customer)
    PROVE  baskets.got \subseteq {b \in Kind("basket") : b.owner = customer}
<1>1. \/ baskets.got = {}
      \/ \E found \in RecordsForCustomer("basket", customer) :
            baskets = [found EXCEPT !.got = {b \in @ : b.id = task.basket}]
  BY DEF NamedBasket
<1>2. ASSUME NEW found \in RecordsForCustomer("basket", customer),
             baskets = [found EXCEPT !.got = {b \in @ : b.id = task.basket}]
      PROVE  baskets.got \subseteq found.got
  <2>1. DOMAIN found = {"got", "missed"}
    BY DEF RecordsForCustomer
  <2> QED BY <1>2, <2>1
<1>3. \A found \in RecordsForCustomer("basket", customer) :
          found.got \subseteq {b \in Kind("basket") : b.owner = customer}
  BY ReadingIs DEF Owned
<1> QED BY <1>1, <1>2, <1>3

LEMMA DiscountKeeps == ASSUME DInv, Discount PROVE DInv'
<1>1. pc = "discount" /\ UNCHANGED <<case, chosen, cleanup>> /\ case \in Cases
  BY DEF Discount, DInv, TypeOK
<1>2. PICK seen \in Identity : \E baskets \in NamedBasket(seen.id.user), manager \in ManagerRefs :
         \/ Pass /\ (missed' = missed \/ Missed({seen}))
         \/ /\ IsCustomer(seen.id)
            /\ Close(Answer("discount", Ids(baskets.got) \cup manager.refs))
            /\ Missed({seen, baskets, manager})
  BY DEF Discount
<1>3. PICK baskets \in NamedBasket(seen.id.user), manager \in ManagerRefs :
         \/ Pass /\ (missed' = missed \/ Missed({seen}))
         \/ /\ IsCustomer(seen.id)
            /\ Close(Answer("discount", Ids(baskets.got) \cup manager.refs))
            /\ Missed({seen, baskets, manager})
  BY <1>2
<1>4. missed' \in BOOLEAN /\ (missed => missed')
  BY <1>3 DEF DInv, TypeOK, Missed
<1>5. CASE Pass
  BY <1>1, <1>4, <1>5, SettledBefore DEF Before
<1>6. CASE ~ Pass
  <2> DEFINE cited == Ids(baskets.got) \cup manager.refs
  <2>1. IsCustomer(seen.id) /\ Close(Answer("discount", cited)) /\ Missed({seen, baskets, manager})
    BY <1>3, <1>6
  <2>2. seen.id = who /\ FacesPublic(who)
    BY <2>1, IdentityIs DEF FacesPublic
  <2>3. baskets.got \subseteq {b \in Kind("basket") : b.owner = who.user}
    BY <1>1, <2>2, NamedBasketIs
  <2>4. cited \subseteq Ids(case.records)
    BY <1>1, <2>3, ManagerIs DEF Ids, Kind
  <2>5. \A r \in case.records : r.id \in Ids(baskets.got) => r.kind = "basket" /\ r.owner = who.user
    BY <1>1, <2>3, RecordsAre DEF Ids, Kind
  <2>6. \A r \in case.records : r.kind \in Owned /\ r.id \in cited => r.owner = who.user
    BY <1>1, <2>5, ManagerIs
  <2>7. ~ missed' => cited \cap Ids(Kind("employee")) = {}
    <3>1. Ids(baskets.got) \cap Ids(Kind("employee")) = {}
      BY <2>5 DEF Ids, Kind
    <3>2. ~ missed' => ~ manager.missed
      BY <2>1 DEF Missed
    <3> QED BY <1>1, <2>2, <3>1, <3>2, ManagerIs
  <2> HIDE DEF cited
  <2>8. MayClose(Answer("discount", cited), missed')
    BY <2>4, <2>6, <2>7
       DEF MayClose, Answer, NoAnswer, RealChoice, FullCount, Refusals, Questions
  <2> QED BY <1>1, <1>4, <2>1, <2>8, StageCloses
<1> QED BY <1>5, <1>6

-------------------------------------------------------------------------------
\* The questions.  One about several of the customer's records, all open baskets or
\* all payments of an amount, offers a choice, whatever it cites besides of the
\* customer's.
LEMMA QuestionMayClose ==
    ASSUME case \in Cases, NEW R, NEW kind \in Questions, NEW failed, NEW more,
           R \subseteq case.records, Cardinality(R) > 1,
           \A r \in R : r.kind \in Owned /\ r.owner = who.user,
           \A r, s \in R : r.kind = s.kind /\ IF kind = "checkout" THEN r.active /\ s.active
                                                                ELSE r.amount = s.amount,
           more \subseteq case.records, \A r \in more : r.kind \in Owned /\ r.owner = who.user
    PROVE  MayClose(Answer(kind, Ids(R) \cup Ids(more)), failed)
<1> DEFINE cited == Ids(R) \cup Ids(more)
           a == Answer(kind, cited)
<1>1. PICK r \in R, s \in R : r # s
  BY RecordsAre, FS_Subset, TwoOfMany
<1>2. a.kind = kind /\ a.refs = cited /\ ~ a.protected
  BY DEF Answer, NoAnswer
<1>3. {r.id, s.id} \subseteq cited
  BY DEF Ids
<1>4. RealChoice(a)
  BY <1>1, <1>2, <1>3 DEF RealChoice
<1>5. \A q \in case.records : q.id \in cited => q.owner = who.user
  BY RecordsAre DEF Ids
<1>6. cited \subseteq Ids(case.records)
  BY DEF Ids
<1> HIDE DEF a, cited
<1>7. MayClose(a, failed)
  BY <1>2, <1>4, <1>5, <1>6 DEF MayClose, FullCount, Refusals, Questions
<1> QED BY <1>7 DEF a, cited

LEMMA AmountKeeps == ASSUME DInv, Amount PROVE DInv'
<1>1. pc = "amount" /\ UNCHANGED <<case, chosen, cleanup>> /\ case \in Cases
  BY DEF Amount, DInv, TypeOK
<1>2. PICK seen \in Identity : \E payments \in RecordsForCustomer("payment", seen.id.user) :
         LET same == OfAmount(payments.got, task.amount) IN
         \/ ~ AmountOnly /\ Pass /\ UNCHANGED missed
         \/ ~ RefundCustomer(seen.id) /\ Pass /\ Missed({seen})
         \/ /\ RefundCustomer(seen.id)
            /\ IF Cardinality(same) > 1 THEN Close(Answer("refund", Ids(same))) ELSE Pass
            /\ Missed({seen, payments})
  BY DEF Amount
<1>3. PICK payments \in RecordsForCustomer("payment", seen.id.user) :
         LET same == OfAmount(payments.got, task.amount) IN
         \/ ~ AmountOnly /\ Pass /\ UNCHANGED missed
         \/ ~ RefundCustomer(seen.id) /\ Pass /\ Missed({seen})
         \/ /\ RefundCustomer(seen.id)
            /\ IF Cardinality(same) > 1 THEN Close(Answer("refund", Ids(same))) ELSE Pass
            /\ Missed({seen, payments})
  BY <1>2
<1> DEFINE same == OfAmount(payments.got, task.amount)
<1>4. missed' \in BOOLEAN /\ (missed => missed')
  BY <1>3 DEF DInv, TypeOK, Missed
<1>5. CASE ~ Pass
  <2>1. RefundCustomer(seen.id) /\ Cardinality(same) > 1 /\ Close(Answer("refund", Ids(same)))
    BY <1>3, <1>5
  <2>2. seen.id = who
    BY <2>1, IdentityIs DEF RefundCustomer
  <2>3. payments.got \subseteq Mine("payment")
    BY <1>1, <2>2, ReadingIs DEF Mine, Owned
  <2>4. /\ same \subseteq Mine("payment")
        /\ \A r, s \in same : r.amount = s.amount
    BY <2>3 DEF OfAmount
  <2> HIDE DEF same
  <2>5. MayClose(Answer("refund", Ids(same) \cup Ids({})), missed')
    BY <1>1, <2>1, <2>4, QuestionMayClose DEF Mine, Kind, Owned, Questions
  <2>6. Ids(same) \cup Ids({}) = Ids(same)
    BY DEF Ids
  <2> QED BY <1>1, <1>4, <2>1, <2>5, <2>6, StageCloses
<1>6. CASE Pass
  <2>1. ASSUME ~ missed', AmountOnly, RefundCustomer(who)
        PROVE  Cardinality(OfAmount(Mine("payment"), task.amount)) <= 1
    <3>1. ~ seen.missed /\ seen.id = who
      BY <1>3, <2>1, IdentityIs DEF Missed, Close, Pass
    <3>2. ~ payments.missed /\ Cardinality(same) \leq 1
      <4>1. IF Cardinality(same) > 1 THEN Close(Answer("refund", Ids(same))) ELSE Pass
        BY <1>3, <2>1, <3>1
      <4>2. ~ Close(Answer("refund", Ids(same)))
        BY <1>1, <1>6, FollowingIs DEF Close, Pass
      <4>3. ~ payments.missed
        BY <1>3, <2>1, <3>1 DEF Missed
      <4>4. same \subseteq case.records
        BY <1>1, ReadingIs DEF OfAmount, Kind, Owned
      <4>5. Cardinality(same) \in Nat
        BY <1>1, <4>4, RecordsAre, FS_Subset, FS_CardinalityType
      <4> QED BY <4>1, <4>2, <4>3, <4>5
    <3>3. payments.got = Mine("payment")
      BY <1>1, <3>1, <3>2, ReadingIs DEF Mine, Owned
    <3> QED BY <3>2, <3>3
  <2>2. pc' = "rejected" /\ case' = case
    BY <1>1, <1>6, FollowingIs DEF Pass
  <2>3. Settled'
    BY <2>1, <2>2 DEF Settled, Mine, Kind, OfAmount, AmountOnly, RefundCustomer, IsCustomer, task, who
  <2> QED BY <1>1, <1>4, <1>6, <2>3, StagePasses DEF Before
<1> QED BY <1>5, <1>6

\* The returns of the payments meant are the customer's.
LEMMA TargetRowsAre ==
    ASSUME case \in Cases, NEW customer, NEW target \in TargetRows(customer)
    PROVE  \A row \in target.rows :
              row.returns \subseteq {r \in Kind("return") : r.owner = customer}
<1> DEFINE own == {r \in Kind("return") : r.owner = customer}
           Meant(R) == IF task.payment # "none" THEN {p \in R : p.id = task.payment}
                       ELSE OfAmount(R, task.amount)
           Returns == RecordsForCustomer("return", customer)
           Payments == RecordsForCustomer("payment", customer)
           Row(p, R) == [payment |-> p, returns |-> {r \in R : r.payment = p.id}]
           ByReturn(payments, returns) ==
               {row \in {Row(p, {r \in returns.got : r.id = task.return}) : p \in payments.got} :
                   row.returns # {}}
           ByPayment(payments, of) == {Row(p, of[p].got) : p \in Meant(payments.got)}
<1>1. \A returns \in Returns : returns.got \subseteq own
  BY ReadingIs DEF Owned
<1>2. \/ \E payments \in Payments, returns \in Returns : target.rows = ByReturn(payments, returns)
      \/ \E payments \in Payments : \E of \in [Meant(payments.got) -> Returns] :
            target.rows = ByPayment(payments, of)
  <2>1. CASE task.payment = "none" /\ task.return # "none"
    <3>1. target \in {[rows |-> ByReturn(payments, returns),
                       missed |-> payments.missed \/ returns.missed] :
                         payments \in Payments, returns \in Returns}
      BY <2>1 DEF TargetRows
    <3> QED BY <3>1
  <2>2. CASE ~ (task.payment = "none" /\ task.return # "none")
    <3> DEFINE Read(payments, of) ==
                  [rows |-> ByPayment(payments, of),
                   missed |-> \/ payments.missed
                              \/ \E p \in Meant(payments.got) : of[p].missed]
               Of(payments) == {Read(payments, of) : of \in [Meant(payments.got) -> Returns]}
    <3>1. TargetRows(customer) =
             IF task.payment = "none" /\ task.return # "none"
               THEN {[rows |-> ByReturn(payments, returns),
                      missed |-> payments.missed \/ returns.missed] :
                        payments \in Payments, returns \in Returns}
               ELSE UNION {Of(payments) : payments \in Payments}
      BY DEF TargetRows
    <3>2. \A payments, of : Read(payments, of).rows = ByPayment(payments, of)
      <4> HIDE DEF ByPayment, Meant
      <4> QED OBVIOUS
    <3> HIDE DEF Read, ByReturn, ByPayment, Meant, Returns, Payments
    <3>3. PICK payments \in Payments : target \in Of(payments)
      <4> HIDE DEF Of
      <4> QED BY <2>2, <3>1
    <3> QED BY <3>2, <3>3
  <2> QED BY <2>1, <2>2
<1>3. \A p, R : R \subseteq own => Row(p, R).returns \subseteq own
  OBVIOUS
<1>4. ASSUME NEW payments \in Payments, NEW returns \in Returns,
             NEW row \in ByReturn(payments, returns)
      PROVE  row.returns \subseteq own
  BY <1>1
<1>5. ASSUME NEW payments \in Payments, NEW of \in [Meant(payments.got) -> Returns],
             NEW row \in ByPayment(payments, of)
      PROVE  row.returns \subseteq own
  <2>1. PICK p \in Meant(payments.got) : row = Row(p, of[p].got)
    OBVIOUS
  <2>2. of[p].got \subseteq own
    BY <1>1
  <2> HIDE DEF Row, own
  <2> QED BY <1>3, <2>1, <2>2
<1> HIDE DEF ByReturn, ByPayment, Returns, Payments, Meant, Row
<1> QED BY <1>2, <1>4, <1>5

LEMMA RejectedKeeps == ASSUME DInv, Rejected PROVE DInv'
<1>1. pc = "rejected" /\ UNCHANGED <<case, chosen, cleanup>> /\ case \in Cases
  BY DEF Rejected, DInv, TypeOK
<1> DEFINE Of(target) == {r \in UNION {row.returns : row \in target.rows} : r.rejected}
           Latest(target) == CHOOSE r \in Of(target) : \A q \in Of(target) : q.at <= r.at
           Meant(target) == (CHOOSE row \in target.rows : TRUE).payment.amount
           Same(target, again) == OfAmount(again.got, Meant(target))
<1>2. PICK seen \in Identity :
         \/ Pass /\ (missed' = missed \/ Missed({seen}))
         \/ /\ RefundCustomer(seen.id)
            /\ \E target \in TargetRows(seen.id.user),
                  again \in RecordsForCustomer("payment", seen.id.user) :
                  \/ Pass /\ (Missed({seen, target}) \/ Missed({seen, target, again}))
                  \/ /\ Of(target) # {} /\ Cardinality(Same(target, again)) > 1
                     /\ Close(Answer("refund", Ids(Same(target, again)) \cup {Latest(target).id}))
                     /\ Missed({seen, target, again})
  BY DEF Rejected
<1>3. missed' \in BOOLEAN /\ (missed => missed')
  BY <1>2 DEF DInv, TypeOK, Missed
<1>4. CASE Pass
  BY <1>1, <1>3, <1>4, SettledBefore DEF Before
<1>5. CASE ~ Pass
  <2>1. PICK target \in TargetRows(seen.id.user),
             again \in RecordsForCustomer("payment", seen.id.user) :
          /\ RefundCustomer(seen.id)
          /\ Of(target) # {} /\ Cardinality(Same(target, again)) > 1
          /\ Close(Answer("refund", Ids(Same(target, again)) \cup {Latest(target).id}))
    BY <1>2, <1>5
  <2>2. seen.id = who
    BY <2>1, IdentityIs DEF RefundCustomer
  <2> DEFINE rejected == Of(target)
             same == Same(target, again)
             latest == Latest(target)
  <2>3. \A row \in target.rows : row.returns \subseteq Mine("return")
    BY <1>1, <2>2, TargetRowsAre DEF Mine
  <2>4. rejected \subseteq Mine("return") /\ rejected # {}
    BY <2>1, <2>3
  <2>5. latest \in rejected
    <3>1. rejected \subseteq case.records
      BY <2>4 DEF Mine, Kind
    <3>2. IsFiniteSet(rejected) /\ \A r \in rejected : r.at \in Nat
      <4> HIDE DEF rejected
      <4>1. IsFiniteSet(rejected)
        BY <1>1, <3>1, RecordsAre, FS_Subset
      <4> QED BY <1>1, <2>4, <4>1, RecordsAre DEF Mine, Kind
    <3>3. \E r \in rejected : \A q \in rejected : q.at <= r.at
      <4> HIDE DEF rejected
      <4> QED BY <2>4, <3>2, ExtremesExist
    <3> QED BY <3>3
  <2>6. again.got \subseteq Mine("payment")
    BY <1>1, <2>2, ReadingIs DEF Mine, Owned
  <2>7. /\ same \subseteq Mine("payment") /\ Cardinality(same) > 1
        /\ \A r, s \in same : r.amount = s.amount
    BY <2>1, <2>6 DEF OfAmount
  <2>8. Close(Answer("refund", Ids(same) \cup {latest.id}))
    BY <2>1
  <2> HIDE DEF rejected, same, latest
  <2>9. latest \in case.records /\ latest.kind \in Owned /\ latest.owner = who.user
    BY <2>4, <2>5 DEF Mine, Kind, Owned
  <2>10. MayClose(Answer("refund", Ids(same) \cup Ids({latest})), missed')
    <3>1. \A r \in same : r \in case.records /\ r.kind = "payment" /\ r.owner = who.user
      BY <2>7 DEF Mine, Kind
    <3>2. \A r, s \in same : r.kind = s.kind /\ r.amount = s.amount
      BY <2>7, <3>1
    <3>3. \A r \in same : r.kind \in Owned /\ r.owner = who.user
      BY <3>1 DEF Owned
    <3>4. "refund" \in Questions /\ "refund" # "checkout"
      BY DEF Questions
    <3> QED BY <1>1, <2>7, <2>9, <3>1, <3>2, <3>3, <3>4, QuestionMayClose
  <2>11. Ids({latest}) = {latest.id}
    BY DEF Ids
  <2> QED BY <1>1, <1>3, <2>8, <2>10, <2>11, StageCloses
<1> QED BY <1>4, <1>5

-------------------------------------------------------------------------------
\* The cleanup.
LEMMA InspectKeepsDecided == ASSUME DInv, Inspect PROVE DInv'
<1>1. /\ pc = "cleanup" /\ case' = case /\ chosen' = chosen /\ files' = files /\ listed' = listed
      /\ answer' = answer /\ case \in Cases
  BY DEF Inspect, Pass, DInv, TypeOK
<1>2. /\ pc' \in {"count", "deleting"} /\ (targets' = targets \/ targets' = Wanted(files))
      /\ missed' \in BOOLEAN /\ (missed => missed')
  BY FollowingIs DEF Inspect, Pass, DInv, TypeOK
<1>3. files' \subseteq case.files /\ targets' \subseteq case.files /\ listed' \subseteq case.files
  BY <1>1, <1>2 DEF DInv, TypeOK, Wanted, Under
<1>4. Settled'
  BY <1>1, <1>2 DEF DInv, Settled, PastAmount, Mine, Kind, OfAmount, AmountOnly,
                    RefundCustomer, task, who
<1>5. pc' \in {Stages[i] : i \in DOMAIN Stages} \cup {"deleting", "raised", "model"}
  BY <1>2, StagesAre
<1> QED BY <1>1, <1>2, <1>3, <1>4, <1>5, PassKeeps

LEMMA DeleteKeepsDecided == ASSUME DInv, Delete PROVE DInv'
<1>1. /\ pc = "deleting" /\ case' = case /\ chosen' = chosen /\ answer' = answer
      /\ pc' \in {"raised", "deleting"}
  BY DEF Delete, AfterDelete
<1>2. /\ files' \subseteq files /\ targets' \subseteq targets /\ listed' \subseteq listed \cup targets
      /\ missed' \in BOOLEAN /\ (missed => missed')
  BY DEF Delete, DInv, TypeOK
<1>3. files' \subseteq case.files /\ targets' \subseteq case.files /\ listed' \subseteq case.files
  BY <1>2 DEF DInv, TypeOK
<1>4. Settled'
  BY <1>1, <1>2 DEF DInv, Settled, PastAmount, Mine, Kind, OfAmount, AmountOnly,
                    RefundCustomer, task, who
<1>5. pc' \in {Stages[i] : i \in DOMAIN Stages} \cup {"deleting", "raised", "model"}
  BY <1>1
<1> QED BY <1>1, <1>2, <1>3, <1>4, <1>5, PassKeeps

LEMMA ReportKeepsDecided == ASSUME DInv, ReportDeleted PROVE DInv'
<1>1. MayClose(Answer("cleanup", {}), missed')
  BY DEF MayClose, Answer, NoAnswer, RealChoice, FullCount, Refusals, Questions
<1>2. Close(Answer("cleanup", {})) /\ UNCHANGED <<case, missed, chosen, cleanup>>
  BY DEF ReportDeleted
<1>3. missed' \in BOOLEAN
  BY <1>2 DEF DInv, TypeOK
<1> QED BY <1>1, <1>2, <1>3, StageCloses

-------------------------------------------------------------------------------
\* Staff and baskets.
LEMMA CountKeeps == ASSUME DInv, Count PROVE DInv'
<1>1. pc = "count" /\ UNCHANGED <<case, chosen, cleanup>> /\ case \in Cases
  BY DEF Count, DInv, TypeOK
<1> DEFINE Counted(staff) == {e \in staff.got : /\ task.role \in e.roles
                                               /\ task.store \in {"none", e.store}}
           Shown(stores) == Ids(stores.got) \cap {task.store}
<1>2. \/ Pass /\ (missed' = missed \/ missed' = TRUE)
      \/ \E staff \in Readings(Kind("employee")), stores \in Readings(Kind("store")) :
            \/ Pass /\ Missed({staff, stores})
            \/ /\ Close([Answer("count", Ids(Counted(staff)) \cup Shown(stores))
                           EXCEPT !.count = Cardinality(Counted(staff))])
               /\ Missed({staff} \cup IF Shown(stores) = {} THEN {} ELSE {stores})
  BY DEF Count
<1>3. missed' \in BOOLEAN /\ (missed => missed')
  BY <1>2 DEF DInv, TypeOK, Missed
<1>4. CASE Pass
  BY <1>1, <1>3, <1>4, SettledBefore DEF Before
<1>5. CASE ~ Pass
  <2>1. PICK staff \in Readings(Kind("employee")), stores \in Readings(Kind("store")) :
            /\ Close([Answer("count", Ids(Counted(staff)) \cup Shown(stores))
                        EXCEPT !.count = Cardinality(Counted(staff))])
            /\ Missed({staff} \cup IF Shown(stores) = {} THEN {} ELSE {stores})
    BY <1>2, <1>5
  <2> DEFINE counted == Counted(staff)
             shown == Shown(stores)
             a == [Answer("count", Ids(counted) \cup shown) EXCEPT !.count = Cardinality(counted)]
  <2>2. /\ staff.got \subseteq Kind("employee") /\ (~ staff.missed => staff.got = Kind("employee"))
        /\ stores.got \subseteq Kind("store")
    BY DEF Readings
  <2>3. counted \subseteq InRole /\ (~ missed' => counted = InRole)
    <3>1. ~ missed' => ~ staff.missed
      BY <2>1 DEF Missed
    <3> QED BY <2>2, <3>1 DEF InRole
  <2>4. \A r \in case.records : r.id \in shown => r.kind = "store"
    BY <1>1, <2>2, RecordsAre DEF Ids, Kind
  <2>5. shown \subseteq Ids(case.records)
    BY <2>2 DEF Ids, Kind
  <2>6. a.kind = "count" /\ a.refs = Ids(counted) \cup shown /\ ~ a.protected
        /\ a.count = Cardinality(counted)
    BY DEF Answer, NoAnswer
  <2>7. Close(a)
    BY <2>1
  <2> HIDE DEF counted, shown, a
  <2>8. InRole \subseteq case.records /\ \A e \in InRole : e.kind = "employee"
    BY DEF InRole, Kind
  <2>9. \A r \in case.records : r.id \in Ids(counted) => r \in counted
    BY <1>1, <2>3, <2>8, RecordsAre DEF Ids
  <2>10. a.refs \cap Ids(InRole) = Ids(counted)
    BY <2>3, <2>4, <2>6, <2>8 DEF Ids
  <2>11. FullCount(a, missed')
    BY <1>1, <2>3, <2>6, <2>8, <2>10, IdsCount DEF FullCount
  <2>12. \A r \in case.records : r.id \in a.refs => r.kind \in {"store", "employee"}
    BY <2>3, <2>4, <2>6, <2>8, <2>9
  <2>13. a.refs \subseteq Ids(case.records)
    BY <2>3, <2>5, <2>6, <2>8 DEF Ids
  <2>14. MayClose(a, missed')
    BY <2>6, <2>11, <2>12, <2>13 DEF MayClose, RealChoice, Refusals, Questions, Owned
  <2> QED BY <1>1, <1>3, <2>7, <2>14, StageCloses
<1> QED BY <1>4, <1>5

LEMMA AmbiguousKeeps == ASSUME DInv, Ambiguous PROVE DInv'
<1>1. pc = "ambiguous" /\ UNCHANGED <<case, chosen, cleanup>> /\ case \in Cases
  BY DEF Ambiguous, DInv, TypeOK
<1>2. PICK seen \in Identity : \E baskets \in RecordsForCustomer("basket", seen.id.user) :
         LET active == Active(baskets.got) IN
         \/ ~ CheckoutWith({"none"}) /\ Pass /\ UNCHANGED missed
         \/ ~ IsCustomer(seen.id) /\ Pass /\ Missed({seen})
         \/ /\ IsCustomer(seen.id)
            /\ IF Cardinality(active) > 1 THEN Close(Answer("checkout", Ids(active))) ELSE Pass
            /\ Missed({seen, baskets})
  BY DEF Ambiguous
<1>3. PICK baskets \in RecordsForCustomer("basket", seen.id.user) :
         LET active == Active(baskets.got) IN
         \/ ~ CheckoutWith({"none"}) /\ Pass /\ UNCHANGED missed
         \/ ~ IsCustomer(seen.id) /\ Pass /\ Missed({seen})
         \/ /\ IsCustomer(seen.id)
            /\ IF Cardinality(active) > 1 THEN Close(Answer("checkout", Ids(active))) ELSE Pass
            /\ Missed({seen, baskets})
  BY <1>2
<1> DEFINE active == Active(baskets.got)
<1>4. missed' \in BOOLEAN /\ (missed => missed')
  BY <1>3 DEF DInv, TypeOK, Missed
<1>5. CASE ~ Pass
  <2>1. IsCustomer(seen.id) /\ Cardinality(active) > 1 /\ Close(Answer("checkout", Ids(active)))
    BY <1>3, <1>5
  <2>2. seen.id = who
    BY <2>1, IdentityIs
  <2>3. baskets.got \subseteq Mine("basket")
    BY <1>1, <2>2, ReadingIs DEF Mine, Owned
  <2>4. /\ active \subseteq Mine("basket")
        /\ \A r \in active : r.active
    BY <2>3 DEF Active
  <2> HIDE DEF active
  <2>5. MayClose(Answer("checkout", Ids(active) \cup Ids({})), missed')
    <3>1. \A r \in active : r \in case.records /\ r.kind = "basket" /\ r.owner = who.user
      BY <2>4 DEF Mine, Kind
    <3>2. "basket" \in Owned /\ "checkout" \in Questions
      BY DEF Owned, Questions
    <3>3. \A r, s \in active : r.kind = s.kind /\ r.active /\ s.active
      BY <2>4, <3>1
    <3>4. active \subseteq case.records /\ \A r \in active : r.kind \in Owned /\ r.owner = who.user
      BY <3>1, <3>2
    <3> QED BY <1>1, <2>1, <3>2, <3>3, <3>4, QuestionMayClose
  <2>6. Ids(active) \cup Ids({}) = Ids(active)
    BY DEF Ids
  <2> QED BY <1>1, <1>4, <2>1, <2>5, <2>6, StageCloses
<1>6. CASE Pass
  <2>1. ASSUME ~ missed', CheckoutWith({"none"}), IsCustomer(who)
        PROVE  Cardinality(Active(Mine("basket"))) <= 1
    <3>1. ~ seen.missed /\ seen.id = who
      BY <1>3, <2>1, IdentityIs DEF Missed, Close, Pass
    <3>2. ~ baskets.missed /\ Cardinality(active) \leq 1
      <4>1. IF Cardinality(active) > 1 THEN Close(Answer("checkout", Ids(active))) ELSE Pass
        BY <1>3, <2>1, <3>1
      <4>2. ~ Close(Answer("checkout", Ids(active)))
        BY <1>1, <1>6, FollowingIs DEF Close, Pass
      <4>3. ~ baskets.missed
        BY <1>3, <2>1, <3>1 DEF Missed
      <4>4. active \subseteq case.records
        BY <1>1, ReadingIs DEF Active, Kind, Owned
      <4>5. Cardinality(active) \in Nat
        BY <1>1, <4>4, RecordsAre, FS_Subset, FS_CardinalityType
      <4> QED BY <4>1, <4>2, <4>3, <4>5
    <3>3. baskets.got = Mine("basket")
      BY <1>1, <3>1, <3>2, ReadingIs DEF Mine, Owned
    <3> QED BY <3>2, <3>3
  <2>2. pc' = "selector" /\ case' = case
    BY <1>1, <1>6, FollowingIs DEF Pass
  <2>3. Settled'
    BY <1>1, <1>4, <2>1, <2>2
       DEF DInv, Settled, PastAmount, Mine, Kind, Active, OfAmount, AmountOnly, RefundCustomer,
           CheckoutWith, IsCustomer, task, who
  <2> QED BY <1>1, <1>4, <1>6, <2>3, StagePasses
<1> QED BY <1>5, <1>6

LEMMA SelectorKeeps == ASSUME DInv, Selector PROVE DInv'
<1>1. /\ pc = "selector" /\ case' = case /\ UNCHANGED cleanup /\ Pass /\ case \in Cases
      /\ pc' = "model" /\ answer' = answer /\ answer.kind = "none"
  BY FollowingIs DEF Selector, DInv, TypeOK, Pass
<1>2. PICK seen \in Identity : \E baskets \in RecordsForCustomer("basket", seen.id.user) :
         LET active == Active(baskets.got) IN
         \/ ~ CheckoutWith({"newest", "oldest"}) /\ UNCHANGED <<missed, chosen>>
         \/ ~ IsCustomer(seen.id) /\ UNCHANGED chosen /\ Missed({seen})
         \/ /\ CheckoutWith({"newest", "oldest"}) /\ IsCustomer(seen.id)
            /\ chosen' = IF active = {} THEN chosen ELSE Extreme(active).id
            /\ Missed({seen, baskets})
  BY DEF Selector
<1>3. PICK baskets \in RecordsForCustomer("basket", seen.id.user) :
         LET active == Active(baskets.got) IN
         \/ ~ CheckoutWith({"newest", "oldest"}) /\ UNCHANGED <<missed, chosen>>
         \/ ~ IsCustomer(seen.id) /\ UNCHANGED chosen /\ Missed({seen})
         \/ /\ CheckoutWith({"newest", "oldest"}) /\ IsCustomer(seen.id)
            /\ chosen' = IF active = {} THEN chosen ELSE Extreme(active).id
            /\ Missed({seen, baskets})
  BY <1>2
<1> DEFINE active == Active(baskets.got)
<1>4. missed' \in BOOLEAN /\ (missed => missed')
  BY <1>3 DEF DInv, TypeOK, Missed
<1>5. IsCustomer(seen.id) => active \subseteq Mine("basket") /\ seen.id = who
  BY <1>1, IdentityIs, ReadingIs DEF Active, Mine, Owned
<1> HIDE DEF active
<1>6. ASSUME active # {}, active \subseteq Mine("basket") PROVE Extreme(active) \in active
  <2>1. IsFiniteSet(active) /\ \A b \in active : b.at \in Nat
    <3>1. \A b \in active : b \in case.records /\ b.kind = "basket"
      BY <1>6 DEF Mine, Kind
    <3> QED BY <1>1, <3>1, RecordsAre, FS_Subset
  <2>2. \E b \in active : \A c \in active : IF task.selector = "newest" THEN b.at >= c.at
                                                                       ELSE b.at <= c.at
    <3>1. CASE task.selector = "newest"
      BY <1>6, <2>1, <3>1, ExtremesExist
    <3>2. CASE task.selector # "newest"
      BY <1>6, <2>1, <3>2, ExtremesExist
    <3> QED BY <3>1, <3>2
  <2> QED BY <2>2 DEF Extreme
<1>7. \/ chosen' = chosen
      \/ \E b \in Mine("basket") : chosen' = b.id
  <2>1. \/ chosen' = chosen
        \/ IsCustomer(seen.id) /\ active # {} /\ chosen' = Extreme(active).id
    BY <1>3 DEF active
  <2> QED BY <1>5, <1>6, <2>1
<1>8. OnlyOwnRecords'
  <2>1. ASSUME NEW b \in Mine("basket"), chosen' = b.id PROVE OnlyOwnRecords'
    <3>1. b \in case.records /\ b.owner = who.user
      BY DEF Mine, Kind
    <3> QED BY <1>1, <2>1, <3>1, RecordsAre DEF DInv, OnlyOwnRecords, who
  <2>2. CASE chosen' = chosen
    BY <1>1, <2>2 DEF DInv, OnlyOwnRecords, who
  <2> QED BY <1>7, <2>1, <2>2
<1>9. TypeOK'
  <2>1. chosen' \in Ids(case.records) \cup {"none", chosen}
    BY <1>7 DEF Mine, Kind, Ids
  <2>2. files' = files /\ targets' = targets /\ listed' = listed
    BY <1>1 DEF cleanup
  <2> QED BY <1>1, <1>4, <2>1, <2>2 DEF DInv, TypeOK, Ids
<1>10. ProfilesStayInside' /\ RealChoice(answer)' /\ FullCount(answer, missed)'
  BY <1>1 DEF ProfilesStayInside, RealChoice, FullCount, Refusals, Questions
<1>11. Settled'
  <2>1. ASSUME ~ missed', CheckoutWith({"newest", "oldest"}), IsCustomer(who),
               Active(Mine("basket")) # {}
        PROVE  chosen' = Extreme(Active(Mine("basket"))).id
    <3>1. ~ seen.missed /\ seen.id = who
      BY <1>3, <2>1, IdentityIs DEF Missed, CheckoutWith
    <3>2. ~ baskets.missed
      BY <1>3, <2>1, <3>1 DEF Missed
    <3>3. active = Active(Mine("basket"))
      <4>1. baskets.got = Mine("basket")
        BY <1>1, <3>1, <3>2, ReadingIs DEF Mine, Owned
      <4> QED BY <4>1 DEF active
    <3> QED BY <1>3, <2>1, <3>1, <3>3 DEF active
  <2>2. /\ Mine("basket")' = Mine("basket") /\ Mine("payment")' = Mine("payment")
        /\ task' = task /\ who' = who
    BY <1>1 DEF Mine, Kind, task, who
  <2>3. Extreme(Active(Mine("basket")))' = Extreme(Active(Mine("basket")))
    BY <2>2 DEF Extreme, Active
  <2>4. \A S : CheckoutWith(S)' = CheckoutWith(S)
    BY <2>2 DEF CheckoutWith
  <2> QED BY <1>1, <1>4, <2>1, <2>2, <2>3, <2>4
          DEF DInv, Settled, PastAmount, OfAmount, Active, AmountOnly, RefundCustomer, IsCustomer
<1> QED BY <1>8, <1>9, <1>10, <1>11 DEF DInv

LEMMA DecidedInit == Init => DInv
<1> SUFFICES ASSUME Init PROVE DInv
  OBVIOUS
<1>1. "override" \in {Stages[i] : i \in DOMAIN Stages}
  BY StagesAre DEF Before
<1>2. TypeOK
  BY <1>1 DEF Init, TypeOK, NoAnswer, Ids
<1>3. \A r \in case.records : r.id # "none"
  BY <1>2, RecordsAre DEF TypeOK
<1> QED BY <1>2, <1>3 DEF Init, DInv, OnlyOwnRecords, ProfilesStayInside, RealChoice, FullCount,
                          Settled, PastAmount, NoAnswer, Refusals, Questions

\* The invariant of the decisions, for any cases.
LEMMA Decisions == Spec => []DInv
<1>1. DInv /\ [Next]_vars => DInv'
  <2> SUFFICES ASSUME DInv, [Next]_vars PROVE DInv'
    OBVIOUS
  <2>1. CASE Next
    BY <2>1, OverrideKeeps, ContactKeeps, ForeignKeeps, DiscountKeeps, AmountKeeps, RejectedKeeps,
       InspectKeepsDecided, DeleteKeepsDecided, ReportKeepsDecided, CountKeeps, AmbiguousKeeps,
       SelectorKeeps DEF Next
  <2>2. CASE UNCHANGED vars
    BY <2>2 DEF vars, DInv, TypeOK, OnlyOwnRecords, ProfilesStayInside, RealChoice, FullCount,
                Settled, Mine, InRole, Kind, Ids, Active, OfAmount, Extreme, AmountOnly,
                RefundCustomer, IsCustomer, CheckoutWith, task, who
  <2> QED BY <2>1, <2>2
<1> QED BY <1>1, DecidedInit, PTL DEF Spec

\* Answers, deletions and the chosen basket are of the kinds and records there are,
\* and a trial is answered exactly when a preflight closed it (agent.py:1614-1700).
THEOREM TypeCorrect == Spec => []TypeOK
<1>1. DInv => TypeOK
  BY DEF DInv
<1> QED BY <1>1, Decisions, PTL

\* Baskets, payments and returns that are cited or chosen belong to the customer
\* /bin/id names, whichever calls fail (security_preflight.py:77-85,
\* runtime_state.py:119-139).
THEOREM OwnRecordsOnly == Spec => []OnlyOwnRecords
<1>1. DInv => OnlyOwnRecords
  BY DEF DInv
<1> QED BY <1>1, Decisions, PTL

\* A refusal whose calls all succeeded cites no employee's profile
\* (manager_verification.py:129-137, staff_tools.py:100-137).
THEOREM ProfilesInside == Spec => []ProfilesStayInside
<1>1. DInv => ProfilesStayInside
  BY DEF DInv
<1> QED BY <1>1, Decisions, PTL

\* Questions offer a real choice; without a failed call no choice is left to the
\* model, the selector gets the newest or oldest of all active baskets and everyone
\* in the role is counted (checkout_preflight.py:80-152, refund_preflight.py:84-201,
\* staff_tools.py:44-88).
THEOREM DecisionsFit == Spec => []DecisionsFitRecords
<1>1. DInv => DecisionsFitRecords
  BY DEF DInv, DecisionsFitRecords, RealChoice, FullCount, InRole, Settled, PastAmount, Mine, Active
<1> QED BY <1>1, Decisions, PTL

-------------------------------------------------------------------------------
(* The dispatch planner.  Its keys are ordered strictly and totally, so sorting  *)
(* is by them; the search over the lanes finds all routes; the candidates are    *)
(* the best of them; and the product of the candidates is tried in its order,    *)
(* none left out.                                                                *)

\* Intervals from 1 of one extent end at one number.
LEMMA SameInterval ==
    ASSUME NEW m \in Nat, NEW n \in Nat, 1 .. m = 1 .. n
    PROVE  m = n
  <1>1. m = 0 \/ m \in 1 .. m
    OBVIOUS
  <1>2. n = 0 \/ n \in 1 .. n
    OBVIOUS
  <1> QED
    BY <1>1, <1>2

-----------------------------------------------------------------------------
\* The order of keys: strict and total.

\* a is the lesser of the two keys by their k-th numbers; a key that ends
\* before is the lesser.
LessAt(a, b, k) ==
    /\ k <= Len(b)
    /\ \A j \in Nat \ {0} : j < k => j <= Len(a) /\ a[j] = b[j]
    /\ k = Len(a) + 1 \/ (k <= Len(a) /\ a[k] < b[k])

\* One key is the lesser exactly if it is at some position.
LEMMA LessSomewhere ==
    ASSUME NEW a \in Seq(Int), NEW b \in Seq(Int)
    PROVE  Less(a, b) <=> \E k \in Nat \ {0} : LessAt(a, b, k)
  <1>1. /\ Len(a) \in Nat /\ Len(b) \in Nat
        /\ DOMAIN a = 1 .. Len(a) /\ DOMAIN b = 1 .. Len(b)
    OBVIOUS
  <1>2. ASSUME Less(a, b) PROVE \E k \in Nat \ {0} : LessAt(a, b, k)
    <2>1. CASE IsStrictPrefix(a, b)
      <3>1. Len(a) <= Len(b) /\ SubSeq(a, 1, Len(a)) = SubSeq(b, 1, Len(a)) /\ a # b
        BY <2>1 DEF IsStrictPrefix, IsPrefix
      <3>2. \A j \in 1 .. Len(a) : a[j] = b[j]
        BY <1>1, <3>1
      <3>3. Len(a) # Len(b)
        BY <3>1, <3>2, SeqEqual
      <3>4. Len(a) + 1 <= Len(b)
        <4>1. Len(a) <= Len(b) /\ Len(a) \in Nat /\ Len(b) \in Nat
          BY <1>1, <3>1
        <4> QED
          BY <3>3, <4>1
      <3>5. LessAt(a, b, Len(a) + 1)
        BY <1>1, <3>2, <3>4 DEF LessAt
      <3> QED
        BY <1>1, <3>5
    <2>2. CASE ~ IsStrictPrefix(a, b)
      <3>1. PICK k \in DOMAIN a \cap DOMAIN b :
                a[k] < b[k] /\ \A j \in 1 .. k - 1 : a[j] = b[j]
        BY <1>2, <2>2 DEF Less
      <3>2. k \in Nat \ {0} /\ k <= Len(a) /\ k <= Len(b)
        BY <1>1, <3>1
      <3>3. \A j \in Nat \ {0} : j < k => j <= Len(a) /\ a[j] = b[j]
        BY <1>1, <3>1, <3>2
      <3>4. LessAt(a, b, k)
        BY <3>1, <3>2, <3>3 DEF LessAt
      <3> QED
        BY <3>2, <3>4
    <2> QED
      BY <2>1, <2>2
  <1>3. ASSUME NEW k \in Nat \ {0}, LessAt(a, b, k) PROVE Less(a, b)
    <2>1. CASE k = Len(a) + 1
      <3>1. Len(a) < Len(b) /\ \A j \in 1 .. Len(a) : a[j] = b[j]
        BY <1>1, <1>3, <2>1 DEF LessAt
      <3>2. SubSeq(a, 1, Len(a)) = SubSeq(b, 1, Len(a)) /\ a # b
        BY <1>1, <3>1
      <3> QED
        BY <1>1, <3>1, <3>2 DEF Less, IsStrictPrefix, IsPrefix
    <2>2. CASE k # Len(a) + 1
      <3>1. k \in DOMAIN a \cap DOMAIN b /\ a[k] < b[k]
        BY <1>1, <1>3, <2>2 DEF LessAt
      <3>2. \A j \in 1 .. k - 1 : a[j] = b[j]
        BY <1>3 DEF LessAt
      <3> QED
        BY <3>1, <3>2 DEF Less
    <2> QED
      BY <2>1, <2>2
  <1> QED
    BY <1>2, <1>3

\* No key is less than itself, ...
LEMMA LessIrreflexive ==
    ASSUME NEW a \in Seq(Int)
    PROVE  ~ Less(a, a)
  <1>1. ASSUME NEW k \in Nat \ {0}, LessAt(a, a, k) PROVE FALSE
    BY <1>1 DEF LessAt
  <1> QED
    BY <1>1, LessSomewhere

\* ... less than a less one is less, ...
LEMMA LessTransitive ==
    ASSUME NEW a \in Seq(Int), NEW b \in Seq(Int), NEW c \in Seq(Int), Less(a, b), Less(b, c)
    PROVE  Less(a, c)
  <1>1. PICK k \in Nat \ {0} : LessAt(a, b, k)
    BY LessSomewhere
  <1>2. PICK m \in Nat \ {0} : LessAt(b, c, m)
    BY LessSomewhere
  <1>3. /\ Len(a) \in Nat /\ Len(b) \in Nat /\ Len(c) \in Nat
        /\ \A j \in 1 .. Len(a) : a[j] \in Int
        /\ \A j \in 1 .. Len(b) : b[j] \in Int
        /\ \A j \in 1 .. Len(c) : c[j] \in Int
    OBVIOUS
  <1>4. CASE k < m
    <2>1. LessAt(a, c, k)
      BY <1>1, <1>2, <1>3, <1>4 DEF LessAt
    <2> QED
      BY <2>1, LessSomewhere
  <1>5. CASE k = m
    <2>1. LessAt(a, c, k)
      <3>1. k <= Len(b) /\ k <= Len(c) /\ b[k] < c[k]
        BY <1>1, <1>2, <1>3, <1>5 DEF LessAt
      <3>2. \A j \in Nat \ {0} : j < k => j <= Len(a) /\ a[j] = c[j]
        BY <1>1, <1>2, <1>3, <1>5 DEF LessAt
      <3>3. k = Len(a) + 1 \/ (k <= Len(a) /\ a[k] < c[k])
        <4>1. CASE k = Len(a) + 1
          BY <4>1
        <4>2. CASE k <= Len(a) /\ a[k] < b[k]
          <5>1. k \in 1 .. Len(a) /\ k \in 1 .. Len(b) /\ k \in 1 .. Len(c)
            BY <1>3, <3>1, <4>2
          <5>2. a[k] \in Int /\ b[k] \in Int /\ c[k] \in Int
            BY <1>3, <5>1
          <5> QED
            BY <3>1, <4>2, <5>2
        <4> QED
          BY <1>1, <4>1, <4>2 DEF LessAt
      <3> QED
        BY <3>1, <3>2, <3>3 DEF LessAt
    <2> QED
      BY <2>1, LessSomewhere
  <1>6. CASE m < k
    <2>1. LessAt(a, c, m)
      BY <1>1, <1>2, <1>3, <1>6 DEF LessAt
    <2> QED
      BY <2>1, LessSomewhere
  <1> QED
    BY <1>4, <1>5, <1>6

\* ... and of two different keys one is the lesser.
LEMMA LessTotal ==
    ASSUME NEW a \in Seq(Int), NEW b \in Seq(Int), a # b
    PROVE  Less(a, b) \/ Less(b, a)
  <1> DEFINE T == {k \in Nat : k \in 1 .. Len(a) /\ k \in 1 .. Len(b) /\ a[k] # b[k]}
  <1>1. /\ Len(a) \in Nat /\ Len(b) \in Nat
        /\ \A j \in 1 .. Len(a) : a[j] \in Int
        /\ \A j \in 1 .. Len(b) : b[j] \in Int
    OBVIOUS
  <1>2. CASE T = {}
    <2>1. \A k \in 1 .. Len(a) : k \in 1 .. Len(b) => a[k] = b[k]
      <3> SUFFICES ASSUME NEW k \in 1 .. Len(a), k \in 1 .. Len(b), a[k] # b[k] PROVE FALSE
        OBVIOUS
      <3>1. k \in T
        BY <1>1
      <3> QED
        BY <1>2, <3>1
    <2>2. Len(a) # Len(b)
      BY <2>1, SeqEqual
    <2>3. CASE Len(a) < Len(b)
      <3>1. Len(a) + 1 <= Len(b)
        BY <1>1, <2>3
      <3>2. \A j \in 1 .. Len(a) : a[j] = b[j]
        BY <1>1, <2>1, <2>3
      <3>3. LessAt(a, b, Len(a) + 1)
        BY <1>1, <3>1, <3>2 DEF LessAt
      <3> QED
        BY <1>1, <3>3, LessSomewhere
    <2>4. CASE Len(b) < Len(a)
      <3>1. Len(b) + 1 <= Len(a)
        BY <1>1, <2>4
      <3>2. \A j \in 1 .. Len(b) : b[j] = a[j]
        BY <1>1, <2>1, <2>4
      <3>3. LessAt(b, a, Len(b) + 1)
        BY <1>1, <3>1, <3>2 DEF LessAt
      <3> QED
        BY <1>1, <3>3, LessSomewhere
    <2> QED
      BY <1>1, <2>2, <2>3, <2>4
  <1>3. CASE T # {}
    <2>1. PICK k \in T : \A m \in T : k <= m
      <3> HIDE DEF T
      <3>1. T \in SUBSET Nat
        BY DEF T
      <3> QED
        BY <1>3, <3>1, Least
    <2>2. k \in Nat \ {0} /\ k <= Len(a) /\ k <= Len(b) /\ a[k] # b[k]
      BY <1>1, <2>1
    <2>3. \A j \in 1 .. k - 1 : a[j] = b[j]
      <3> SUFFICES ASSUME NEW j \in 1 .. k - 1, a[j] # b[j] PROVE FALSE
        OBVIOUS
      <3>1. j \in T
        BY <1>1, <2>2
      <3> QED
        BY <2>1, <2>2, <3>1
    <2>4. LessAt(a, b, k) \/ LessAt(b, a, k)
      BY <1>1, <2>2, <2>3 DEF LessAt
    <2> QED
      BY <2>2, <2>4, LessSomewhere
  <1> QED
    BY <1>2, <1>3

-----------------------------------------------------------------------------
\* Sorting: the place of a thing is the number of those before it.

Ahead(key, x) == {y \in DOMAIN key : Less(key[y], key[x])}

\* No two things have the same key.
Distinct(S, key) ==
    /\ key \in [S -> Seq(Int)]
    /\ \A x, y \in S : key[x] = key[y] => x = y

\* How many things are ahead of one is less than how many there are, ...
LEMMA AheadCounts ==
    ASSUME NEW S, IsFiniteSet(S), NEW key, Distinct(S, key), NEW x \in S
    PROVE  /\ IsFiniteSet(Ahead(key, x)) /\ Ahead(key, x) \subseteq S
           /\ Cardinality(Ahead(key, x)) \in 0 .. Cardinality(S) - 1
  <1>1. key[x] \in Seq(Int) /\ DOMAIN key = S
    BY DEF Distinct
  <1>2. x \notin Ahead(key, x) /\ Ahead(key, x) \subseteq S
    BY <1>1, LessIrreflexive DEF Ahead
  <1>3. IsFiniteSet(Ahead(key, x)) /\ Cardinality(Ahead(key, x)) <= Cardinality(S)
    BY <1>2, FS_Subset
  <1>4. Cardinality(Ahead(key, x)) # Cardinality(S)
    BY <1>2, FS_Subset
  <1>5. Cardinality(Ahead(key, x)) \in Nat /\ Cardinality(S) \in Nat
    BY <1>3, FS_CardinalityType
  <1> QED
    BY <1>2, <1>3, <1>4, <1>5

\* ... and grows from each thing to the ones behind it.
LEMMA AheadGrows ==
    ASSUME NEW S, IsFiniteSet(S), NEW key, Distinct(S, key), NEW x \in S, NEW y \in S,
           Less(key[x], key[y])
    PROVE  Cardinality(Ahead(key, x)) < Cardinality(Ahead(key, y))
  <1>1. DOMAIN key = S /\ \A z \in S : key[z] \in Seq(Int)
    BY DEF Distinct
  <1>2. x \in Ahead(key, y) /\ x \notin Ahead(key, x)
    BY <1>1, LessIrreflexive DEF Ahead
  <1>3. Ahead(key, x) \subseteq Ahead(key, y)
    <2> SUFFICES ASSUME NEW z \in S, Less(key[z], key[x]) PROVE Less(key[z], key[y])
      BY <1>1 DEF Ahead
    <2>1. key[x] \in Seq(Int) /\ key[y] \in Seq(Int) /\ key[z] \in Seq(Int)
      BY <1>1
    <2> QED
      BY <2>1, LessTransitive
  <1>4. IsFiniteSet(Ahead(key, y)) /\ IsFiniteSet(Ahead(key, x))
    BY AheadCounts
  <1>5. Cardinality(Ahead(key, x)) \in Nat /\ Cardinality(Ahead(key, y)) \in Nat
    BY <1>4, FS_CardinalityType
  <1>6. /\ Cardinality(Ahead(key, x)) <= Cardinality(Ahead(key, y))
        /\ Cardinality(Ahead(key, x)) # Cardinality(Ahead(key, y))
    BY <1>2, <1>3, <1>4, FS_Subset
  <1> QED
    BY <1>5, <1>6

\* Every place is taken by exactly one thing.
LEMMA Places ==
    ASSUME NEW S, IsFiniteSet(S), NEW key, Distinct(S, key)
    PROVE  /\ \A x, y \in S : Cardinality(Ahead(key, x)) = Cardinality(Ahead(key, y)) => x = y
           /\ \A k \in 0 .. Cardinality(S) - 1 : \E x \in S : Cardinality(Ahead(key, x)) = k
  <1> DEFINE n == Cardinality(S)
             place == [x \in S |-> Cardinality(Ahead(key, x))]
  <1>1. n \in Nat
    BY FS_CardinalityType
  <1>2. ASSUME NEW x \in S, NEW y \in S, Cardinality(Ahead(key, x)) = Cardinality(Ahead(key, y))
        PROVE  x = y
    <2> SUFFICES ASSUME x # y PROVE FALSE
      OBVIOUS
    <2>1. key[x] \in Seq(Int) /\ key[y] \in Seq(Int) /\ key[x] # key[y]
      BY DEF Distinct
    <2>2. Less(key[x], key[y]) \/ Less(key[y], key[x])
      BY <2>1, LessTotal
    <2>3. Cardinality(Ahead(key, x)) \in Nat /\ Cardinality(Ahead(key, y)) \in Nat
      BY AheadCounts, FS_CardinalityType
    <2>4. Cardinality(Ahead(key, x)) < Cardinality(Ahead(key, y))
          \/ Cardinality(Ahead(key, y)) < Cardinality(Ahead(key, x))
      BY <2>2, AheadGrows
    <2> QED
      BY <1>2, <2>3, <2>4
  <1>3. \A x \in S : Cardinality(Ahead(key, x)) \in 0 .. n - 1
    BY AheadCounts
  <1> HIDE DEF n
  <1>4. place \in Injection(S, 0 .. n - 1)
    BY <1>2, <1>3 DEF Injection, IsInjective
  <1>5. IsFiniteSet(0 .. n - 1) /\ Cardinality(0 .. n - 1) = n
    <2>1. Cardinality(0 .. n - 1) = IF 0 > n - 1 THEN 0 ELSE n - 1 - 0 + 1
      BY <1>1, FS_Interval
    <2> QED
      BY <1>1, <2>1, FS_Interval
  <1>6. place \in Surjection(S, 0 .. n - 1)
    BY <1>4, <1>5, FS_Injection DEF n
  <1>7. ASSUME NEW k \in 0 .. n - 1 PROVE \E x \in S : Cardinality(Ahead(key, x)) = k
    <2>1. PICK x \in S : place[x] = k
      BY <1>6 DEF Surjection
    <2> QED
      BY <2>1
  <1> QED
    BY <1>2, <1>7 DEF n

\* list has every thing once, the lesser keys first.
InOrder(list, S, key) ==
    /\ Cardinality(S) \in Nat
    /\ list \in [1 .. Cardinality(S) -> S]
    /\ \A x \in S : \E k \in 1 .. Cardinality(S) : list[k] = x
    /\ \A k, m \in 1 .. Cardinality(S) : k < m => Less(key[list[k]], key[list[m]])

\* Sorting things with different keys puts each of them in its place.
LEMMA SortedInOrder ==
    ASSUME NEW S, IsFiniteSet(S), NEW key, Distinct(S, key)
    PROVE  InOrder(Sorted(key), S, key)
  <1> DEFINE n == Cardinality(S)
             list == Sorted(key)
  <1>1. n \in Nat
    BY FS_CardinalityType
  <1>2. DOMAIN key = S
    BY DEF Distinct
  <1>3. list = [k \in 1 .. n |-> CHOOSE x \in S : Cardinality(Ahead(key, x)) = k - 1]
    BY <1>2 DEF Sorted, Ahead
  <1> HIDE DEF n, list
  <1>4. ASSUME NEW k \in 1 .. n
        PROVE  list[k] \in S /\ Cardinality(Ahead(key, list[k])) = k - 1
    <2>1. \E x \in S : Cardinality(Ahead(key, x)) = k - 1
      <3>1. k - 1 \in 0 .. n - 1
        BY <1>1
      <3> QED
        BY <3>1, Places DEF n
    <2> QED
      BY <1>3, <2>1
  <1>5. list \in [1 .. n -> S]
    <2>1. DOMAIN list = 1 .. n /\ list = [k \in 1 .. n |-> list[k]]
      BY <1>3
    <2> QED
      BY <1>4, <2>1
  <1>6. ASSUME NEW x \in S PROVE \E k \in 1 .. n : list[k] = x
    <2>1. Cardinality(Ahead(key, x)) \in 0 .. n - 1
      BY AheadCounts DEF n
    <2> DEFINE k == Cardinality(Ahead(key, x)) + 1
    <2>2. k \in 1 .. n /\ k - 1 = Cardinality(Ahead(key, x))
      BY <1>1, <2>1
    <2> HIDE DEF k
    <2>3. list[k] \in S /\ Cardinality(Ahead(key, list[k])) = Cardinality(Ahead(key, x))
      BY <1>4, <2>2
    <2>4. list[k] = x
      BY <2>3, Places
    <2> QED
      BY <2>2, <2>4
  <1>7. ASSUME NEW k \in 1 .. n, NEW m \in 1 .. n, k < m
        PROVE  Less(key[list[k]], key[list[m]])
    <2>1. /\ list[k] \in S /\ Cardinality(Ahead(key, list[k])) = k - 1
          /\ list[m] \in S /\ Cardinality(Ahead(key, list[m])) = m - 1
      BY <1>4
    <2>2. list[k] # list[m] /\ ~ (m - 1 < k - 1)
      BY <1>1, <1>7, <2>1
    <2>3. /\ key[list[k]] \in Seq(Int) /\ key[list[m]] \in Seq(Int)
          /\ key[list[k]] # key[list[m]]
      BY <2>1, <2>2 DEF Distinct
    <2>4. ~ Less(key[list[m]], key[list[k]])
      BY <2>1, <2>2, AheadGrows
    <2> QED
      BY <2>3, <2>4, LessTotal
  <1> QED
    BY <1>1, <1>5, <1>6, <1>7 DEF InOrder, n, list

\* Of two things in the list the one with the lesser key stands first.
LEMMA InOrderFirst ==
    ASSUME NEW S, NEW key, Distinct(S, key), NEW list, InOrder(list, S, key),
           NEW k \in 1 .. Cardinality(S), NEW m \in 1 .. Cardinality(S),
           Less(key[list[k]], key[list[m]])
    PROVE  k < m
  <1>1. Cardinality(S) \in Nat /\ list[k] \in S /\ list[m] \in S
    BY DEF InOrder
  <1>2. key[list[k]] \in Seq(Int) /\ key[list[m]] \in Seq(Int)
    BY <1>1 DEF Distinct
  <1>3. CASE k = m
    BY <1>2, <1>3, LessIrreflexive
  <1>4. CASE m < k
    <2>1. Less(key[list[m]], key[list[k]])
      BY <1>4 DEF InOrder
    <2>2. Less(key[list[k]], key[list[k]])
      BY <1>2, <2>1, LessTransitive
    <2> QED
      BY <1>2, <2>2, LessIrreflexive
  <1> QED
    BY <1>1, <1>3, <1>4

-----------------------------------------------------------------------------
\* Sums of integers are integers: the totals of ListProofs.
LEMMA SumIsInteger ==
    ASSUME NEW v, IsFiniteSet(DOMAIN v), \A i \in DOMAIN v : v[i] \in Int
    PROVE  SumFunction(v) \in Int
  <1> DEFINE f == CHOOSE f : Sums(f, v, SUBSET DOMAIN v)
  <1>1. Sums(f, v, SUBSET DOMAIN v)
    BY SumsExist
  <1>2. SumFunction(v) = f[DOMAIN v]
    BY DEF SumFunction, SumFunctionOnSet, FoldFunctionOnSet, MapThenFoldSet, Sums
  <1> HIDE DEF f
  <1>3. 0 \in Int /\ \A a, b \in Int : a + b \in Int
    OBVIOUS
  <1>4. f[DOMAIN v] \in Int
    BY <1>1, <1>3, SumsAreNumbers
  <1> QED
    BY <1>2, <1>4

-----------------------------------------------------------------------------
\* The routes the search finds are all there are.

\* Every lane of r starts where the one before ends, at first at the
\* origin, and leads to a node that is new.
WalkAt(p, r, k) ==
    /\ lanes[r[k]].from = IF k = 1 THEN p.from ELSE lanes[r[k - 1]].to
    /\ lanes[r[k]].to # p.from
    /\ \A j \in 1 .. k - 1 : lanes[r[k]].to # lanes[r[j]].to

Walk(p, r) == \A k \in 1 .. Len(r) : WalkAt(p, r, k)

\* r does not reach the destination before its end.
Passing(p, r) == \A k \in 1 .. Len(r) - 1 : lanes[r[k]].to # p.to

\* What the search holds after n lanes, and its next step.
Walks(p, n) == {r \in Seq(DOMAIN lanes) : Len(r) = n /\ Walk(p, r) /\ Passing(p, r)}

Step(p, P) ==
    {r \in {Append(q, l) : q \in {q \in P : q = <<>> \/ End(p, q) # p.to}, l \in DOMAIN lanes} :
        /\ lanes[Last(r)].from = End(p, Front(r))
        /\ lanes[Last(r)].to \notin Visited(p, Front(r))}

\* A sequence without its last element.
LEMMA FrontOfAppend ==
    ASSUME NEW S, NEW q \in Seq(S), NEW l \in S
    PROVE  Front(Append(q, l)) = q /\ Last(Append(q, l)) = l
  <1> DEFINE r == Append(q, l)
  <1>1. /\ r \in Seq(S) /\ Len(r) = Len(q) + 1 /\ r[Len(q) + 1] = l
        /\ \A i \in 1 .. Len(q) : r[i] = q[i]
    BY AppendProperties
  <1> HIDE DEF r
  <1>2. Len(q) \in Nat /\ Len(r) - 1 = Len(q) /\ \A i \in 1 .. Len(q) : r[i] \in S
    BY <1>1, ElementOfSeq
  <1>3. Front(r) = SubSeq(r, 1, Len(q))
    BY <1>2 DEF Front
  <1>4. /\ SubSeq(r, 1, Len(q)) \in Seq(S)
        /\ Len(SubSeq(r, 1, Len(q))) = Len(q)
        /\ \A i \in 1 .. Len(q) : SubSeq(r, 1, Len(q))[i] = q[i]
    <2>1. /\ SubSeq(r, 1, Len(q)) \in Seq(S)
          /\ Len(SubSeq(r, 1, Len(q))) = IF 1 <= Len(q) THEN Len(q) - 1 + 1 ELSE 0
          /\ \A i \in 1 .. Len(q) - 1 + 1 : SubSeq(r, 1, Len(q))[i] = r[1 + i - 1]
      BY <1>2, SubSeqProperties
    <2>2. Len(SubSeq(r, 1, Len(q))) = Len(q)
      BY <1>2, <2>1
    <2>3. ASSUME NEW i \in 1 .. Len(q) PROVE SubSeq(r, 1, Len(q))[i] = q[i]
      <3>1. i \in 1 .. Len(q) - 1 + 1 /\ 1 + i - 1 = i
        BY <1>2
      <3> QED
        BY <1>1, <2>1, <3>1
    <2> QED
      BY <2>1, <2>2, <2>3
  <1>5. SubSeq(r, 1, Len(q)) = q
    BY <1>4, SeqEqual
  <1>6. Last(r) = l
    BY <1>1 DEF Last
  <1> QED
    BY <1>3, <1>5, <1>6 DEF r

\* A walk that is one lane longer.
LEMMA WalkGrows ==
    ASSUME NEW p, NEW q \in Seq(DOMAIN lanes), NEW l \in DOMAIN lanes
    PROVE  /\ Walk(p, Append(q, l)) <=> /\ Walk(p, q)
                                        /\ lanes[l].from = End(p, q)
                                        /\ lanes[l].to \notin Visited(p, q)
           /\ Passing(p, Append(q, l)) <=> Passing(p, q) /\ (q = <<>> \/ End(p, q) # p.to)
  <1> DEFINE r == Append(q, l)
             n == Len(q)
  <1>1. /\ n \in Nat /\ r \in Seq(DOMAIN lanes) /\ Len(r) = n + 1 /\ r[n + 1] = l
        /\ \A i \in 1 .. n : r[i] = q[i]
    BY AppendProperties
  <1>2. q = <<>> <=> n = 0
    BY EmptySeq
  <1>3. Visited(p, q) = {p.from} \cup {lanes[q[j]].to : j \in 1 .. n}
    BY DEF Visited, ToSet
  <1>4. End(p, q) = IF n = 0 THEN p.from ELSE lanes[q[n]].to
    BY <1>2 DEF End, Last
  <1> HIDE DEF r, n
  <1>5. \A k \in 1 .. n : WalkAt(p, r, k) <=> WalkAt(p, q, k)
    <2> SUFFICES ASSUME NEW k \in 1 .. n PROVE WalkAt(p, r, k) <=> WalkAt(p, q, k)
      OBVIOUS
    <2>1. r[k] = q[k] /\ (k # 1 => r[k - 1] = q[k - 1])
      BY <1>1
    <2>2. \A j \in 1 .. k - 1 : r[j] = q[j]
      BY <1>1
    <2> QED
      BY <2>1, <2>2 DEF WalkAt
  <1>6. WalkAt(p, r, n + 1) <=> /\ lanes[l].from = End(p, q)
                                /\ lanes[l].to \notin Visited(p, q)
    <2>1. n + 1 - 1 = n /\ (n + 1 = 1 <=> n = 0) /\ (n # 0 => r[n] = q[n])
      BY <1>1
    <2>2. WalkAt(p, r, n + 1) <=> /\ lanes[l].from = IF n = 0 THEN p.from ELSE lanes[r[n]].to
                                  /\ lanes[l].to # p.from
                                  /\ \A j \in 1 .. n : lanes[l].to # lanes[r[j]].to
      BY <1>1, <2>1 DEF WalkAt
    <2>3. (\A j \in 1 .. n : lanes[l].to # lanes[r[j]].to)
          <=> (\A j \in 1 .. n : lanes[l].to # lanes[q[j]].to)
      BY <1>1
    <2> QED
      BY <1>3, <1>4, <2>1, <2>2, <2>3
  <1>7. Walk(p, r) <=> Walk(p, q) /\ WalkAt(p, r, n + 1)
    <2>1. \A k \in 1 .. n + 1 : k \in 1 .. n \/ k = n + 1
      BY <1>1
    <2>2. (1 .. n) \subseteq (1 .. n + 1) /\ n + 1 \in 1 .. n + 1
      BY <1>1
    <2>3. Walk(p, r) <=> \A k \in 1 .. n + 1 : WalkAt(p, r, k)
      BY <1>1 DEF Walk
    <2>4. Walk(p, q) <=> \A k \in 1 .. n : WalkAt(p, q, k)
      BY DEF Walk, n
    <2> QED
      BY <1>5, <2>1, <2>2, <2>3, <2>4
  <1>8. Passing(p, r) <=> \A k \in 1 .. n : lanes[q[k]].to # p.to
    <2>1. Len(r) - 1 = n
      BY <1>1
    <2> QED
      BY <1>1, <2>1 DEF Passing
  <1>9. (\A k \in 1 .. n : lanes[q[k]].to # p.to)
        <=> Passing(p, q) /\ (q = <<>> \/ End(p, q) # p.to)
    <2>1. CASE n = 0
      <3>1. 1 .. n = {} /\ 1 .. n - 1 = {} /\ q = <<>>
        BY <1>2, <2>1
      <3> QED
        BY <3>1 DEF Passing, n
    <2>2. CASE n # 0
      <3>1. \A k \in 1 .. n : k \in 1 .. n - 1 \/ k = n
        BY <1>1
      <3>2. (1 .. n - 1) \subseteq 1 .. n /\ n \in 1 .. n
        BY <1>1, <2>2
      <3>3. Passing(p, q) <=> \A k \in 1 .. n - 1 : lanes[q[k]].to # p.to
        BY DEF Passing, n
      <3> QED
        BY <1>2, <1>4, <2>2, <3>1, <3>2, <3>3
    <2> QED
      BY <2>1, <2>2
  <1> QED
    BY <1>6, <1>7, <1>8, <1>9 DEF r

\* The steps lead from the walks of one length to those of the next, ...
LEMMA StepWalks ==
    ASSUME NEW p, NEW n \in Nat
    PROVE  Step(p, Walks(p, n)) = Walks(p, n + 1)
  <1>1. ASSUME NEW r \in Step(p, Walks(p, n)) PROVE r \in Walks(p, n + 1)
    <2>1. PICK q \in Walks(p, n), l \in DOMAIN lanes :
              r = Append(q, l) /\ (q = <<>> \/ End(p, q) # p.to)
      BY DEF Step
    <2>2. q \in Seq(DOMAIN lanes) /\ Len(q) = n /\ Walk(p, q) /\ Passing(p, q)
      BY DEF Walks
    <2>3. lanes[l].from = End(p, q) /\ lanes[l].to \notin Visited(p, q)
      BY <2>1, <2>2, FrontOfAppend DEF Step
    <2>4. r \in Seq(DOMAIN lanes) /\ Len(r) = n + 1
      BY <2>1, <2>2, AppendProperties
    <2>5. Walk(p, r) /\ Passing(p, r)
      BY <2>1, <2>2, <2>3, WalkGrows
    <2> QED
      BY <2>4, <2>5 DEF Walks
  <1>2. ASSUME NEW r \in Walks(p, n + 1) PROVE r \in Step(p, Walks(p, n))
    <2>1. r \in Seq(DOMAIN lanes) /\ Len(r) = n + 1 /\ Walk(p, r) /\ Passing(p, r)
      BY DEF Walks
    <2>2. PICK q \in Seq(DOMAIN lanes), l \in DOMAIN lanes : r = Append(q, l)
      <3>1. r # <<>>
        BY <2>1, EmptySeq
      <3> QED
        BY <2>1, <3>1, SequenceEmptyOrAppend
    <2>3. Len(q) = n
      <3>1. Len(r) = Len(q) + 1 /\ Len(q) \in Nat
        BY <2>2, AppendProperties
      <3> QED
        BY <2>1, <3>1
    <2>4. /\ Walk(p, q) /\ lanes[l].from = End(p, q) /\ lanes[l].to \notin Visited(p, q)
          /\ Passing(p, q) /\ (q = <<>> \/ End(p, q) # p.to)
      BY <2>1, <2>2, WalkGrows
    <2>5. q \in Walks(p, n)
      BY <2>3, <2>4 DEF Walks
    <2>6. Front(r) = q /\ Last(r) = l
      BY <2>2, FrontOfAppend
    <2> QED
      BY <2>2, <2>4, <2>5, <2>6 DEF Step
  <1> QED
    BY <1>1, <1>2

\* ... from the one of no lane, ...
LEMMA NoWalk ==
    ASSUME NEW p
    PROVE  Walks(p, 0) = {<<>>}
  <1>1. \A r \in Seq(DOMAIN lanes) : Len(r) = 0 <=> r = <<>>
    BY EmptySeq
  <1>2. Walk(p, <<>>) /\ Passing(p, <<>>) /\ <<>> \in Seq(DOMAIN lanes)
    BY EmptySeq DEF Walk, Passing
  <1> QED
    BY <1>1, <1>2 DEF Walks

\* f is the recursive function of the search.
Search(f, p) == f = [n \in 0 .. MaxHops |-> IF n = 0 THEN {<<>>} ELSE Step(p, f[n - 1])]

\* ... so the table of the search holds the walks of each length, ...
LEMMA SearchWalks ==
    ASSUME NEW p, NEW f, Search(f, p)
    PROVE  \A n \in 0 .. MaxHops : f[n] = Walks(p, n)
  <1> DEFINE Body(n) == IF n = 0 THEN {<<>>} ELSE Step(p, f[n - 1])
  <1>1. \A n \in 0 .. MaxHops : f[n] = Body(n)
    <2>1. f = [n \in 0 .. MaxHops |-> Body(n)]
      BY DEF Search
    <2> HIDE DEF Body
    <2> QED
      BY <2>1
  <1>2. MaxHops \in Nat
    BY DEF MaxHops
  <1> DEFINE T == {n \in Nat : n <= MaxHops => f[n] = Walks(p, n)}
  <1>3. 0 \in T
    <2>1. 0 \in 0 .. MaxHops
      BY <1>2
    <2> QED
      BY <1>1, <2>1, NoWalk
  <1>4. ASSUME NEW n \in Nat, n \in T PROVE n + 1 \in T
    <2> SUFFICES ASSUME n + 1 <= MaxHops PROVE f[n + 1] = Walks(p, n + 1)
      OBVIOUS
    <2>1. n <= MaxHops /\ n + 1 \in 0 .. MaxHops /\ n + 1 # 0 /\ n + 1 - 1 = n
      BY <1>2
    <2>2. f[n + 1] = Step(p, f[n])
      BY <1>1, <2>1
    <2>3. f[n] = Walks(p, n)
      BY <1>4, <2>1
    <2> QED
      BY <2>2, <2>3, StepWalks
  <1> HIDE DEF T
  <1>5. Nat \subseteq T
    BY <1>3, <1>4, SetInduction
  <1> QED
    BY <1>2, <1>5 DEF T

\* ... there is one, ...
LEMMA SearchExists ==
    ASSUME NEW p
    PROVE  \E f : Search(f, p)
  <1> DEFINE f == [n \in 0 .. MaxHops |-> Walks(p, n)]
             Body(n) == IF n = 0 THEN {<<>>} ELSE Step(p, f[n - 1])
  <1>1. MaxHops \in Nat
    BY DEF MaxHops
  <1>2. ASSUME NEW n \in 0 .. MaxHops PROVE Walks(p, n) = Body(n)
    <2>1. CASE n = 0
      BY <2>1, NoWalk
    <2>2. CASE n # 0
      <3>1. n - 1 \in Nat /\ n - 1 + 1 = n /\ n - 1 \in 0 .. MaxHops
        BY <1>1, <2>2
      <3>2. Step(p, Walks(p, n - 1)) = Walks(p, n)
        BY <3>1, StepWalks
      <3> QED
        BY <2>2, <3>1, <3>2
    <2> QED
      BY <2>1, <2>2
  <1> HIDE DEF Body
  <1>3. f = [n \in 0 .. MaxHops |-> Body(n)]
    BY <1>2
  <1> QED
    BY <1>3 DEF Search, Body

\* ... and what it collects are the walks.
LEMMA PathsAreWalks ==
    ASSUME NEW p
    PROVE  Paths(p) = UNION {Walks(p, n) : n \in 1 .. MaxHops}
  <1> DEFINE f == CHOOSE f : Search(f, p)
  <1>1. Search(f, p)
    BY SearchExists
  <1>2. Paths(p) = UNION {f[n] : n \in 1 .. MaxHops}
    BY DEF Paths, Search, Step
  <1> HIDE DEF f
  <1>3. \A n \in 1 .. MaxHops : f[n] = Walks(p, n)
    <2>1. \A n \in 1 .. MaxHops : n \in 0 .. MaxHops
      BY DEF MaxHops
    <2> QED
      BY <1>1, <2>1, SearchWalks
  <1> QED
    BY <1>2, <1>3

\* A way to travel, whoever finds it.
Way(p, r) ==
    /\ r \in Seq(DOMAIN lanes) /\ Len(r) \in 1 .. MaxHops
    /\ Walk(p, r)
    /\ lanes[r[Len(r)]].to = p.to

\* The routes the search finds are the ways to the destination, ...
LEMMA RoutesAreWays ==
    ASSUME NEW p
    PROVE  /\ \A r \in RoutesOf(p) : Way(p, r)
           /\ \A r : Way(p, r) => r \in RoutesOf(p)
  <1>1. ASSUME NEW r \in Seq(DOMAIN lanes), r # <<>> PROVE End(p, r) = lanes[r[Len(r)]].to
    BY <1>1 DEF End, Last
  <1>2. ASSUME NEW r \in RoutesOf(p) PROVE Way(p, r)
    <2>1. End(p, r) = p.to /\ \E n \in 1 .. MaxHops : r \in Walks(p, n)
      BY PathsAreWalks DEF RoutesOf
    <2>2. PICK n \in 1 .. MaxHops : r \in Walks(p, n)
      BY <2>1
    <2>3. r \in Seq(DOMAIN lanes) /\ Len(r) = n /\ Walk(p, r)
      BY <2>2 DEF Walks
    <2>4. r # <<>>
      BY <2>3, EmptySeq DEF MaxHops
    <2> QED
      BY <1>1, <2>1, <2>3, <2>4 DEF Way
  <1>3. ASSUME NEW r, Way(p, r) PROVE r \in RoutesOf(p)
    <2>1. /\ r \in Seq(DOMAIN lanes) /\ Len(r) \in 1 .. MaxHops /\ Walk(p, r)
          /\ lanes[r[Len(r)]].to = p.to
      BY <1>3 DEF Way
    <2>2. Len(r) \in Nat /\ Len(r) \in 1 .. Len(r) /\ r # <<>>
      <3>1. Len(r) \in Nat /\ Len(r) >= 1
        BY <2>1 DEF MaxHops
      <3> QED
        BY <3>1, EmptySeq
    <2>3. Passing(p, r)
      <3> SUFFICES ASSUME NEW k \in 1 .. Len(r) - 1 PROVE lanes[r[k]].to # p.to
        BY DEF Passing
      <3>1. WalkAt(p, r, Len(r))
        BY <2>1, <2>2 DEF Walk
      <3> QED
        BY <2>1, <3>1 DEF WalkAt
    <2>4. r \in Walks(p, Len(r))
      BY <2>1, <2>3 DEF Walks
    <2>5. r \in Paths(p)
      BY <2>1, <2>4, PathsAreWalks
    <2>6. End(p, r) = p.to
      BY <1>1, <2>1, <2>2
    <2> QED
      BY <2>5, <2>6 DEF RoutesOf
  <1> QED
    BY <1>2, <1>3

\* ... and so are those that are meant to be found.
LEMMA AllRoutesAreWays ==
    ASSUME NEW p
    PROVE  /\ \A r \in AllRoutes(p) : Way(p, r)
           /\ \A r : Way(p, r) => r \in AllRoutes(p)
  <1>1. ASSUME NEW r, NEW n \in 1 .. MaxHops, r \in [1 .. n -> DOMAIN lanes]
        PROVE  r \in Seq(DOMAIN lanes) /\ Len(r) = n /\ DOMAIN r = 1 .. n /\ n \in Nat
    <2>1. n \in Nat
      BY DEF MaxHops
    <2>2. r \in Seq(DOMAIN lanes)
      BY <1>1, <2>1, SeqDef
    <2>3. DOMAIN r = 1 .. Len(r) /\ Len(r) \in Nat /\ DOMAIN r = 1 .. n
      BY <1>1, <2>2, LenProperties
    <2>4. Len(r) = n
      BY <2>1, <2>3, SameInterval
    <2> QED
      BY <2>1, <2>2, <2>3, <2>4
  <1> DEFINE Legs(r) ==
                 /\ lanes[r[1]].from = p.from
                 /\ \A k \in 2 .. Len(r) : lanes[r[k]].from = lanes[r[k - 1]].to
                 /\ lanes[r[Len(r)]].to = p.to
                 /\ \A k \in DOMAIN r :
                       lanes[r[k]].to \notin {p.from} \cup {lanes[r[j]].to : j \in 1 .. k - 1}
  <1>2. ASSUME NEW r \in Seq(DOMAIN lanes), Len(r) \in 1 .. MaxHops
        PROVE  Legs(r) <=> Walk(p, r) /\ lanes[r[Len(r)]].to = p.to
    <2>1. DOMAIN r = 1 .. Len(r) /\ Len(r) \in Nat /\ Len(r) >= 1
      BY <1>2, LenProperties DEF MaxHops
    <2>2. ASSUME NEW k \in 1 .. Len(r)
          PROVE  WalkAt(p, r, k) <=>
                    /\ lanes[r[k]].from = IF k = 1 THEN p.from ELSE lanes[r[k - 1]].to
                    /\ lanes[r[k]].to \notin {p.from} \cup {lanes[r[j]].to : j \in 1 .. k - 1}
      BY DEF WalkAt
    <2>3. 1 \in 1 .. Len(r) /\ \A k \in 1 .. Len(r) : k = 1 \/ k \in 2 .. Len(r)
      BY <2>1
    <2>4. \A k \in 2 .. Len(r) : k \in 1 .. Len(r) /\ k # 1
      BY <2>1
    <2>5. Walk(p, r) <=>
             /\ \A k \in 1 .. Len(r) :
                   lanes[r[k]].from = IF k = 1 THEN p.from ELSE lanes[r[k - 1]].to
             /\ \A k \in 1 .. Len(r) :
                   lanes[r[k]].to \notin {p.from} \cup {lanes[r[j]].to : j \in 1 .. k - 1}
      BY <2>2, Zenon DEF Walk
    <2>6. (\A k \in 1 .. Len(r) :
              lanes[r[k]].from = IF k = 1 THEN p.from ELSE lanes[r[k - 1]].to)
          <=> /\ lanes[r[1]].from = p.from
              /\ \A k \in 2 .. Len(r) : lanes[r[k]].from = lanes[r[k - 1]].to
      BY <2>3, <2>4
    <2> QED
      BY <2>1, <2>5, <2>6
  <1>3. \A r : r \in AllRoutes(p) <=>
                  (\E n \in 1 .. MaxHops : r \in [1 .. n -> DOMAIN lanes]) /\ Legs(r)
    BY DEF AllRoutes, Last
  <1> HIDE DEF Legs
  <1>4. ASSUME NEW r \in AllRoutes(p) PROVE Way(p, r)
    BY <1>1, <1>2, <1>3 DEF Way
  <1>5. ASSUME NEW r, Way(p, r) PROVE r \in AllRoutes(p)
    <2>1. r \in Seq(DOMAIN lanes) /\ Len(r) \in 1 .. MaxHops
      BY <1>5 DEF Way
    <2>2. r \in [1 .. Len(r) -> DOMAIN lanes]
      BY <2>1, LenProperties
    <2>3. Legs(r)
      BY <1>2, <1>5, <2>1 DEF Way
    <2> QED
      BY <1>3, <2>1, <2>2, <2>3
  <1> QED
    BY <1>4, <1>5

\* The search over the lanes finds every way to travel in at most MaxHops
\* lanes that enters no node twice, and nothing else
\* (dispatch_planner.py:151-172).
THEOREM SearchIsComplete ==
    ASSUME NEW p
    PROVE  RoutesOf(p) = AllRoutes(p)
  BY RoutesAreWays, AllRoutesAreWays

-----------------------------------------------------------------------------
\* The routes that are kept.

PackagesRead ==
    /\ packages \in Seq(ToSet(packages))
    /\ \A p \in ToSet(packages) : {p.id, p.due, p.margin} \subseteq Int

LanesRead ==
    /\ lanes \in Seq(ToSet(lanes))
    /\ \A l \in ToSet(lanes) : {l.id, l.capacity, l.eta, l.cost} \subseteq Int

\* The lanes as a list of rows of numbers, ...
LEMMA LaneRows ==
    ASSUME LanesRead
    PROVE  /\ Len(lanes) \in Nat /\ DOMAIN lanes = 1 .. Len(lanes) /\ IsFiniteSet(DOMAIN lanes)
           /\ \A l \in DOMAIN lanes : /\ lanes[l].id \in Int /\ lanes[l].capacity \in Int
                                      /\ lanes[l].eta \in Int /\ lanes[l].cost \in Int
  <1>1. Len(lanes) \in Nat /\ DOMAIN lanes = 1 .. Len(lanes)
    BY LenProperties DEF LanesRead
  <1>2. \A l \in DOMAIN lanes : lanes[l] \in ToSet(lanes)
    BY DEF ToSet
  <1>3. IsFiniteSet(1 .. Len(lanes))
    BY <1>1, FS_Interval
  <1> QED
    BY <1>1, <1>2, <1>3 DEF LanesRead

\* ... and the packages.
LEMMA PackageRows ==
    ASSUME PackagesRead
    PROVE  /\ Len(packages) \in Nat /\ DOMAIN packages = 1 .. Len(packages)
           /\ IsFiniteSet(DOMAIN packages)
           /\ \A i \in DOMAIN packages : /\ packages[i].id \in Int /\ packages[i].due \in Int
                                         /\ packages[i].margin \in Int
  <1>1. Len(packages) \in Nat /\ DOMAIN packages = 1 .. Len(packages)
    BY LenProperties DEF PackagesRead
  <1>2. \A i \in DOMAIN packages : packages[i] \in ToSet(packages)
    BY DEF ToSet
  <1>3. IsFiniteSet(1 .. Len(packages))
    BY <1>1, FS_Interval
  <1> QED
    BY <1>1, <1>2, <1>3 DEF PackagesRead

\* The totals of a route are numbers.
LEMMA RouteTotals ==
    ASSUME LanesRead, NEW r \in Seq(DOMAIN lanes)
    PROVE  Eta(r) \in Int /\ Cost(r) \in Int
  <1>1. DOMAIN r = 1 .. Len(r) /\ Len(r) \in Nat /\ \A k \in DOMAIN r : r[k] \in DOMAIN lanes
    BY LenProperties, ElementOfSeq
  <1>2. IsFiniteSet(DOMAIN r)
    BY <1>1, FS_Interval
  <1> DEFINE eta == [k \in DOMAIN r |-> lanes[r[k]].eta]
             cost == [k \in DOMAIN r |-> lanes[r[k]].cost]
  <1>3. IsFiniteSet(DOMAIN eta) /\ \A k \in DOMAIN eta : eta[k] \in Int
    BY <1>1, <1>2, LaneRows
  <1>4. IsFiniteSet(DOMAIN cost) /\ \A k \in DOMAIN cost : cost[k] \in Int
    BY <1>1, <1>2, LaneRows
  <1> HIDE DEF eta, cost
  <1>5. SumFunction(eta) \in Int /\ SumFunction(cost) \in Int
    BY <1>3, <1>4, SumIsInteger
  <1> QED
    BY <1>5 DEF Eta, Cost, eta, cost

\* Routes are told apart by their keys.
LEMMA RouteKeys ==
    ASSUME LanesRead, NEW p, p.due \in Int,
           NEW r \in Seq(DOMAIN lanes), NEW s \in Seq(DOMAIN lanes)
    PROVE  /\ RouteKey(p, r) \in Seq(Int)
           /\ RouteKey(p, r) = RouteKey(p, s) => r = s
  <1> DEFINE head(q) == <<Lateness(p, Eta(q)), Cost(q), Eta(q), Len(q)>>
  <1>1. \A q \in Seq(DOMAIN lanes) : q \in Seq(Int)
    <2>1. DOMAIN lanes \subseteq Int
      BY LaneRows
    <2> QED
      BY <2>1, SeqMonotonic
  <1>2. ASSUME NEW q \in Seq(DOMAIN lanes) PROVE head(q) \in Seq(Int) /\ Len(head(q)) = 4
    <2>1. Eta(q) \in Int /\ Cost(q) \in Int /\ Len(q) \in Int
      BY RouteTotals, LenProperties
    <2>2. Lateness(p, Eta(q)) \in Int
      BY <2>1 DEF Lateness
    <2> QED
      BY <2>1, <2>2
  <1> HIDE DEF head
  <1>3. \A q \in Seq(DOMAIN lanes) : RouteKey(p, q) = head(q) \o q
    BY DEF RouteKey, head
  <1>4. ASSUME NEW q \in Seq(DOMAIN lanes)
        PROVE  /\ RouteKey(p, q) \in Seq(Int)
               /\ Len(RouteKey(p, q)) = 4 + Len(q)
               /\ \A i \in 1 .. 4 + Len(q) :
                     RouteKey(p, q)[i] = IF i <= 4 THEN head(q)[i] ELSE q[i - 4]
    <2>1. head(q) \in Seq(Int) /\ q \in Seq(Int) /\ Len(head(q)) = 4
      BY <1>1, <1>2
    <2>2. /\ head(q) \o q \in Seq(Int)
          /\ Len(head(q) \o q) = Len(head(q)) + Len(q)
          /\ \A i \in 1 .. Len(head(q)) + Len(q) : (head(q) \o q)[i] =
                IF i <= Len(head(q)) THEN head(q)[i] ELSE q[i - Len(head(q))]
      BY <2>1, ConcatProperties
    <2>3. RouteKey(p, q) = head(q) \o q
      BY <1>3
    <2> QED
      BY <2>1, <2>2, <2>3
  <1>5. ASSUME RouteKey(p, r) = RouteKey(p, s) PROVE r = s
    <2>1. Len(r) \in Nat /\ Len(s) \in Nat
      BY LenProperties
    <2>2. Len(r) = Len(s)
      <3>1. 4 + Len(r) = 4 + Len(s)
        BY <1>4, <1>5
      <3> QED
        BY <2>1, <3>1
    <2>3. ASSUME NEW i \in 1 .. Len(r) PROVE r[i] = s[i]
      <3>1. PICK j \in 1 .. 4 + Len(r) : j = i + 4
        BY <2>1
      <3>2. RouteKey(p, r)[j] = IF j <= 4 THEN head(r)[j] ELSE r[j - 4]
        BY <1>4
      <3>3. RouteKey(p, s)[j] = IF j <= 4 THEN head(s)[j] ELSE s[j - 4]
        BY <1>4, <2>2
      <3>4. ~ (j <= 4) /\ j - 4 = i
        BY <2>1, <3>1
      <3> QED
        BY <1>5, <3>2, <3>3, <3>4
    <2> QED
      BY <2>2, <2>3, SeqEqual
  <1> QED
    BY <1>4, <1>5

\* There are finitely many routes.
LEMMA RoutesFinite ==
    ASSUME LanesRead, NEW p
    PROVE  IsFiniteSet(RoutesOf(p))
  <1> DEFINE R == RoutesOf(p)
             T == SUBSET ((1 .. MaxHops) \X DOMAIN lanes)
             f == [r \in R |-> {<<k, r[k]>> : k \in 1 .. Len(r)}]
  <1>1. ASSUME NEW r \in R
        PROVE  /\ r \in Seq(DOMAIN lanes) /\ Len(r) \in Nat /\ Len(r) <= MaxHops
               /\ \A k \in 1 .. Len(r) : r[k] \in DOMAIN lanes
    <2>1. r \in Seq(DOMAIN lanes) /\ Len(r) \in 1 .. MaxHops
      BY RoutesAreWays DEF Way
    <2>2. \A k \in 1 .. Len(r) : r[k] \in DOMAIN lanes
      BY <2>1, ElementOfSeq
    <2> QED
      BY <2>1, <2>2 DEF MaxHops
  <1> HIDE DEF R
  <1>2. ASSUME NEW r \in R PROVE f[r] \in T
    BY <1>1 DEF MaxHops
  <1>3. ASSUME NEW r \in R, NEW s \in R, f[r] = f[s] PROVE r = s
    <2>1. \A k \in 1 .. Len(r) : \E m \in 1 .. Len(s) : <<k, r[k]>> = <<m, s[m]>>
      <3>1. f[r] = {<<k, r[k]>> : k \in 1 .. Len(r)}
        OBVIOUS
      <3>2. f[s] = {<<k, s[k]>> : k \in 1 .. Len(s)}
        OBVIOUS
      <3> HIDE DEF f
      <3> QED
        BY <1>3, <3>1, <3>2
    <2>2. \A k \in 1 .. Len(s) : \E m \in 1 .. Len(r) : <<k, s[k]>> = <<m, r[m]>>
      <3>1. f[r] = {<<k, r[k]>> : k \in 1 .. Len(r)}
        OBVIOUS
      <3>2. f[s] = {<<k, s[k]>> : k \in 1 .. Len(s)}
        OBVIOUS
      <3> HIDE DEF f
      <3> QED
        BY <1>3, <3>1, <3>2
    <2>3. /\ \A k \in 1 .. Len(r) : k \in 1 .. Len(s) /\ r[k] = s[k]
          /\ \A k \in 1 .. Len(s) : k \in 1 .. Len(r)
      BY <2>1, <2>2
    <2>4. Len(r) \in Nat /\ Len(s) \in Nat
      BY <1>1
    <2>5. Len(r) = Len(s)
      <3>1. \A m, n \in Nat : (\A k \in 1 .. m : k \in 1 .. n) => m <= n
        <4> SUFFICES ASSUME NEW m \in Nat, NEW n \in Nat, \A k \in 1 .. m : k \in 1 .. n
                     PROVE  m <= n
          OBVIOUS
        <4>1. m = 0 \/ m \in 1 .. m
          OBVIOUS
        <4> QED
          BY <4>1
      <3>2. Len(r) <= Len(s) /\ Len(s) <= Len(r)
        BY <2>3, <2>4, <3>1
      <3> QED
        BY <2>4, <3>2
    <2> QED
      BY <1>1, <2>3, <2>5, SeqEqual
  <1>4. f \in Injection(R, T)
    <2> HIDE DEF T
    <2>1. f \in [R -> T]
      BY <1>2
    <2>2. DOMAIN f = R
      OBVIOUS
    <2> HIDE DEF f
    <2> QED
      BY <1>3, <2>1, <2>2 DEF Injection, IsInjective
  <1>5. IsFiniteSet(T)
    <2>1. IsFiniteSet(1 .. MaxHops) /\ IsFiniteSet(DOMAIN lanes)
      <3>1. MaxHops \in Int /\ 1 \in Int
        BY DEF MaxHops
      <3> QED
        BY <3>1, LaneRows, FS_Interval
    <2>2. IsFiniteSet((1 .. MaxHops) \X DOMAIN lanes)
      BY <2>1, FS_Product
    <2> QED
      BY <2>2, FS_SUBSET
  <1> HIDE DEF T, f
  <1>6. IsFiniteSet(R)
    BY <1>4, <1>5, FS_Injection
  <1> QED
    BY <1>6 DEF R

\* Of the routes with the same lane ids the best.
Kinds(p) ==
    {r \in RoutesOf(p) : ~ \E s \in RoutesOf(p) :
        LaneIds(s) = LaneIds(r) /\ Less(RouteKey(p, s), RouteKey(p, r))}

KeyOf(p, R) == [r \in R |-> RouteKey(p, r)]

\* So any routes can be sorted.
LEMMA KeysDistinct ==
    ASSUME LanesRead, NEW p, p.due \in Int, NEW R \in SUBSET RoutesOf(p)
    PROVE  /\ IsFiniteSet(R) /\ Distinct(R, KeyOf(p, R))
           /\ InOrder(Sorted(KeyOf(p, R)), R, KeyOf(p, R))
  <1>1. IsFiniteSet(R)
    BY RoutesFinite, FS_Subset
  <1>2. \A r \in R : r \in Seq(DOMAIN lanes)
    BY RoutesAreWays DEF Way
  <1>3. Distinct(R, KeyOf(p, R))
    BY <1>2, RouteKeys DEF Distinct, KeyOf
  <1> QED
    BY <1>1, <1>3, SortedInOrder

\* The candidates are the first of the kinds.
LEMMA CandidatesAre ==
    ASSUME NEW p
    PROVE  LET list == Sorted(KeyOf(p, Kinds(p)))
           IN  Candidates(p) = [k \in {k \in DOMAIN list : k <= MaxRoutes} |-> list[k]]
  BY DEF Candidates, Kinds, KeyOf

\* The candidates are routes, as many as there are or as may be kept.
LEMMA CandidatesType ==
    ASSUME LanesRead, NEW p, p.due \in Int
    PROVE  \E n \in 0 .. MaxRoutes :
              /\ Candidates(p) \in [1 .. n -> RoutesOf(p)]
              /\ Cardinality(Kinds(p)) \in Nat
              /\ Cardinality(Kinds(p)) <= MaxRoutes => n = Cardinality(Kinds(p))
              /\ Cardinality(Kinds(p)) > MaxRoutes => n = MaxRoutes
  <1> DEFINE K == Kinds(p)
             m == Cardinality(K)
             list == Sorted(KeyOf(p, K))
             n == IF m <= MaxRoutes THEN m ELSE MaxRoutes
  <1>1. K \subseteq RoutesOf(p)
    BY DEF Kinds
  <1>2. m \in Nat /\ list \in [1 .. m -> K]
    BY <1>1, KeysDistinct DEF InOrder
  <1>3. Candidates(p) = [k \in {k \in DOMAIN list : k <= MaxRoutes} |-> list[k]]
    BY CandidatesAre
  <1> HIDE DEF K, m, list
  <1>4. n \in 0 .. MaxRoutes
    BY <1>2 DEF MaxRoutes
  <1>5. {k \in DOMAIN list : k <= MaxRoutes} = 1 .. n
    BY <1>2 DEF MaxRoutes
  <1>6. \A k \in 1 .. n : list[k] \in RoutesOf(p)
    BY <1>1, <1>2, <1>4 DEF MaxRoutes
  <1>7. Candidates(p) \in [1 .. n -> RoutesOf(p)]
    <2> HIDE DEF n
    <2> QED
      BY <1>3, <1>5, <1>6
  <1>8. (m <= MaxRoutes => n = m) /\ (m > MaxRoutes => n = MaxRoutes)
    BY <1>2 DEF MaxRoutes
  <1> HIDE DEF n
  <1> QED
    BY <1>2, <1>4, <1>7, <1>8 DEF K, m

\* A package that can travel keeps a route.
LEMMA SomeKind ==
    ASSUME LanesRead, NEW p, p.due \in Int, RoutesOf(p) # {}
    PROVE  Kinds(p) # {} /\ Cardinality(Kinds(p)) >= 1
  <1> DEFINE R == RoutesOf(p)
             key == KeyOf(p, R)
             list == Sorted(key)
  <1>1. IsFiniteSet(R) /\ Distinct(R, key) /\ InOrder(list, R, key)
    BY KeysDistinct
  <1>2. \A r \in R : key[r] = RouteKey(p, r)
    BY DEF KeyOf
  <1> HIDE DEF R, key, list
  <1>3. Cardinality(R) \in Nat /\ Cardinality(R) # 0
    BY <1>1, FS_EmptySet, FS_CardinalityType DEF R
  <1>4. 1 \in 1 .. Cardinality(R)
    BY <1>3
  <1>5. list[1] \in R
    BY <1>1, <1>4 DEF InOrder
  <1>6. ASSUME NEW s \in R, Less(key[s], key[list[1]]) PROVE FALSE
    <2>1. PICK k \in 1 .. Cardinality(R) : list[k] = s
      BY <1>1 DEF InOrder
    <2>2. k < 1
      BY <1>1, <1>4, <1>6, <2>1, InOrderFirst
    <2> QED
      BY <1>3, <2>2
  <1>7. list[1] \in Kinds(p)
    BY <1>2, <1>5, <1>6 DEF Kinds, R
  <1>8. Kinds(p) \subseteq R
    BY DEF Kinds, R
  <1>9. IsFiniteSet(Kinds(p))
    BY <1>1, <1>8, FS_Subset
  <1>10. Cardinality(Kinds(p)) \in Nat /\ Cardinality(Kinds(p)) # 0
    BY <1>7, <1>9, FS_EmptySet, FS_CardinalityType
  <1> QED
    BY <1>7, <1>10

\* With one lane to an id no route is dropped for another.
LEMMA KindsAreRoutes ==
    ASSUME LanesRead, OneLanePerId, NEW p, p.due \in Int
    PROVE  Kinds(p) = RoutesOf(p)
  <1>1. \A a, b \in DOMAIN lanes : lanes[a].id = lanes[b].id => a = b
    <2>1. LaneIds([l \in DOMAIN lanes |-> l]) = [l \in DOMAIN lanes |-> lanes[l].id]
      BY DEF LaneIds
    <2> QED
      BY <2>1 DEF OneLanePerId, IsInjective
  <1>2. ASSUME NEW r \in RoutesOf(p), NEW s \in RoutesOf(p), LaneIds(s) = LaneIds(r)
        PROVE  s = r
    <2>1. r \in Seq(DOMAIN lanes) /\ s \in Seq(DOMAIN lanes)
      BY RoutesAreWays DEF Way
    <2>2. /\ DOMAIN r = 1 .. Len(r) /\ DOMAIN s = 1 .. Len(s)
          /\ Len(r) \in Nat /\ Len(s) \in Nat
          /\ \A k \in DOMAIN r : r[k] \in DOMAIN lanes
          /\ \A k \in DOMAIN s : s[k] \in DOMAIN lanes
      BY <2>1, LenProperties, ElementOfSeq
    <2>3. DOMAIN LaneIds(s) = DOMAIN s /\ DOMAIN LaneIds(r) = DOMAIN r
      BY DEF LaneIds
    <2>4. DOMAIN s = DOMAIN r
      BY <1>2, <2>3
    <2>5. \A k \in DOMAIN r : lanes[s[k]].id = lanes[r[k]].id
      <3>1. \A k \in DOMAIN r : LaneIds(r)[k] = lanes[r[k]].id /\ LaneIds(s)[k] = lanes[s[k]].id
        BY <2>4 DEF LaneIds
      <3> QED
        BY <1>2, <3>1
    <2>6. \A k \in DOMAIN r : s[k] = r[k]
      BY <1>1, <2>2, <2>4, <2>5
    <2>7. r \in [DOMAIN r -> DOMAIN lanes] /\ s \in [DOMAIN s -> DOMAIN lanes]
      BY <2>1, LenProperties
    <2> QED
      BY <2>4, <2>6, <2>7
  <1>3. \A r \in RoutesOf(p) : ~ Less(RouteKey(p, r), RouteKey(p, r))
    <2>1. \A r \in RoutesOf(p) : r \in Seq(DOMAIN lanes)
      BY RoutesAreWays DEF Way
    <2> QED
      BY <2>1, RouteKeys, LessIrreflexive
  <1> QED
    BY <1>2, <1>3 DEF Kinds

\* Every route a plan is compared with is kept: all of a package with few,
\* and the best of a package with many.
LEMMA RivalsAreCandidates ==
    ASSUME LanesRead, OneLanePerId, NEW p, p.due \in Int, NEW r \in Rivals(p)
    PROVE  \E k \in DOMAIN Candidates(p) : Candidates(p)[k] = r
  <1> DEFINE R == RoutesOf(p)
             key == KeyOf(p, R)
             list == Sorted(key)
             m == Cardinality(R)
  <1>1. R = AllRoutes(p) /\ R = Kinds(p)
    BY SearchIsComplete, KindsAreRoutes
  <1>2. Distinct(R, key) /\ InOrder(list, R, key)
    BY KeysDistinct
  <1>3. Candidates(p) = [k \in {k \in DOMAIN list : k <= MaxRoutes} |-> list[k]]
    BY <1>1, CandidatesAre
  <1>4. \A s \in R : key[s] = RouteKey(p, s)
    BY DEF KeyOf
  <1> HIDE DEF R, key, list, m
  <1>5. r \in R /\ (m <= MaxRoutes \/ \A s \in R : ~ Less(key[s], key[r]))
    BY <1>1, <1>4 DEF Rivals, m
  <1>6. m \in Nat /\ list \in [1 .. m -> R]
    BY <1>2 DEF InOrder, m
  <1>7. PICK k \in 1 .. m : list[k] = r
    BY <1>2, <1>5 DEF InOrder, m
  <1>8. k <= MaxRoutes
    <2>1. CASE m <= MaxRoutes
      BY <1>6, <2>1 DEF MaxRoutes
    <2>2. CASE \A s \in R : ~ Less(key[s], key[r])
      <3>1. 1 \in 1 .. m
        BY <1>6
      <3>2. list[1] \in R
        BY <1>6, <3>1
      <3>3. ~ (1 < k)
        BY <1>2, <1>7, <2>2, <3>1, <3>2 DEF InOrder, m
      <3> QED
        BY <1>6, <3>3 DEF MaxRoutes
    <2> QED
      BY <1>5, <2>1, <2>2
  <1>9. k \in {j \in DOMAIN list : j <= MaxRoutes}
    BY <1>6, <1>8
  <1> QED
    BY <1>3, <1>7, <1>9

-----------------------------------------------------------------------------
\* What an assignment of routes costs is four numbers.

\* A set of places has a greatest one.
LEMMA Greatest ==
    ASSUME NEW n \in Nat, NEW T \in SUBSET (1 .. n), T # {}
    PROVE  \E x \in T : \A y \in T : y <= x
  <1> DEFINE U == {m \in Nat : \E x \in T : m = n - x}
  <1>1. U # {}
    <2>1. PICK x \in T : TRUE
      OBVIOUS
    <2>2. n - x \in Nat
      OBVIOUS
    <2> QED
      BY <2>2
  <1> HIDE DEF U
  <1>2. U \in SUBSET Nat
    BY DEF U
  <1>3. PICK m \in U : \A k \in U : m <= k
    BY <1>1, <1>2, Least
  <1>4. PICK x \in T : m = n - x
    BY DEF U
  <1>5. ASSUME NEW y \in T PROVE y <= x
    <2>1. n - y \in U
      BY DEF U
    <2>2. n - x <= n - y
      BY <1>3, <1>4, <2>1
    <2> QED
      BY <2>2
  <1> QED
    BY <1>5

\* The last row of an id exists and is the last of them.
LEMMA LastWithIs ==
    ASSUME NEW S, NEW rows \in Seq(S), NEW i \in DOMAIN rows
    PROVE  LET last == LastWith(rows, rows[i].id)
           IN  /\ last \in DOMAIN rows /\ rows[last].id = rows[i].id
               /\ \A j \in DOMAIN rows : rows[j].id = rows[i].id => j <= last
  <1> DEFINE T == {j \in DOMAIN rows : rows[j].id = rows[i].id}
  <1>1. DOMAIN rows = 1 .. Len(rows) /\ Len(rows) \in Nat
    BY LenProperties
  <1>2. PICK x \in T : \A y \in T : y <= x
    <2>1. T \in SUBSET (1 .. Len(rows)) /\ i \in T
      BY <1>1
    <2> HIDE DEF T
    <2> QED
      BY <1>1, <2>1, Greatest
  <1>3. \E y \in DOMAIN rows : rows[y].id = rows[i].id /\ \A j \in DOMAIN rows :
                                   rows[j].id = rows[i].id => j <= y
    BY <1>2
  <1> HIDE DEF T
  <1> QED
    BY <1>3 DEF LastWith

\* The packages are in the order of priority, each once.
PriorityKeys == [i \in DOMAIN packages |-> PriorityKey(i)]
Prioritized == InOrder(priority, DOMAIN packages, PriorityKeys)

\* No two packages have one priority, ...
LEMMA PriorityKeysDistinct ==
    ASSUME PackagesRead
    PROVE  /\ IsFiniteSet(DOMAIN packages) /\ Distinct(DOMAIN packages, PriorityKeys)
           /\ InOrder(Sorted(PriorityKeys), DOMAIN packages, PriorityKeys)
  <1>1. /\ IsFiniteSet(DOMAIN packages) /\ DOMAIN packages \subseteq Int
        /\ \A i \in DOMAIN packages : /\ packages[i].id \in Int /\ packages[i].due \in Int
                                      /\ packages[i].margin \in Int
    BY PackageRows
  <1>2. ASSUME NEW i \in DOMAIN packages
        PROVE  PriorityKey(i) \in Seq(Int) /\ PriorityKey(i)[4] = i
    <2>1. - packages[i].margin \in Int /\ i \in Int
      BY <1>1
    <2> QED
      BY <1>1, <2>1 DEF PriorityKey
  <1>3. Distinct(DOMAIN packages, PriorityKeys)
    BY <1>2 DEF Distinct, PriorityKeys
  <1> QED
    BY <1>1, <1>3, SortedInOrder

\* ... so each has one place in the list.
LEMMA PriorityPlaces ==
    ASSUME PackagesRead, Prioritized
    PROVE  /\ Len(priority) = Len(packages) /\ DOMAIN priority = DOMAIN packages
           /\ priority \in Seq(DOMAIN packages)
           /\ \A k \in DOMAIN priority : priority[k] \in DOMAIN packages
           /\ \A i \in DOMAIN packages : \E k \in DOMAIN priority : priority[k] = i
  <1>1. DOMAIN packages = 1 .. Len(packages) /\ Len(packages) \in Nat
    BY PackageRows
  <1>2. Cardinality(DOMAIN packages) = Len(packages)
    <2>1. Cardinality(1 .. Len(packages)) = IF 1 > Len(packages) THEN 0 ELSE Len(packages) - 1 + 1
      BY <1>1, FS_Interval
    <2> QED
      BY <1>1, <2>1
  <1>3. /\ priority \in [1 .. Len(packages) -> DOMAIN packages]
        /\ \A i \in DOMAIN packages : \E k \in 1 .. Len(packages) : priority[k] = i
    BY <1>2 DEF Prioritized, InOrder
  <1>4. priority \in Seq(DOMAIN packages) /\ Len(priority) = Len(packages)
    <2>1. priority \in Seq(DOMAIN packages)
      BY <1>1, <1>3, SeqDef
    <2>2. DOMAIN priority = 1 .. Len(priority) /\ Len(priority) \in Nat
      BY <2>1, LenProperties
    <2> QED
      BY <1>1, <1>3, <2>1, <2>2
  <1> QED
    BY <1>1, <1>3, <1>4

\* The last place of an id exists and has that id.
LEMMA LastOfIs ==
    ASSUME PackagesRead, Prioritized, NEW i \in DOMAIN packages
    PROVE  LET last == LastOf(packages[i].id)
           IN  /\ last \in DOMAIN priority /\ packages[priority[last]].id = packages[i].id
  <1> DEFINE T == {k \in DOMAIN priority : packages[priority[k]].id = packages[i].id}
             n == Len(priority)
  <1>1. n \in Nat /\ DOMAIN priority = 1 .. n
    BY PriorityPlaces, PackageRows
  <1>2. PICK x \in T : \A y \in T : y <= x
    <2>1. T \in SUBSET (1 .. n) /\ T # {}
      BY <1>1, PriorityPlaces
    <2> HIDE DEF T, n
    <2> QED
      BY <1>1, <2>1, Greatest
  <1>3. /\ x \in DOMAIN priority /\ packages[priority[x]].id = packages[i].id
        /\ \A j \in x + 1 .. n : packages[priority[j]].id # packages[i].id
    <2>1. x \in 1 .. n /\ packages[priority[x]].id = packages[i].id
      BY <1>1, <1>2
    <2>2. ASSUME NEW j \in x + 1 .. n, packages[priority[j]].id = packages[i].id PROVE FALSE
      <3>1. j \in 1 .. n /\ ~ (j <= x)
        BY <1>1, <2>1
      <3>2. j \in T
        BY <1>1, <2>2, <3>1
      <3> QED
        BY <1>2, <3>1, <3>2
    <2> QED
      BY <1>1, <2>1, <2>2
  <1> HIDE DEF T
  <1> QED
    BY <1>3 DEF LastOf

\* Every package has a route of lanes.
Routing(routes) ==
    DOMAIN routes = DOMAIN packages /\ \A i \in DOMAIN packages : routes[i] \in Seq(DOMAIN lanes)

\* A package travels on a route some package was given.
LEMMA TravelsOnLanes ==
    ASSUME PackagesRead, NEW routes, Routing(routes), NEW i \in DOMAIN packages
    PROVE  Travels(routes, i) \in Seq(DOMAIN lanes)
  <1>1. LastWith(packages, packages[i].id) \in DOMAIN packages
    BY LastWithIs DEF PackagesRead
  <1> QED
    BY <1>1 DEF Travels, Routing

\* How often a lane was used before is a number, ...
LEMMA UsedIsNumber ==
    ASSUME PackagesRead, Prioritized, NEW routes, NEW i \in DOMAIN packages, NEW h
    PROVE  Used(routes, i, h) \in Nat
  <1> DEFINE place == CHOOSE k \in DOMAIN priority : priority[k] = i
             before == {u \in (1 .. place) \X (1 .. MaxHops) : u[1] = place => u[2] < h}
             Route(k) == Travels(routes, priority[k])
             lane == lanes[Route(place)[h]].id
             hops == {u \in before : LET r == Route(u[1]) IN
                                        u[2] \in DOMAIN r /\ lanes[r[u[2]]].id = lane}
  <1>1. place \in Int
    <2>1. \E k \in DOMAIN priority : priority[k] = i
      BY PriorityPlaces
    <2>2. place \in DOMAIN priority
      BY <2>1
    <2> HIDE DEF place
    <2> QED
      BY <2>2, PriorityPlaces, PackageRows
  <1>2. Used(routes, i, h) = Cardinality(hops)
    BY DEF Used
  <1> HIDE DEF place, Route, lane
  <1>3. IsFiniteSet((1 .. place) \X (1 .. MaxHops))
    <2>1. 1 \in Int /\ MaxHops \in Int
      BY DEF MaxHops
    <2>2. IsFiniteSet(1 .. place) /\ IsFiniteSet(1 .. MaxHops)
      BY <1>1, <2>1, FS_Interval
    <2> QED
      BY <2>2, FS_Product
  <1>4. hops \subseteq (1 .. place) \X (1 .. MaxHops)
    OBVIOUS
  <1> HIDE DEF hops
  <1>5. Cardinality(hops) \in Nat
    BY <1>3, <1>4, FS_Subset, FS_CardinalityType
  <1> QED
    BY <1>2, <1>5

\* ... so is the arrival, ...
LEMMA ArrivalIsNumber ==
    ASSUME PackagesRead, LanesRead, Prioritized, NEW routes, Routing(routes),
           NEW i \in DOMAIN packages
    PROVE  Arrival(routes, i) \in Int
  <1> DEFINE r == Travels(routes, i)
  <1>1. r \in Seq(DOMAIN lanes)
    BY TravelsOnLanes
  <1>2. /\ DOMAIN r = 1 .. Len(r) /\ Len(r) \in Nat
        /\ \A h \in DOMAIN r : r[h] \in DOMAIN lanes
    BY <1>1, LenProperties, ElementOfSeq
  <1>3. IsFiniteSet(DOMAIN r)
    BY <1>2, FS_Interval
  <1>4. ASSUME NEW h \in DOMAIN r PROVE Trip(routes, i, h) \in Int
    <2>1. LaneIds(r)[h] = lanes[r[h]].id
      BY DEF LaneIds
    <2> DEFINE l == LastWith(lanes, LaneIds(r)[h])
               convoy == IF lanes[l].capacity > 1 THEN lanes[l].capacity ELSE 1
    <2>2. l \in DOMAIN lanes
      BY <1>2, <2>1, LastWithIs DEF LanesRead
    <2>3. Trip(routes, i, h) = (Used(routes, i, h) \div convoy + 1) * lanes[l].eta
      BY DEF Trip
    <2> HIDE DEF l
    <2>4. convoy \in Int /\ convoy > 0 /\ lanes[l].eta \in Int
      BY <2>2, LaneRows
    <2>5. Used(routes, i, h) \in Int
      BY UsedIsNumber
    <2> HIDE DEF convoy
    <2>6. Used(routes, i, h) \div convoy + 1 \in Int
      BY <2>4, <2>5
    <2> QED
      BY <2>3, <2>4, <2>6
  <1> DEFINE trips == [h \in DOMAIN r |-> Trip(routes, i, h)]
  <1>5. Arrival(routes, i) = SumFunction(trips)
    BY DEF Arrival
  <1>6. IsFiniteSet(DOMAIN trips) /\ \A h \in DOMAIN trips : trips[h] \in Int
    <2> HIDE DEF r
    <2> QED
      BY <1>3, <1>4
  <1> HIDE DEF trips
  <1> QED
    BY <1>5, <1>6, SumIsInteger

\* ... and the score is a key that can be compared.
LEMMA ScoreIsKey ==
    ASSUME PackagesRead, LanesRead, Prioritized, NEW routes, Routing(routes)
    PROVE  Score(routes) \in Seq(Int)
  <1> DEFINE late == [i \in DOMAIN packages |-> Lateness(packages[i], Arrives(routes, i))]
             costs == [i \in DOMAIN packages |-> Cost(routes[i])]
             etas == [i \in DOMAIN packages |-> Eta(routes[i])]
             some == {i \in DOMAIN packages : late[i] > 0}
  <1>1. IsFiniteSet(DOMAIN packages) /\ \A i \in DOMAIN packages : packages[i].due \in Int
    BY PackageRows
  <1>2. ASSUME NEW i \in DOMAIN packages PROVE late[i] \in Int
    <2>1. priority[LastOf(packages[i].id)] \in DOMAIN packages
      BY LastOfIs, PriorityPlaces
    <2>2. Arrives(routes, i) \in Int
      BY <2>1, ArrivalIsNumber DEF Arrives
    <2>3. Lateness(packages[i], Arrives(routes, i)) \in Int
      BY <1>1, <2>2 DEF Lateness
    <2> QED
      BY <2>3
  <1>3. ASSUME NEW i \in DOMAIN packages PROVE costs[i] \in Int /\ etas[i] \in Int
    BY RouteTotals DEF Routing
  <1>4. Score(routes) = <<Cardinality(some), SumFunction(late), SumFunction(costs),
                          SumFunction(etas)>>
    BY DEF Score
  <1>5. DOMAIN late = DOMAIN packages /\ DOMAIN costs = DOMAIN packages
        /\ DOMAIN etas = DOMAIN packages
    OBVIOUS
  <1>6. Cardinality(some) \in Int
    <2>1. some \subseteq DOMAIN packages
      OBVIOUS
    <2> HIDE DEF some
    <2>2. IsFiniteSet(some)
      BY <1>1, <2>1, FS_Subset
    <2> QED
      BY <2>2, FS_CardinalityType
  <1> HIDE DEF some, late, costs, etas
  <1>7. SumFunction(late) \in Int
    BY <1>1, <1>2, <1>5, SumIsInteger
  <1>8. SumFunction(costs) \in Int
    BY <1>1, <1>3, <1>5, SumIsInteger
  <1>9. SumFunction(etas) \in Int
    BY <1>1, <1>3, <1>5, SumIsInteger
  <1> QED
    BY <1>4, <1>6, <1>7, <1>8, <1>9

-----------------------------------------------------------------------------
\* The invariant of the search.

\* What the search works on is ready and does not change.
Ready ==
    /\ PackagesRead /\ LanesRead /\ packages # <<>>
    /\ Prioritized
    /\ candidates = [i \in DOMAIN packages |-> Candidates(packages[i])]
    /\ \A i \in DOMAIN packages : RoutesOf(packages[i]) # {}

Combinations ==
    {c \in [DOMAIN packages -> 1 .. MaxRoutes] :
        \A i \in DOMAIN packages : c[i] \in DOMAIN candidates[i]}

NoneBetter(C, b) == \A c \in C : ~ Less(Score(Chosen(c)), Score(Chosen(b)))

\* Of the combinations before the next one none is better than the best.
Tried == {c \in Combinations : Less(c, choice)}

NotPlanned == best = <<>> /\ plan = <<>>

Unroutable == packages = <<>> \/ \E i \in DOMAIN packages : RoutesOf(packages[i]) = {}

SearchInv ==
    /\ wave \in Waves
    /\ phase \in {"manifest", "packages", "lanes", "routes", "search", "done"}
    /\ PackagesRead /\ LanesRead
    /\ phase \in {"manifest", "packages"} => packages = <<>>
    /\ phase \notin {"search", "done"} => NotPlanned
    /\ phase = "search" =>
          /\ Ready /\ plan = <<>>
          /\ choice \in Combinations
          /\ \/ best = <<>> /\ Tried = {}
             \/ \E b \in Combinations : best = <<b>> /\ NoneBetter(Tried, b)
    /\ phase = "done" =>
          \/ NotPlanned /\ Unroutable
          \/ /\ Ready
             /\ \E b \in Combinations : /\ best = <<b>> /\ plan = Assignments(b)
                                        /\ NoneBetter(Combinations, b)

\* The candidates of a package are routes, and there is at least one.
LEMMA CandidateRoutes ==
    ASSUME Ready, NEW i \in DOMAIN packages
    PROVE  /\ Len(candidates[i]) \in 1 .. MaxRoutes
           /\ DOMAIN candidates[i] = 1 .. Len(candidates[i])
           /\ \A k \in DOMAIN candidates[i] : Way(packages[i], candidates[i][k])
  <1> DEFINE p == packages[i]
             K == Kinds(p)
  <1>1. candidates[i] = Candidates(p) /\ RoutesOf(p) # {} /\ p.due \in Int /\ LanesRead
    BY PackageRows DEF Ready
  <1> HIDE DEF p, K
  <1>2. PICK n \in 0 .. MaxRoutes :
              /\ Candidates(p) \in [1 .. n -> RoutesOf(p)]
              /\ Cardinality(K) \in Nat
              /\ Cardinality(K) <= MaxRoutes => n = Cardinality(K)
              /\ Cardinality(K) > MaxRoutes => n = MaxRoutes
    BY <1>1, CandidatesType DEF K
  <1>3. Cardinality(K) >= 1
    BY <1>1, SomeKind DEF K
  <1>4. n \in Nat /\ n >= 1
    BY <1>2, <1>3 DEF MaxRoutes
  <1>5. Candidates(p) \in Seq(RoutesOf(p))
    BY <1>2, <1>4, SeqDef
  <1>6. DOMAIN Candidates(p) = 1 .. n /\ Len(Candidates(p)) = n
    <2>1. DOMAIN Candidates(p) = 1 .. n
      BY <1>2
    <2>2. DOMAIN Candidates(p) = 1 .. Len(Candidates(p)) /\ Len(Candidates(p)) \in Nat
      BY <1>5, LenProperties
    <2> QED
      BY <1>4, <2>1, <2>2, SameInterval
  <1>7. \A k \in 1 .. n : Candidates(p)[k] \in RoutesOf(p)
    BY <1>2
  <1>8. \A k \in 1 .. n : Way(p, Candidates(p)[k])
    BY <1>7, RoutesAreWays
  <1> QED
    BY <1>1, <1>2, <1>4, <1>6, <1>8 DEF p

\* A combination gives each package one of its routes and has a score.
LEMMA CombinationIs ==
    ASSUME Ready, NEW c \in Combinations
    PROVE  /\ c \in Seq(Int) /\ Len(c) = Len(packages) /\ DOMAIN c = DOMAIN packages
           /\ \A i \in DOMAIN packages : /\ c[i] \in Int /\ 1 <= c[i]
                                         /\ c[i] <= Len(candidates[i])
           /\ Routing(Chosen(c))
           /\ \A i \in DOMAIN packages : Way(packages[i], Chosen(c)[i])
           /\ Score(Chosen(c)) \in Seq(Int)
  <1>1. /\ DOMAIN packages = 1 .. Len(packages) /\ Len(packages) \in Nat
        /\ PackagesRead /\ LanesRead /\ Prioritized
    BY PackageRows DEF Ready
  <1>2. /\ c \in [DOMAIN packages -> 1 .. MaxRoutes]
        /\ \A i \in DOMAIN packages : c[i] \in DOMAIN candidates[i]
    BY DEF Combinations
  <1>3. \A i \in 1 .. MaxRoutes : i \in Int
    OBVIOUS
  <1>4. c \in Seq(Int)
    BY <1>1, <1>2, <1>3, SeqDef
  <1>5. Len(c) = Len(packages)
    <2>1. DOMAIN c = 1 .. Len(c) /\ Len(c) \in Nat
      BY <1>4, LenProperties
    <2>2. 1 .. Len(c) = 1 .. Len(packages)
      BY <1>1, <1>2, <2>1
    <2> QED
      BY <1>1, <2>1, <2>2, SameInterval
  <1>6. \A i \in DOMAIN packages : c[i] \in Int /\ 1 <= c[i] /\ c[i] <= Len(candidates[i])
    <2> SUFFICES ASSUME NEW i \in DOMAIN packages
                 PROVE  c[i] \in Int /\ 1 <= c[i] /\ c[i] <= Len(candidates[i])
      OBVIOUS
    <2>1. c[i] \in 1 .. Len(candidates[i]) /\ Len(candidates[i]) \in 1 .. MaxRoutes
      BY <1>2, CandidateRoutes
    <2> QED
      BY <2>1 DEF MaxRoutes
  <1>7. \A i \in DOMAIN packages : Way(packages[i], Chosen(c)[i])
    BY <1>2, CandidateRoutes DEF Chosen
  <1>8. Routing(Chosen(c))
    BY <1>7 DEF Routing, Chosen, Way
  <1>9. Score(Chosen(c)) \in Seq(Int)
    BY <1>1, <1>8, ScoreIsKey
  <1> QED
    BY <1>2, <1>4, <1>5, <1>6, <1>7, <1>8, <1>9

\* Two combinations differ first at some package, and the one with the
\* lower candidate there comes first.
FirstDifference(c, d, k) ==
    /\ k \in DOMAIN packages /\ c[k] # d[k]
    /\ \A j \in DOMAIN packages : j < k => c[j] = d[j]

\* Two combinations have a first difference, ...
LEMMA CombinationsDiffer ==
    ASSUME Ready, NEW c \in Combinations, NEW d \in Combinations, c # d
    PROVE  \E k : FirstDifference(c, d, k)
  <1> DEFINE T == {k \in DOMAIN packages : c[k] # d[k]}
  <1>1. DOMAIN packages = 1 .. Len(packages) /\ Len(packages) \in Nat
    BY PackageRows DEF Ready
  <1>2. T # {}
    BY DEF Combinations
  <1>3. T \in SUBSET Nat
    BY <1>1
  <1>4. PICK k \in T : \A m \in T : k <= m
    <2> HIDE DEF T
    <2> QED
      BY <1>2, <1>3, Least
  <1>5. \A j \in DOMAIN packages : j < k => c[j] = d[j]
    <2> SUFFICES ASSUME NEW j \in DOMAIN packages, j < k, c[j] # d[j] PROVE FALSE
      OBVIOUS
    <2>1. j \in T
      OBVIOUS
    <2>2. k <= j /\ k \in Nat /\ j \in Nat
      BY <1>3, <1>4, <2>1
    <2> QED
      BY <2>2
  <1> QED
    BY <1>4, <1>5 DEF FirstDifference

\* ... which decides which of them is tried first.
LEMMA ComesFirst ==
    ASSUME Ready, NEW c \in Combinations, NEW d \in Combinations
    PROVE  Less(c, d) <=> \E k : FirstDifference(c, d, k) /\ c[k] < d[k]
  <1> DEFINE n == Len(packages)
  <1>1. DOMAIN packages = 1 .. n /\ n \in Nat
    BY PackageRows DEF Ready
  <1>2. /\ c \in Seq(Int) /\ Len(c) = n /\ d \in Seq(Int) /\ Len(d) = n
        /\ \A i \in 1 .. n : c[i] \in Int /\ d[i] \in Int
    BY <1>1, CombinationIs
  <1> HIDE DEF n
  <1>3. ASSUME NEW k, FirstDifference(c, d, k), c[k] < d[k] PROVE Less(c, d)
    <2>1. k \in 1 .. n /\ \A j \in 1 .. n : j < k => c[j] = d[j]
      BY <1>1, <1>3 DEF FirstDifference
    <2>2. k \in Nat \ {0} /\ LessAt(c, d, k)
      BY <1>1, <1>2, <1>3, <2>1 DEF LessAt
    <2> QED
      BY <1>2, <2>2, LessSomewhere
  <1>4. ASSUME Less(c, d) PROVE \E k : FirstDifference(c, d, k) /\ c[k] < d[k]
    <2>1. PICK k \in Nat \ {0} : LessAt(c, d, k)
      BY <1>2, <1>4, LessSomewhere
    <2>2. k \in 1 .. n /\ c[k] < d[k]
      BY <1>1, <1>2, <2>1 DEF LessAt
    <2>3. \A j \in 1 .. n : j < k => c[j] = d[j]
      BY <1>1, <2>1 DEF LessAt
    <2>4. c[k] # d[k]
      BY <1>2, <2>2
    <2>5. FirstDifference(c, d, k)
      BY <1>1, <2>2, <2>3, <2>4 DEF FirstDifference
    <2> QED
      BY <2>2, <2>5
  <1> QED
    BY <1>3, <1>4

\* A combination that comes neither before d nor is d has at its first
\* difference a candidate that d can still turn to.
LEMMA ComesLater ==
    ASSUME Ready, NEW c \in Combinations, NEW d \in Combinations, c # d, ~ Less(c, d)
    PROVE  \E k \in Turning(d) : FirstDifference(c, d, k) /\ d[k] < c[k]
  <1>1. PICK k : FirstDifference(c, d, k)
    BY CombinationsDiffer
  <1>2. k \in DOMAIN packages /\ c[k] # d[k]
    BY <1>1 DEF FirstDifference
  <1>3. c[k] \in Int /\ d[k] \in Int /\ ~ (c[k] < d[k])
    BY <1>1, <1>2, CombinationIs, ComesFirst
  <1>4. d[k] < c[k]
    BY <1>2, <1>3
  <1>5. d[k] < Len(candidates[k])
    <2>1. c[k] <= Len(candidates[k]) /\ Len(candidates[k]) \in Int
      BY <1>2, CombinationIs, CandidateRoutes DEF MaxRoutes
    <2> QED
      BY <1>3, <1>4, <2>1
  <1>6. k \in Turning(d)
    BY <1>2, <1>5, CombinationIs DEF Turning
  <1> QED
    BY <1>1, <1>4, <1>6

\* The product goes from each combination to the very next one.
LEMMA NextIsNext ==
    ASSUME Ready, NEW d \in Combinations, Turning(d) # {}
    PROVE  /\ NextChoice(d) \in Combinations
           /\ \A c \in Combinations : Less(c, NextChoice(d)) => c = d \/ Less(c, d)
  <1> DEFINE n == Len(packages)
             turn == CHOOSE i \in Turning(d) : \A j \in Turning(d) : j <= i
             next == NextChoice(d)
  <1>1. DOMAIN packages = 1 .. n /\ n \in Nat
    BY PackageRows DEF Ready
  <1>2. /\ DOMAIN d = 1 .. n
        /\ \A i \in 1 .. n : d[i] \in Int /\ 1 <= d[i] /\ d[i] <= Len(candidates[i])
    BY <1>1, CombinationIs
  <1>3. turn \in Turning(d) /\ \A j \in Turning(d) : j <= turn
    <2>1. Turning(d) \in SUBSET (1 .. n)
      BY <1>2 DEF Turning
    <2>2. \E i \in Turning(d) : \A j \in Turning(d) : j <= i
      BY <1>1, <2>1, Greatest
    <2> QED
      BY <2>2
  <1>4. next = [i \in 1 .. n |-> IF i < turn THEN d[i] ELSE IF i = turn THEN d[i] + 1 ELSE 1]
    BY <1>2 DEF NextChoice
  <1> HIDE DEF n, turn, next
  <1>5. turn \in 1 .. n /\ d[turn] < Len(candidates[turn])
    BY <1>2, <1>3 DEF Turning
  <1>6. next \in Combinations
    <2>1. ASSUME NEW i \in 1 .. n
          PROVE  next[i] \in 1 .. MaxRoutes /\ next[i] \in DOMAIN candidates[i]
      <3>1. /\ Len(candidates[i]) \in 1 .. MaxRoutes
            /\ DOMAIN candidates[i] = 1 .. Len(candidates[i])
        BY <1>1, CandidateRoutes
      <3>2. next[i] \in 1 .. Len(candidates[i])
        <4>1. Len(candidates[i]) \in Int /\ 1 <= Len(candidates[i])
          <5>1. \A k \in 1 .. MaxRoutes : k \in Int /\ 1 <= k
            BY DEF MaxRoutes
          <5> QED BY <3>1, <5>1, Zenon
        <4>2. d[i] \in Int /\ 1 <= d[i] /\ d[i] <= Len(candidates[i])
          BY <1>2
        <4>3. CASE i < turn
          <5>1. next[i] = d[i]
            BY <1>4, <4>3
          <5> QED
            BY <4>1, <4>2, <5>1
        <4>4. CASE i = turn
          <5>1. next[i] = d[i] + 1
            BY <1>1, <1>4, <1>5, <4>4
          <5>2. d[i] < Len(candidates[i])
            BY <1>5, <4>4
          <5> QED
            BY <4>1, <4>2, <5>1, <5>2
        <4>5. CASE ~ (i < turn) /\ i # turn
          <5>1. next[i] = 1
            BY <1>4, <4>5
          <5> QED
            BY <4>1, <5>1
        <4> QED
          BY <4>3, <4>4, <4>5
      <3>3. \A m \in 1 .. MaxRoutes : 1 .. m \subseteq 1 .. MaxRoutes
        BY DEF MaxRoutes
      <3> QED
        BY <3>1, <3>2, <3>3
    <2>2. next \in [1 .. n -> 1 .. MaxRoutes]
      <3>1. DOMAIN next = 1 .. n /\ next = [i \in 1 .. n |-> next[i]]
        BY <1>4
      <3> QED
        BY <2>1, <3>1
    <2> QED
      BY <1>1, <2>1, <2>2 DEF Combinations
  <1>7. ASSUME NEW c \in Combinations, Less(c, next), c # d, ~ Less(c, d)
        PROVE  FALSE
    <2>1. PICK k \in Turning(d) : FirstDifference(c, d, k) /\ d[k] < c[k]
      BY <1>7, ComesLater
    <2>2. PICK m : FirstDifference(c, next, m) /\ c[m] < next[m]
      BY <1>6, <1>7, ComesFirst
    <2>3. /\ k \in 1 .. n /\ k <= turn /\ m \in 1 .. n
          /\ \A j \in 1 .. n : j < k => c[j] = d[j]
          /\ \A j \in 1 .. n : j < m => c[j] = next[j]
      BY <1>1, <1>3, <2>1, <2>2 DEF FirstDifference
    <2>4. \A i \in 1 .. n : c[i] \in Int /\ 1 <= c[i] /\ d[i] \in Int
      BY <1>1, <1>2, CombinationIs
    <2>5. \A i \in 1 .. n : next[i] = IF i < turn THEN d[i] ELSE IF i = turn THEN d[i] + 1 ELSE 1
      BY <1>4
    <2>6. CASE k < turn
      <3>1. next[k] = d[k]
        BY <2>3, <2>5, <2>6
      <3>2. ~ (k < m)
        BY <2>1, <2>3, <2>4, <3>1
      <3>3. m # k
        BY <2>1, <2>2, <2>3, <2>4, <3>1
      <3>4. m < k
        BY <2>3, <3>2, <3>3
      <3>5. next[m] = d[m] /\ c[m] = d[m]
        BY <1>5, <2>3, <2>5, <2>6, <3>4
      <3> QED
        BY <2>2, <2>3, <2>4, <3>5
    <2>7. CASE k = turn
      <3>1. next[k] = d[k] + 1
        BY <1>5, <2>3, <2>5, <2>7
      <3>2. CASE m < k
        <4>1. next[m] = d[m] /\ c[m] = d[m]
          BY <2>3, <2>5, <2>7, <3>2
        <4> QED
          BY <2>2, <2>3, <2>4, <4>1
      <3>3. CASE m = k
        BY <2>1, <2>2, <2>3, <2>4, <3>1, <3>3
      <3>4. CASE k < m
        <4>1. next[m] = 1
          BY <2>3, <2>5, <2>7, <3>4
        <4> QED
          BY <2>2, <2>3, <2>4, <4>1
      <3> QED
        BY <2>3, <3>2, <3>3, <3>4
    <2> QED
      BY <1>5, <2>3, <2>6, <2>7
  <1> QED
    BY <1>6, <1>7 DEF next

\* Where no package can turn every other combination has gone before.
LEMMA NothingLeft ==
    ASSUME Ready, NEW d \in Combinations, Turning(d) = {}
    PROVE  \A c \in Combinations : c = d \/ Less(c, d)
  BY ComesLater

-----------------------------------------------------------------------------
\* The steps of the planner keep the invariant.

\* A sequence of some rows of a file.
LEMMA RowsOf ==
    ASSUME NEW S, NEW rows \in Seq(S)
    PROVE  rows \in Seq(ToSet(rows)) /\ ToSet(rows) \subseteq S
  <1>1. /\ DOMAIN rows = 1 .. Len(rows) /\ Len(rows) \in Nat
        /\ rows \in [1 .. Len(rows) -> S]
    BY LenProperties
  <1>2. rows \in [1 .. Len(rows) -> ToSet(rows)]
    BY <1>1 DEF ToSet
  <1>3. rows \in Seq(ToSet(rows))
    BY <1>1, <1>2, SeqDef
  <1> QED
    BY <1>1, <1>3 DEF ToSet

\* The usable rows of a file are rows of it, ...
LEMMA UsableRows ==
    ASSUME NEW S, NEW rows \in Seq(S)
    PROVE  Usable(rows) \in Seq(S)
  <1>1. {i \in DOMAIN rows : rows[i].usable} \in SUBSET (1 .. Len(rows))
    BY LenProperties
  <1> QED
    BY <1>1, KeptSelects DEF Usable

\* ... so what is read has the numbers of the files, ...
LEMMA RowsRead ==
    ASSUME NEW w \in Waves
    PROVE  /\ Usable(w.packages) \in Seq(ToSet(Usable(w.packages)))
           /\ \A p \in ToSet(Usable(w.packages)) : {p.id, p.due, p.margin} \subseteq Int
           /\ Usable(w.lanes) \in Seq(ToSet(Usable(w.lanes)))
           /\ \A l \in ToSet(Usable(w.lanes)) : {l.id, l.capacity, l.eta, l.cost} \subseteq Int
  <1>1. /\ w.packages \in Seq(ToSet(w.packages)) /\ w.lanes \in Seq(ToSet(w.lanes))
        /\ \A p \in ToSet(w.packages) : {p.id, p.due, p.margin} \subseteq Int
        /\ \A l \in ToSet(w.lanes) : {l.id, l.capacity, l.eta, l.cost} \subseteq Int
    BY WaveAssumption
  <1>2. /\ Usable(w.packages) \in Seq(ToSet(w.packages))
        /\ Usable(w.lanes) \in Seq(ToSet(w.lanes))
    BY <1>1, UsableRows
  <1>3. /\ Usable(w.packages) \in Seq(ToSet(Usable(w.packages)))
        /\ ToSet(Usable(w.packages)) \subseteq ToSet(w.packages)
        /\ Usable(w.lanes) \in Seq(ToSet(Usable(w.lanes)))
        /\ ToSet(Usable(w.lanes)) \subseteq ToSet(w.lanes)
    BY <1>2, RowsOf
  <1> QED
    BY <1>1, <1>3

\* ... and so has a file that is not read.
LEMMA NoRows ==
    <<>> \in Seq(ToSet(<<>>)) /\ ToSet(<<>>) = {}
  <1>1. ToSet(<<>>) = {}
    BY EmptySeq DEF ToSet
  <1> QED
    BY <1>1, EmptySeq

AllCandidates == [i \in DOMAIN packages |-> Candidates(packages[i])]
AllTravel == \A i \in DOMAIN packages : RoutesOf(packages[i]) # {}

\* Routes and priorities stay as long as the rows do.
LEMMA RowsStay ==
    ASSUME UNCHANGED <<packages, lanes>>
    PROVE  /\ PackagesRead' <=> PackagesRead
           /\ LanesRead' <=> LanesRead
           /\ AllCandidates' = AllCandidates
           /\ AllTravel' <=> AllTravel
           /\ PriorityKeys' = PriorityKeys
           /\ Unroutable' <=> Unroutable
  <1>1. (PackagesRead' <=> PackagesRead) /\ (LanesRead' <=> LanesRead)
    BY DEF PackagesRead, LanesRead
  <1>2. AllTravel' <=> AllTravel
    BY DEF AllTravel, RoutesOf, Paths, End, Visited
  <1>3. AllCandidates' = AllCandidates
    BY DEF AllCandidates, Candidates, RouteKey, LaneIds, Eta, Cost, RoutesOf, Paths, End,
           Visited
  <1>4. PriorityKeys' = PriorityKeys
    BY DEF PriorityKeys, PriorityKey
  <1>5. Unroutable' <=> Unroutable
    BY DEF Unroutable, RoutesOf, Paths, End, Visited
  <1> QED
    BY <1>1, <1>2, <1>3, <1>4, <1>5

searchData == <<packages, lanes, priority, candidates>>

\* Scores and assignments stay as long as what is searched does.
LEMMA DataStay ==
    ASSUME UNCHANGED searchData
    PROVE  /\ Ready' <=> Ready
           /\ Combinations' = Combinations
           /\ \A c : Score(Chosen(c))' = Score(Chosen(c))
           /\ \A c : Assignments(c)' = Assignments(c)
           /\ \A C, b : NoneBetter(C, b)' <=> NoneBetter(C, b)
  <1> USE DEF searchData
  <1>1. Combinations' = Combinations
    BY DEF Combinations
  <1>2. ASSUME NEW c PROVE Score(Chosen(c))' = Score(Chosen(c))
    BY DEF Score, Chosen, Arrives, Arrival, LastOf, Cost, Eta, Trip, Used, LastWith, LaneIds,
           Travels
  <1>3. ASSUME NEW c PROVE Assignments(c)' = Assignments(c)
    BY DEF Assignments, LaneIds, Travels, LastWith, LastOf, Chosen
  <1>4. Ready' <=> Ready
    <2>1. (PackagesRead' <=> PackagesRead) /\ (LanesRead' <=> LanesRead)
      BY RowsStay
    <2>2. Prioritized' <=> Prioritized
      BY RowsStay DEF Prioritized
    <2>3. AllCandidates' = AllCandidates /\ (AllTravel' <=> AllTravel)
      BY RowsStay
    <2>4. packages' = packages /\ candidates' = candidates
      OBVIOUS
    <2> QED
      BY <2>1, <2>2, <2>3, <2>4 DEF Ready, AllCandidates, AllTravel
  <1>5. ASSUME NEW C, NEW b PROVE NoneBetter(C, b)' <=> NoneBetter(C, b)
    BY <1>2 DEF NoneBetter
  <1> QED
    BY <1>1, <1>2, <1>3, <1>4, <1>5

\* Nothing is planned at first.
LEMMA SearchInvInit == PlannerInit => SearchInv
  <1> SUFFICES ASSUME PlannerInit PROVE SearchInv
    OBVIOUS
  <1>1. PackagesRead /\ LanesRead
    BY NoRows DEF PlannerInit, PackagesRead, LanesRead
  <1> QED
    BY <1>1 DEF PlannerInit, SearchInv, NotPlanned

\* The first combination.
LEMMA FirstCombination ==
    ASSUME PackagesRead, LanesRead, NEW ch, ch = [i \in DOMAIN packages |-> 1],
           NEW c \in [DOMAIN packages -> 1 .. MaxRoutes]
    PROVE  ~ Less(c, ch)
  <1>1. DOMAIN packages = 1 .. Len(packages) /\ Len(packages) \in Nat
    BY PackageRows
  <1>2. c \in Seq(Int) /\ ch \in Seq(Int)
    <2>1. c \in [1 .. Len(packages) -> Int] /\ ch \in [1 .. Len(packages) -> Int]
      BY <1>1
    <2> QED
      BY <1>1, <2>1, SeqDef
  <1>3. Len(c) = Len(packages) /\ Len(ch) = Len(packages)
    <2>1. /\ DOMAIN c = 1 .. Len(c) /\ Len(c) \in Nat
          /\ DOMAIN ch = 1 .. Len(ch) /\ Len(ch) \in Nat
      BY <1>2, LenProperties
    <2>2. 1 .. Len(c) = 1 .. Len(packages) /\ 1 .. Len(ch) = 1 .. Len(packages)
      BY <1>1, <2>1
    <2> QED
      BY <1>1, <2>1, <2>2, SameInterval
  <1>4. ASSUME NEW k \in Nat \ {0}, LessAt(c, ch, k) PROVE FALSE
    <2>1. k \in 1 .. Len(packages) /\ c[k] < ch[k]
      BY <1>1, <1>3, <1>4 DEF LessAt
    <2>2. ch[k] = 1 /\ c[k] \in 1 .. MaxRoutes
      BY <1>1, <2>1
    <2> QED
      BY <2>1, <2>2 DEF MaxRoutes
  <1> QED
    BY <1>2, <1>4, LessSomewhere

\* The search begins with the first combination and no best one.
LEMMA BeginSearchKeeps ==
    ASSUME SearchInv, BeginSearch
    PROVE  SearchInv'
  <1>1. /\ phase = "routes" /\ phase' = "search"
        /\ packages # <<>> /\ \A p \in ToSet(packages) : RoutesOf(p) # {}
        /\ priority' = Sorted(PriorityKeys)
        /\ candidates' = [i \in DOMAIN packages |-> Candidates(packages[i])]
        /\ choice' = [i \in DOMAIN packages |-> 1]
        /\ UNCHANGED <<wave, packages, lanes, best, plan>>
    BY DEF BeginSearch, PriorityKeys
  <1>2. wave \in Waves /\ PackagesRead /\ LanesRead /\ NotPlanned
    BY <1>1 DEF SearchInv
  <1>3. \A i \in DOMAIN packages : RoutesOf(packages[i]) # {}
    BY <1>1 DEF ToSet
  <1>4. Prioritized'
    <2>1. InOrder(Sorted(PriorityKeys), DOMAIN packages, PriorityKeys)
      BY <1>2, PriorityKeysDistinct
    <2>2. PriorityKeys' = PriorityKeys
      BY <1>1, RowsStay
    <2> QED
      BY <1>1, <2>1, <2>2 DEF Prioritized
  <1>5. candidates' = AllCandidates' /\ AllTravel'
    <2>1. candidates' = AllCandidates /\ AllTravel
      BY <1>1, <1>3 DEF AllCandidates, AllTravel
    <2>2. AllCandidates' = AllCandidates /\ (AllTravel' <=> AllTravel)
      BY <1>1, RowsStay
    <2> QED
      BY <2>1, <2>2
  <1>6. packages' # <<>>
    BY <1>1
  <1>7. PackagesRead' /\ LanesRead'
    BY <1>1, <1>2, RowsStay
  <1>8. Ready'
    BY <1>4, <1>5, <1>6, <1>7 DEF Ready, AllCandidates, AllTravel
  <1>9. choice' \in Combinations'
    <2>1. ASSUME NEW i \in DOMAIN packages PROVE 1 \in DOMAIN Candidates(packages[i])
      <3> DEFINE p == packages[i]
                 m == Cardinality(Kinds(p))
      <3>1. p.due \in Int /\ RoutesOf(p) # {}
        BY <1>2, <1>3, PackageRows
      <3> HIDE DEF p, m
      <3>2. m >= 1
        BY <1>2, <3>1, SomeKind DEF m
      <3>3. PICK n \in 0 .. MaxRoutes :
                  /\ Candidates(p) \in [1 .. n -> RoutesOf(p)]
                  /\ m \in Nat /\ (m <= MaxRoutes => n = m) /\ (m > MaxRoutes => n = MaxRoutes)
        BY <1>2, <3>1, CandidatesType DEF m
      <3>4. n \in Nat /\ n >= 1
        BY <3>2, <3>3 DEF MaxRoutes
      <3>5. 1 \in DOMAIN Candidates(p)
        BY <3>3, <3>4
      <3> QED
        BY <3>5 DEF p
    <2>2. \A i \in DOMAIN packages : 1 \in DOMAIN candidates'[i]
      BY <1>1, <2>1
    <2>3. choice' \in [DOMAIN packages -> 1 .. MaxRoutes]
      BY <1>1 DEF MaxRoutes
    <2> QED
      BY <1>1, <2>2, <2>3 DEF Combinations
  <1>10. Tried' = {}
    <2>1. \A c \in Combinations' : c \in [DOMAIN packages -> 1 .. MaxRoutes]
      BY <1>1 DEF Combinations
    <2>2. \A c \in Combinations' : ~ Less(c, choice')
      BY <1>1, <1>2, <2>1, FirstCombination
    <2> QED
      BY <2>2 DEF Tried
  <1>11. best' = <<>> /\ plan' = <<>>
    BY <1>1, <1>2 DEF NotPlanned
  <1> QED
    BY <1>1, <1>2, <1>7, <1>8, <1>9, <1>10, <1>11 DEF SearchInv

\* The best so far after the next combination has been tried.
LEMMA BestAfter ==
    ASSUME SearchInv, TryCombination
    PROVE  \E b \in Combinations : best' = <<b>> /\ NoneBetter(Tried \cup {choice}, b)
  <1>1. Ready /\ choice \in Combinations
    BY DEF SearchInv, TryCombination
  <1>2. \A c \in Combinations : Score(Chosen(c)) \in Seq(Int)
    BY <1>1, CombinationIs
  <1>3. best' = IF Improves THEN <<choice>> ELSE best
    BY DEF TryCombination
  <1>4. ~ Less(Score(Chosen(choice)), Score(Chosen(choice)))
    BY <1>1, <1>2, LessIrreflexive
  <1>5. CASE best = <<>> /\ Tried = {}
    <2>1. best' = <<choice>>
      BY <1>3, <1>5 DEF Improves
    <2>2. NoneBetter(Tried \cup {choice}, choice)
      BY <1>4, <1>5 DEF NoneBetter
    <2> QED
      BY <1>1, <2>1, <2>2
  <1>6. ASSUME NEW a \in Combinations, best = <<a>>, NoneBetter(Tried, a)
        PROVE  \E b \in Combinations : best' = <<b>> /\ NoneBetter(Tried \cup {choice}, b)
    <2>1. Improves <=> Less(Score(Chosen(choice)), Score(Chosen(a)))
      <3>1. best # <<>> /\ best[1] = a
        BY <1>6
      <3> QED
        BY <3>1 DEF Improves
    <2>2. CASE Improves
      <3>1. ASSUME NEW c \in Tried, Less(Score(Chosen(c)), Score(Chosen(choice)))
            PROVE  FALSE
        <4>1. c \in Combinations
          BY DEF Tried
        <4>2. Less(Score(Chosen(c)), Score(Chosen(a)))
          BY <1>1, <1>2, <2>1, <2>2, <3>1, <4>1, LessTransitive
        <4> QED
          BY <1>6, <4>2 DEF NoneBetter
      <3>2. NoneBetter(Tried \cup {choice}, choice)
        BY <1>4, <3>1 DEF NoneBetter
      <3> QED
        BY <1>1, <1>3, <2>2, <3>2
    <2>3. CASE ~ Improves
      <3>1. NoneBetter(Tried \cup {choice}, a)
        BY <1>6, <2>1, <2>3 DEF NoneBetter
      <3> QED
        BY <1>3, <1>6, <2>3, <3>1
    <2> QED
      BY <2>2, <2>3
  <1>7. \/ best = <<>> /\ Tried = {}
        \/ \E b \in Combinations : best = <<b>> /\ NoneBetter(Tried, b)
    BY DEF SearchInv, TryCombination
  <1> QED
    BY <1>5, <1>6, <1>7

\* Each combination tried is compared with the best of those before it.
LEMMA TryCombinationKeeps ==
    ASSUME SearchInv, TryCombination
    PROVE  SearchInv'
  <1>1. /\ Ready /\ choice \in Combinations /\ plan = <<>> /\ phase = "search"
        /\ wave \in Waves /\ PackagesRead /\ LanesRead
    BY DEF SearchInv, TryCombination
  <1>2. UNCHANGED <<wave, packages, lanes, priority, candidates>>
    BY DEF TryCombination
  <1>3. /\ Ready' /\ Combinations' = Combinations
        /\ \A c : Assignments(c)' = Assignments(c)
        /\ \A C, b : NoneBetter(C, b)' <=> NoneBetter(C, b)
    BY <1>1, <1>2, DataStay DEF searchData
  <1>4. wave' \in Waves /\ PackagesRead' /\ LanesRead'
    BY <1>1, <1>2, RowsStay
  <1>5. PICK b \in Combinations : best' = <<b>> /\ NoneBetter(Tried \cup {choice}, b)
    BY BestAfter
  <1>6. CASE Turning(choice) # {}
    <2>1. choice' = NextChoice(choice) /\ phase' = "search" /\ plan' = <<>>
      BY <1>1, <1>6 DEF TryCombination
    <2>2. choice' \in Combinations
      BY <1>1, <1>6, <2>1, NextIsNext
    <2>3. Tried' \subseteq Tried \cup {choice}
      <3>1. Tried' = {c \in Combinations : Less(c, choice')}
        BY <1>3 DEF Tried
      <3> QED
        BY <1>1, <1>6, <2>1, <3>1, NextIsNext DEF Tried
    <2>4. NoneBetter(Tried, b)'
      <3>1. NoneBetter(Tried', b)
        BY <1>5, <2>3 DEF NoneBetter
      <3> QED
        BY <1>3, <3>1
    <2> QED
      BY <1>3, <1>4, <1>5, <2>1, <2>2, <2>4 DEF SearchInv
  <1>7. CASE Turning(choice) = {}
    <2>1. phase' = "done" /\ plan' = Assignments(best'[1])
      BY <1>7 DEF TryCombination
    <2>2. Combinations \subseteq Tried \cup {choice}
      BY <1>1, <1>7, NothingLeft DEF Tried
    <2>3. NoneBetter(Combinations, b)'
      <3>1. NoneBetter(Combinations', b)
        BY <1>3, <1>5, <2>2 DEF NoneBetter
      <3> QED
        BY <1>3, <3>1
    <2>4. plan' = Assignments(b)'
      <3>1. best'[1] = b
        BY <1>5
      <3>2. plan' = Assignments(b)
        BY <2>1, <3>1
      <3> QED
        BY <1>3, <3>2
    <2> QED
      BY <1>3, <1>4, <1>5, <2>1, <2>3, <2>4 DEF SearchInv
  <1> QED
    BY <1>6, <1>7

\* Without a plan some package cannot travel: without lanes none can.
LEMMA NoPlanKeeps ==
    ASSUME SearchInv, NoPlan
    PROVE  SearchInv'
  <1>1. /\ phase = "routes" /\ phase' = "done" /\ NotPlanned /\ PackagesRead /\ LanesRead
        /\ UNCHANGED <<wave, packages, lanes, best, plan>> /\ wave \in Waves
    BY DEF SearchInv, NoPlan, searching
  <1>2. Unroutable
    <2>1. CASE lanes = <<>> /\ packages # <<>>
      <3>1. ASSUME NEW p, NEW r \in RoutesOf(p) PROVE FALSE
        <4>1. r \in Seq(DOMAIN lanes) /\ Len(r) \in 1 .. MaxHops
          BY RoutesAreWays DEF Way
        <4>2. 1 \in DOMAIN r /\ r[1] \in DOMAIN lanes
          BY <4>1, LenProperties DEF MaxHops
        <4> QED
          BY <2>1, <4>2
      <3>2. 1 \in DOMAIN packages
        <4>1. Len(packages) \in Nat /\ DOMAIN packages = 1 .. Len(packages)
          BY <1>1, PackageRows
        <4>2. packages \in Seq(ToSet(packages))
          BY <1>1 DEF PackagesRead
        <4> QED
          BY <2>1, <4>1, <4>2, EmptySeq, LenProperties
      <3>3. RoutesOf(packages[1]) = {}
        BY <3>1
      <3> QED
        BY <3>2, <3>3 DEF Unroutable
    <2>2. CASE \E p \in ToSet(packages) : RoutesOf(p) = {}
      BY <2>2 DEF Unroutable, ToSet
    <2>3. CASE packages = <<>>
      BY <2>3 DEF Unroutable
    <2> QED
      BY <2>1, <2>2, <2>3 DEF NoPlan
  <1>3. PackagesRead' /\ LanesRead' /\ Unroutable'
    BY <1>1, <1>2, RowsStay
  <1>4. NotPlanned'
    BY <1>1 DEF NotPlanned
  <1> QED
    BY <1>1, <1>3, <1>4 DEF SearchInv

\* Reading the manifest and the files plans nothing.
LEMMA ReadingKeeps ==
    ASSUME SearchInv, ReadManifest \/ ReadManifestFails \/ ReadPackages \/ ReadLanes
    PROVE  SearchInv'
  <1>1. /\ wave \in Waves /\ PackagesRead /\ LanesRead /\ NotPlanned /\ NotPlanned'
        /\ UNCHANGED wave
    BY DEF SearchInv, ReadManifest, ReadManifestFails, ReadPackages, ReadLanes, searching,
           NotPlanned
  <1>2. CASE ReadManifest \/ ReadManifestFails
    <2>1. /\ phase = "manifest" /\ packages = <<>> /\ phase' \in {"packages", "done"}
          /\ UNCHANGED <<packages, lanes>>
      BY <1>2 DEF SearchInv, ReadManifest, ReadManifestFails
    <2>2. PackagesRead' /\ LanesRead' /\ Unroutable'
      BY <1>1, <2>1, RowsStay DEF Unroutable
    <2> QED
      BY <1>1, <2>1, <2>2 DEF SearchInv
  <1>3. CASE ReadPackages
    <2>1. /\ packages' \in {Usable(wave.packages), <<>>} /\ phase' = "lanes"
          /\ UNCHANGED lanes
      BY <1>3 DEF ReadPackages
    <2>2. PackagesRead' /\ LanesRead'
      BY <1>1, <2>1, RowsRead, NoRows DEF PackagesRead, LanesRead
    <2> QED
      BY <1>1, <2>1, <2>2 DEF SearchInv
  <1>4. CASE ReadLanes
    <2>1. /\ lanes' \in {Usable(wave.lanes), <<>>} /\ phase' = "routes"
          /\ UNCHANGED packages
      BY <1>4 DEF ReadLanes
    <2>2. PackagesRead' /\ LanesRead'
      BY <1>1, <2>1, RowsRead, NoRows DEF PackagesRead, LanesRead
    <2> QED
      BY <1>1, <2>1, <2>2 DEF SearchInv
  <1> QED
    BY <1>2, <1>3, <1>4

\* A step that changes no variable keeps the invariant.
LEMMA StutterKeeps ==
    ASSUME SearchInv, UNCHANGED plannerVars
    PROVE  SearchInv'
  <1>1. /\ UNCHANGED <<wave, phase, packages, lanes, priority, candidates, choice, best, plan>>
    BY DEF plannerVars
  <1>2. /\ PackagesRead' <=> PackagesRead
        /\ LanesRead' <=> LanesRead
        /\ Unroutable' <=> Unroutable
    BY <1>1, RowsStay
  <1>3. /\ Ready' <=> Ready
        /\ Combinations' = Combinations
        /\ \A c : Assignments(c)' = Assignments(c)
        /\ \A C, b : NoneBetter(C, b)' <=> NoneBetter(C, b)
    BY <1>1, DataStay DEF searchData
  <1>4. (NotPlanned' <=> NotPlanned) /\ Tried' = Tried
    BY <1>1, <1>3 DEF NotPlanned, Tried
  <1>5. CASE phase = "search"
    <2>1. /\ Ready' /\ plan' = <<>> /\ choice' \in Combinations'
      BY <1>1, <1>3, <1>5 DEF SearchInv
    <2>2. CASE best = <<>> /\ Tried = {}
      BY <1>1, <1>2, <1>4, <1>5, <2>1, <2>2 DEF SearchInv
    <2>3. ASSUME NEW b \in Combinations, best = <<b>>, NoneBetter(Tried, b)
          PROVE  SearchInv'
      <3>1. NoneBetter(Tried, b)' /\ b \in Combinations' /\ best' = <<b>>
        BY <1>1, <1>3, <1>4, <2>3
      <3> QED
        BY <1>1, <1>2, <1>5, <2>1, <3>1 DEF SearchInv
    <2> QED
      BY <1>5, <2>2, <2>3 DEF SearchInv
  <1>6. CASE phase = "done" /\ ~ (NotPlanned /\ Unroutable)
    <2>1. Ready'
      BY <1>3, <1>6 DEF SearchInv
    <2>2. PICK b \in Combinations :
                best = <<b>> /\ plan = Assignments(b) /\ NoneBetter(Combinations, b)
      BY <1>6 DEF SearchInv
    <2>3. /\ b \in Combinations' /\ best' = <<b>> /\ plan' = Assignments(b)'
          /\ NoneBetter(Combinations, b)'
      BY <1>1, <1>3, <2>2
    <2> QED
      BY <1>1, <1>2, <1>6, <2>1, <2>3 DEF SearchInv
  <1>7. CASE phase = "done" /\ NotPlanned /\ Unroutable
    BY <1>1, <1>2, <1>4, <1>7 DEF SearchInv
  <1>8. CASE phase \notin {"search", "done"}
    BY <1>1, <1>2, <1>4, <1>8 DEF SearchInv
  <1> QED
    BY <1>5, <1>6, <1>7, <1>8

\* The search compares every combination with the best one before it, in the
\* order of the product: while it runs none of those tried is better than the
\* best, and at the end none at all is; without a plan some package has no
\* route (dispatch_planner.py:80-148), for any files.
THEOREM SearchInvariant == PlannerSpec => []SearchInv
  <1>1. SearchInv /\ [PlannerNext]_plannerVars => SearchInv'
    BY ReadingKeeps, NoPlanKeeps, BeginSearchKeeps, TryCombinationKeeps, StutterKeeps
       DEF PlannerNext
  <1> QED
    BY SearchInvInit, <1>1, PTL DEF PlannerSpec

-----------------------------------------------------------------------------
\* What the plan is.

\* A plan is there only at the end, and is that of the best combination.
LEMMA PlanIs ==
    ASSUME SearchInv, plan # <<>>
    PROVE  /\ phase = "done" /\ Ready
           /\ \E b \in Combinations : best = <<b>> /\ plan = Assignments(b)
                                      /\ NoneBetter(Combinations, b)
  BY DEF SearchInv, NotPlanned

\* With ids for lanes that are their own, no choice of routes for the packages
\* is better than the plan: fewer are not late, and then neither is the total
\* lateness, the cost nor the time less, for any files.  A package with more
\* than MaxRoutes routes is compared on the route best for it alone
\* (dispatch_planner.py:110-132, 182-200).
THEOREM PlanBest == PlannerSpec => []PlanIsBest
  <1>1. ASSUME SearchInv PROVE PlanIsBest
    <2> SUFFICES ASSUME plan # <<>>, OneLanePerId, NEW S, NEW routes \in [DOMAIN packages -> S],
                        \A i \in DOMAIN packages : routes[i] \in Rivals(packages[i])
                 PROVE  ~ Less(Score(routes), Score(Chosen(best[1])))
      <3> DEFINE rivals == UNION {{i} \X Rivals(packages[i]) : i \in DOMAIN packages}
      <3>1. \A i \in DOMAIN packages : \A r : <<i, r>> \in rivals => r \in Rivals(packages[i])
        OBVIOUS
      <3> QED
        BY <3>1 DEF PlanIsBest
    <2>1. Ready
      BY <1>1, PlanIs
    <2>2. PICK b \in Combinations : best = <<b>> /\ NoneBetter(Combinations, b)
      BY <1>1, PlanIs
    <2>3. ASSUME NEW i \in DOMAIN packages
          PROVE  \E k \in DOMAIN candidates[i] : candidates[i][k] = routes[i]
      <3>1. LanesRead /\ packages[i].due \in Int /\ candidates[i] = Candidates(packages[i])
        BY <2>1, PackageRows DEF Ready
      <3> QED
        BY <3>1, RivalsAreCandidates
    <2> DEFINE c == [i \in DOMAIN packages |->
                        CHOOSE k \in DOMAIN candidates[i] : candidates[i][k] = routes[i]]
    <2>4. \A i \in DOMAIN packages :
             c[i] \in DOMAIN candidates[i] /\ candidates[i][c[i]] = routes[i]
      BY <2>3
    <2>5. c \in Combinations
      <3>1. ASSUME NEW i \in DOMAIN packages PROVE c[i] \in 1 .. MaxRoutes
        <4>1. /\ DOMAIN candidates[i] = 1 .. Len(candidates[i])
              /\ Len(candidates[i]) \in 1 .. MaxRoutes
          BY <2>1, CandidateRoutes
        <4>2. \A m \in 1 .. MaxRoutes : 1 .. m \subseteq 1 .. MaxRoutes
          BY DEF MaxRoutes
        <4> QED
          BY <2>4, <4>1, <4>2
      <3>2. c \in [DOMAIN packages -> 1 .. MaxRoutes]
        BY <3>1
      <3> QED
        BY <2>4, <3>2 DEF Combinations
    <2>6. ASSUME NEW i \in DOMAIN packages PROVE Chosen(c)[i] = routes[i]
      BY <2>4 DEF Chosen
    <2>7. Chosen(c) = routes
      <3>1. Chosen(c) = [i \in DOMAIN packages |-> Chosen(c)[i]]
        BY DEF Chosen
      <3>2. routes = [i \in DOMAIN packages |-> routes[i]]
        OBVIOUS
      <3> QED
        BY <2>6, <3>1, <3>2
    <2>8. best[1] = b
      BY <2>2
    <2> QED
      BY <2>2, <2>5, <2>7, <2>8 DEF NoneBetter
  <1> QED
    BY SearchInvariant, <1>1, PTL

\* Of packages with different ids each travels on its own route, and the
\* place it is given is its own.
OneIdEach == IsInjective([i \in DOMAIN packages |-> packages[i].id])

\* A package travels on the route it was given, ...
LEMMA OwnRoute ==
    ASSUME PackagesRead, OneIdEach, NEW routes, NEW i \in DOMAIN packages
    PROVE  Travels(routes, i) = routes[i]
  <1>1. /\ LastWith(packages, packages[i].id) \in DOMAIN packages
        /\ packages[LastWith(packages, packages[i].id)].id = packages[i].id
    BY LastWithIs DEF PackagesRead
  <1>2. LastWith(packages, packages[i].id) = i
    BY <1>1 DEF OneIdEach, IsInjective
  <1> QED
    BY <1>2 DEF Travels

\* ... is at the place it was given, ...
LEMMA OwnPlace ==
    ASSUME PackagesRead, Prioritized, OneIdEach, NEW i \in DOMAIN packages
    PROVE  LastOf(packages[i].id) \in DOMAIN priority /\ priority[LastOf(packages[i].id)] = i
  <1>1. /\ LastOf(packages[i].id) \in DOMAIN priority
        /\ packages[priority[LastOf(packages[i].id)]].id = packages[i].id
    BY LastOfIs
  <1>2. priority[LastOf(packages[i].id)] \in DOMAIN packages
    BY <1>1, PriorityPlaces
  <1> QED
    BY <1>1, <1>2 DEF OneIdEach, IsInjective

\* ... and is before those due later.
LEMMA SoonerFirst ==
    ASSUME PackagesRead, Prioritized, OneIdEach, NEW i \in DOMAIN packages,
           NEW j \in DOMAIN packages, packages[i].due < packages[j].due
    PROVE  LastOf(packages[i].id) < LastOf(packages[j].id)
  <1> DEFINE k == LastOf(packages[i].id)
             m == LastOf(packages[j].id)
  <1>1. k \in DOMAIN priority /\ priority[k] = i /\ m \in DOMAIN priority /\ priority[m] = j
    BY OwnPlace
  <1>2. DOMAIN priority = 1 .. Cardinality(DOMAIN packages)
    BY DEF Prioritized, InOrder
  <1>3. Less(PriorityKeys[i], PriorityKeys[j])
    <2> DEFINE a == PriorityKeys[i]
               b == PriorityKeys[j]
    <2>1. a[1] = packages[i].due /\ b[1] = packages[j].due
      BY DEF PriorityKeys, PriorityKey
    <2>2. 1 \in DOMAIN a \cap DOMAIN b
      BY DEF PriorityKeys, PriorityKey
    <2>3. a[1] < b[1] /\ \A q \in 1 .. 1 - 1 : a[q] = b[q]
      BY <2>1
    <2> QED
      BY <2>2, <2>3 DEF Less
  <1>4. Distinct(DOMAIN packages, PriorityKeys)
    BY PriorityKeysDistinct
  <1> HIDE DEF k, m
  <1>5. k < m
    BY <1>1, <1>2, <1>3, <1>4, InOrderFirst DEF Prioritized
  <1> QED
    BY <1>5 DEF k, m

\* The plan has an entry for each package.
LEMMA Assigned ==
    ASSUME Ready, NEW b \in Combinations
    PROVE  /\ DOMAIN Assignments(b) = DOMAIN packages
           /\ Len(Assignments(b)) = Len(packages)
           /\ \A i \in DOMAIN packages : \E k \in DOMAIN packages :
                 /\ Assignments(b)[k].package = packages[i].id
                 /\ Assignments(b)[k].route = LaneIds(Travels(Chosen(b), i))
                 /\ Assignments(b)[k].priority = LastOf(packages[i].id)
  <1> DEFINE a == Assignments(b)
  <1>1. /\ PackagesRead /\ DOMAIN priority = DOMAIN packages
        /\ \A i \in DOMAIN packages : \E k \in DOMAIN packages : priority[k] = i
    BY PriorityPlaces DEF Ready
  <1>2. Len(packages) \in Nat /\ DOMAIN packages = 1 .. Len(packages)
    BY <1>1, PackageRows
  <1>3. DOMAIN a = DOMAIN packages
    BY <1>1 DEF Assignments
  <1>4. \A k \in DOMAIN packages :
           /\ a[k].package = packages[priority[k]].id
           /\ a[k].route = LaneIds(Travels(Chosen(b), priority[k]))
           /\ a[k].priority = LastOf(packages[priority[k]].id)
    BY <1>1 DEF Assignments
  <1>5. Len(a) = Len(packages)
    <2> DEFINE S == {a[k] : k \in DOMAIN packages}
    <2>1. a = [k \in 1 .. Len(packages) |-> a[k]]
      BY <1>1, <1>2 DEF Assignments
    <2> HIDE DEF a
    <2>2. a \in [1 .. Len(packages) -> S]
      BY <1>2, <2>1
    <2>3. a \in Seq(S)
      BY <1>2, <2>2, SeqDef
    <2>4. DOMAIN a = 1 .. Len(a) /\ Len(a) \in Nat
      BY <2>3, LenProperties
    <2>5. 1 .. Len(a) = 1 .. Len(packages)
      BY <1>2, <2>2, <2>4
    <2> QED
      BY <1>2, <2>4, <2>5, SameInterval
  <1> QED
    BY <1>1, <1>3, <1>4, <1>5

\* There is a plan exactly if there are packages and each can reach its
\* destination, and a plan sends each package there on a route that exists and
\* gives the sooner due the higher priority (dispatch_planner.py:90-101,
\* 141-148), for any files.
THEOREM PlanServes == PlannerSpec => []PlanServesAll
  <1>1. ASSUME SearchInv, phase = "done" PROVE PlanServesAll
    <2> DEFINE ways == UNION {{i} \X AllRoutes(packages[i]) : i \in DOMAIN packages}
               Known(i) == {LaneIds(way[2]) : way \in {w \in ways : w[1] = i}}
    <2>1. \A i \in DOMAIN packages : RoutesOf(packages[i]) = AllRoutes(packages[i])
      BY SearchIsComplete
    <2>2. \A i \in DOMAIN packages : \A r \in AllRoutes(packages[i]) : <<i, r>> \in ways
      OBVIOUS
    <2>3. \A way \in ways : way[1] \in DOMAIN packages /\ way[2] \in AllRoutes(packages[way[1]])
      OBVIOUS
    <2>4. \A i \in DOMAIN packages : \A r \in AllRoutes(packages[i]) : LaneIds(r) \in Known(i)
      <3> SUFFICES ASSUME NEW i \in DOMAIN packages, NEW r \in AllRoutes(packages[i])
                   PROVE  LaneIds(r) \in Known(i)
        OBVIOUS
      <3>1. <<i, r>> \in {w \in ways : w[1] = i} /\ LaneIds(<<i, r>>[2]) = LaneIds(r)
        BY <2>2
      <3> HIDE DEF ways
      <3> QED
        BY <3>1
    <2> HIDE DEF ways
    <2>5. CASE NotPlanned /\ Unroutable
      <3>1. plan = <<>>
        BY <2>5 DEF NotPlanned
      <3>2. ~ (packages # <<>> /\ {way[1] : way \in ways} = DOMAIN packages)
        <4>1. CASE packages = <<>>
          BY <4>1
        <4>2. ASSUME NEW i \in DOMAIN packages, RoutesOf(packages[i]) = {},
                     {way[1] : way \in ways} = DOMAIN packages
              PROVE  FALSE
          <5>1. PICK way \in ways : way[1] = i
            BY <4>2
          <5>2. way[2] \in AllRoutes(packages[i])
            BY <2>3, <5>1
          <5> QED
            BY <2>1, <4>2, <5>2
        <4> QED
          BY <2>5, <4>1, <4>2 DEF Unroutable
      <3> QED
        BY <3>1, <3>2 DEF PlanServesAll, ways
    <2>6. ASSUME Ready, NEW b \in Combinations, plan = Assignments(b)
          PROVE  PlanServesAll
      <3>1. PackagesRead /\ Prioritized /\ packages # <<>>
        BY <2>6 DEF Ready
      <3>2. /\ Len(packages) \in Nat /\ DOMAIN packages = 1 .. Len(packages)
            /\ packages \in Seq(ToSet(packages))
        BY <3>1, PackageRows DEF PackagesRead
      <3>3. /\ DOMAIN plan = DOMAIN packages /\ Len(plan) = Len(packages)
            /\ \A i \in DOMAIN packages : \E k \in DOMAIN plan :
                 /\ plan[k].package = packages[i].id
                 /\ plan[k].route = LaneIds(Travels(Chosen(b), i))
                 /\ plan[k].priority = LastOf(packages[i].id)
        BY <2>6, Assigned
      <3>4. plan # <<>>
        <4>1. 1 \in DOMAIN packages
          BY <3>1, <3>2, EmptySeq, LenProperties
        <4> QED
          BY <3>3, <4>1
      <3>5. {way[1] : way \in ways} = DOMAIN packages
        <4>1. ASSUME NEW i \in DOMAIN packages PROVE i \in {way[1] : way \in ways}
          <5>1. PICK r : r \in AllRoutes(packages[i])
            BY <2>1, <2>6 DEF Ready
          <5>2. <<i, r>> \in ways /\ <<i, r>>[1] = i
            BY <2>2, <5>1
          <5> QED
            BY <5>2
        <4> QED
          BY <2>3, <4>1
      <3>6. ASSUME OneIdEach
            PROVE  /\ \A i \in DOMAIN packages : \E k \in DOMAIN plan :
                         plan[k].package = packages[i].id /\ plan[k].route \in Known(i)
                   /\ \A i, j \in DOMAIN packages : packages[i].due < packages[j].due =>
                         \E k, m \in DOMAIN plan :
                            /\ plan[k].package = packages[i].id
                            /\ plan[m].package = packages[j].id
                            /\ plan[k].priority < plan[m].priority
        <4>1. ASSUME NEW i \in DOMAIN packages
              PROVE  LaneIds(Travels(Chosen(b), i)) \in Known(i)
          <5>1. Travels(Chosen(b), i) = Chosen(b)[i]
            BY <3>1, <3>6, OwnRoute
          <5>2. Way(packages[i], Chosen(b)[i])
            BY <2>6, CombinationIs
          <5>3. Chosen(b)[i] \in AllRoutes(packages[i])
            BY <5>2, AllRoutesAreWays
          <5> QED
            BY <2>4, <5>1, <5>3
        <4>2. \A i, j \in DOMAIN packages : packages[i].due < packages[j].due =>
                 LastOf(packages[i].id) < LastOf(packages[j].id)
          BY <3>1, <3>6, SoonerFirst
        <4> HIDE DEF Known
        <4>3. \A i \in DOMAIN packages : \E k \in DOMAIN plan :
                 plan[k].package = packages[i].id /\ plan[k].route \in Known(i)
          BY <3>3, <4>1
        <4>4. ASSUME NEW i \in DOMAIN packages, NEW j \in DOMAIN packages,
                     packages[i].due < packages[j].due
              PROVE  \E k, m \in DOMAIN plan :
                            /\ plan[k].package = packages[i].id
                            /\ plan[m].package = packages[j].id
                            /\ plan[k].priority < plan[m].priority
          <5>1. PICK k \in DOMAIN plan : /\ plan[k].package = packages[i].id
                                         /\ plan[k].priority = LastOf(packages[i].id)
            BY <3>3
          <5>2. PICK m \in DOMAIN plan : /\ plan[m].package = packages[j].id
                                         /\ plan[m].priority = LastOf(packages[j].id)
            BY <3>3
          <5> QED
            BY <4>2, <4>4, <5>1, <5>2
        <4> QED
          BY <4>3, <4>4
      <3> QED
        BY <3>1, <3>3, <3>4, <3>5, <3>6 DEF PlanServesAll, ways, OneIdEach
    <2> QED
      BY <1>1, <2>5, <2>6 DEF SearchInv
  <1>2. SearchInv => PlanServesAll
    BY <1>1 DEF PlanServesAll
  <1> QED
    BY SearchInvariant, <1>2, PTL

-------------------------------------------------------------------------------
(* The cascade.                                                               *)

\* In run_agent, where the planner comes first and may close the trial before
\* the others look at it (agent.py:1591-1614), each still behaves as it does
\* alone, so that every invariant above is one of the cascade.
THEOREM CascadeKeepsParts == CascadeSpec => Spec /\ PlannerSpec
<1>1. CascadeInit => Init /\ PlannerInit
  BY DEF CascadeInit
<1>2. [CascadeNext]_<<vars, plannerVars>> => [Next]_vars /\ [PlannerNext]_plannerVars
  BY DEF CascadeNext, PlanFirst, Others
<1> QED BY <1>1, <1>2, PTL DEF CascadeSpec, Spec, PlannerSpec
===============================================================================
