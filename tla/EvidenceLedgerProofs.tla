------------------------- MODULE EvidenceLedgerProofs -------------------------
(***************************************************************************)
(* Proofs about EvidenceLedger for any references, documents, results,     *)
(* completions and number of helper calls, under LedgerAssumption.         *)
(***************************************************************************)
EXTENDS EvidenceLedger, TLAPS

-----------------------------------------------------------------------------
(* The inductive invariant.                                                *)

(* A bucket holds what the helpers called so far produced for it.          *)
Accumulated == \A b \in Buckets : refs[b] = Given(b)

(* Before the review the completion says what was reported, except where   *)
(* the text of a helper took the place of the message.                     *)
AsReported ==
    /\ stage # "loop" => cmd.type = reported.type
    /\ stage = "review" =>
          /\ cmd.outcome = reported.outcome /\ cmd.steps = reported.steps
          /\ cmd.message.says \subseteq reported.message.says

(* While policies are read none that states a retry time has been missed;  *)
(* afterwards the message states it, or bore another timestamp before.     *)
Searched ==
    /\ stage = "policy" =>
          /\ WantsStamp(cmd, review)
          /\ cmd.message.says \subseteq Drafted
          /\ stamp => unread = {}
          /\ ~stamp => ~review.stamp /\ (cmd.docs \cap Stamped) \ failed \subseteq unread
    /\ stage \in {"cap", "format", "done"} /\ WantsStamp(cmd, review)
          /\ (review.stamp \/ (cmd.docs \cap Stamped) \ failed # {}) =>
       "retry" \in cmd.message.says \/ "date" \in Drafted

IInv ==
    /\ TypeOK /\ Accumulated /\ AsReported /\ Searched
    /\ EvidenceIsSubmitted /\ LockedOutIsUnsupported

-----------------------------------------------------------------------------
(* What a rewrite of the ledger never touches.                             *)
Rewritten(c, d) ==
    /\ d \in Completions
    /\ d.type = c.type /\ d.outcome = c.outcome /\ d.steps = c.steps
    /\ d.message.says \subseteq c.message.says

LEMMA TextIsMessage ==
    ASSUME TypeOK, NEW b \in TextBuckets
    PROVE  Text(b) \in Messages /\ Text(b).says = {}
  BY DEF TypeOK, Text, Messages, TextBuckets

LEMMA RewrittenTransitive ==
    ASSUME NEW c, NEW d, NEW e, Rewritten(c, d), Rewritten(d, e)
    PROVE  Rewritten(c, e)
  BY DEF Rewritten

LEMMA RewrittenReflexive ==
    ASSUME NEW c \in Completions
    PROVE  Rewritten(c, c)
  BY DEF Rewritten

(* The three kinds of change the rewrites are made of.                     *)
LEMMA RowsChanged ==
    ASSUME NEW c \in Completions, NEW set \in SUBSET Refs
    PROVE  LET d == [c EXCEPT !.rows = set] IN Rewritten(c, d) /\ d.rows = set
  BY DEF Rewritten, Completions

LEMMA RowsAdded ==
    ASSUME NEW c \in Completions, NEW set \in SUBSET Refs
    PROVE  LET d == AddRows(c, set) IN Rewritten(c, d) /\ d.rows = c.rows \cup set
  <1>1. c.rows \cup set \in SUBSET Refs
    BY DEF Completions
  <1> QED
    BY <1>1, RowsChanged DEF AddRows

LEMMA MessageChanged ==
    ASSUME TypeOK, NEW c \in Completions, NEW b \in TextBuckets
    PROVE  LET d == [c EXCEPT !.message = Text(b)] IN Rewritten(c, d) /\ d.rows = c.rows
  BY TextIsMessage DEF Rewritten, Completions

LEMMA BucketsAreRefs ==
    ASSUME TypeOK, NEW b \in Buckets
    PROVE  refs[b] \in SUBSET Refs
  BY DEF TypeOK

-----------------------------------------------------------------------------
(* The nine rewrites, one by one.                                          *)

LEMMA CountRefs ==
    ASSUME TypeOK, NEW c \in Completions
    PROVE  /\ Rewritten(c, ApplyCountRefs(c))
           /\ c.type = "availability_count" =>
                 refs["availability_count"] \subseteq ApplyCountRefs(c).rows
  <1> DEFINE found == refs["availability_count"]
             kept == found \cup (c.rows \ (Catalog \cup
                         (IF found \cap Stores # {} THEN Stores ELSE {})))
  <1>1. found \in SUBSET Refs
    BY BucketsAreRefs DEF Buckets
  <1>2. kept \in SUBSET Refs
    BY <1>1 DEF Completions
  <1>3. CASE c.type # "availability_count" \/ found = {}
    BY <1>3, RewrittenReflexive DEF ApplyCountRefs
  <1>4. CASE ~(c.type # "availability_count" \/ found = {})
    <2>1. ApplyCountRefs(c) = [c EXCEPT !.rows = kept]
      BY <1>4 DEF ApplyCountRefs
    <2> HIDE DEF kept
    <2>2. Rewritten(c, ApplyCountRefs(c)) /\ ApplyCountRefs(c).rows = kept
      BY <1>2, <2>1, RowsChanged
    <2> QED
      BY <2>2 DEF kept
  <1> QED
    BY <1>3, <1>4

LEMMA NoteRefs ==
    ASSUME TypeOK, NEW c \in Completions
    PROVE  /\ Rewritten(c, ApplyNoteRefs(c))
           /\ c.type # "catalog_lookup" => ApplyNoteRefs(c).rows = c.rows
           /\ c.type = "catalog_lookup" => refs["support_note"] \subseteq ApplyNoteRefs(c).rows
  <1> DEFINE found == refs["support_note"]
             kept == (c.rows \ Catalog) \cup found
  <1>1. found \in SUBSET Refs
    BY BucketsAreRefs DEF Buckets
  <1>2. kept \in SUBSET Refs
    BY <1>1 DEF Completions
  <1>3. CASE c.type # "catalog_lookup" \/ found = {}
    BY <1>3, RewrittenReflexive DEF ApplyNoteRefs
  <1>4. CASE ~(c.type # "catalog_lookup" \/ found = {})
    <2>1. ApplyNoteRefs(c) = [c EXCEPT !.rows = kept]
      BY <1>4 DEF ApplyNoteRefs
    <2> HIDE DEF kept
    <2>2. Rewritten(c, ApplyNoteRefs(c)) /\ ApplyNoteRefs(c).rows = kept
      BY <1>2, <2>1, RowsChanged
    <2> QED
      BY <1>4, <2>2 DEF kept
  <1> QED
    BY <1>3, <1>4

LEMMA ManagerRefs ==
    ASSUME TypeOK, NEW c \in Completions
    PROVE  /\ Rewritten(c, ApplyManagerRefs(c))
           /\ ApplyManagerRefs(c).rows = c.rows \cup refs["manager"]
  BY BucketsAreRefs, RowsAdded DEF ApplyManagerRefs, Buckets, Helpers

LEMMA FraudRefs ==
    ASSUME TypeOK, NEW c \in Completions
    PROVE  /\ Rewritten(c, ApplyFraud(c))
           /\ ApplyFraud(c).rows = c.rows \cup refs["fraud"]
  <1> DEFINE d == IF text["fraud"] # 0 /\ "amount" \in prompt
                  THEN [c EXCEPT !.message = Text("fraud")] ELSE c
  <1>1. Rewritten(c, d) /\ d.rows = c.rows
    BY MessageChanged, RewrittenReflexive DEF TextBuckets
  <1>2. ApplyFraud(c) = AddRows(d, refs["fraud"])
    BY DEF ApplyFraud
  <1> HIDE DEF d
  <1>3. refs["fraud"] \in SUBSET Refs /\ d \in Completions
    BY <1>1, BucketsAreRefs DEF Buckets, Helpers, Rewritten
  <1>4. Rewritten(d, ApplyFraud(c)) /\ ApplyFraud(c).rows = d.rows \cup refs["fraud"]
    BY <1>2, <1>3, RowsAdded
  <1> QED
    BY <1>1, <1>4, RewrittenTransitive

LEMMA ReceiptRefs ==
    ASSUME TypeOK, NEW c \in Completions
    PROVE  /\ Rewritten(c, ApplyReceipt(c))
           /\ c.rows \subseteq ApplyReceipt(c).rows
           /\ c.type = "receipt_price_check" => refs["receipt"] \subseteq ApplyReceipt(c).rows
  <1>1. CASE c.type # "receipt_price_check"
    BY <1>1, RewrittenReflexive DEF ApplyReceipt
  <1>2. CASE c.type = "receipt_price_check"
    <2> DEFINE d == IF text["receipt"] # 0 THEN [c EXCEPT !.message = Text("receipt")] ELSE c
    <2>1. Rewritten(c, d) /\ d.rows = c.rows
      BY MessageChanged, RewrittenReflexive DEF TextBuckets
    <2>2. ApplyReceipt(c) = AddRows(d, refs["receipt"])
      BY <1>2 DEF ApplyReceipt
    <2> HIDE DEF d
    <2>3. refs["receipt"] \in SUBSET Refs /\ d \in Completions
      BY <2>1, BucketsAreRefs DEF Buckets, Helpers, Rewritten
    <2>4. Rewritten(d, ApplyReceipt(c)) /\ ApplyReceipt(c).rows = d.rows \cup refs["receipt"]
      BY <2>2, <2>3, RowsAdded
    <2> QED
      BY <2>1, <2>4, RewrittenTransitive
  <1> QED
    BY <1>1, <1>2

LEMMA CityRefs ==
    ASSUME TypeOK, NEW c \in Completions
    PROVE  /\ Rewritten(c, ApplyCity(c))
           /\ c.type # "availability_lookup" \/ refs["city"] = {} => ApplyCity(c).rows = c.rows
           /\ c.type = "availability_lookup" => refs["city"] \subseteq ApplyCity(c).rows
  <1>1. CASE c.type # "availability_lookup"
    BY <1>1, RewrittenReflexive DEF ApplyCity
  <1>2. CASE c.type = "availability_lookup"
    <2> DEFINE message == IF text["city"] # 0 THEN Text("city") ELSE c.message
               rows == IF refs["city"] # {} THEN refs["city"] ELSE c.rows
    <2>1. ApplyCity(c) = [c EXCEPT !.message = message, !.rows = rows]
      BY <1>2 DEF ApplyCity
    <2>2. message \in Messages /\ message.says \subseteq c.message.says
      BY TextIsMessage DEF TextBuckets, Completions
    <2>3. rows \in SUBSET Refs /\ refs["city"] \subseteq rows
          /\ (refs["city"] = {} => rows = c.rows)
      BY BucketsAreRefs DEF Buckets, Helpers, Completions
    <2> HIDE DEF message, rows
    <2> QED
      BY <2>1, <2>2, <2>3, <1>2 DEF Rewritten, Completions
  <1> QED
    BY <1>1, <1>2

LEMMA AvailabilityLookupRefs ==
    ASSUME TypeOK, NEW c \in Completions
    PROVE  /\ Rewritten(c, ApplyAvailabilityLookup(c))
           /\ c.rows \subseteq ApplyAvailabilityLookup(c).rows
           /\ c.type = "availability_lookup" =>
                 refs["availability_lookup"] \subseteq ApplyAvailabilityLookup(c).rows
  <1>1. refs["availability_lookup"] \in SUBSET Refs
    BY BucketsAreRefs DEF Buckets
  <1> QED
    BY <1>1, RowsAdded, RewrittenReflexive DEF ApplyAvailabilityLookup

LEMMA CatalogLookupRefs ==
    ASSUME TypeOK, NEW c \in Completions
    PROVE  /\ Rewritten(c, ApplyCatalogLookup(c))
           /\ c.rows \subseteq ApplyCatalogLookup(c).rows
           /\ c.type = "catalog_lookup" /\ "table" \in prompt =>
                 refs["catalog_lookup"] \subseteq ApplyCatalogLookup(c).rows
  <1>1. CASE c.type # "catalog_lookup" \/ "table" \notin prompt
    BY <1>1, RewrittenReflexive DEF ApplyCatalogLookup
  <1>2. CASE ~(c.type # "catalog_lookup" \/ "table" \notin prompt)
    <2> DEFINE d == IF text["catalog_lookup"] # 0
                    THEN [c EXCEPT !.message = Text("catalog_lookup")] ELSE c
    <2>1. Rewritten(c, d) /\ d.rows = c.rows
      BY MessageChanged, RewrittenReflexive DEF TextBuckets
    <2>2. ApplyCatalogLookup(c) = AddRows(d, refs["catalog_lookup"])
      BY <1>2 DEF ApplyCatalogLookup
    <2> HIDE DEF d
    <2>3. refs["catalog_lookup"] \in SUBSET Refs /\ d \in Completions
      BY <2>1, BucketsAreRefs DEF Buckets, Rewritten
    <2>4. /\ Rewritten(d, ApplyCatalogLookup(c))
          /\ ApplyCatalogLookup(c).rows = d.rows \cup refs["catalog_lookup"]
      BY <2>2, <2>3, RowsAdded
    <2> QED
      BY <2>1, <2>4, RewrittenTransitive
  <1> QED
    BY <1>1, <1>2

LEMMA DocsAdded ==
    ASSUME TypeOK, NEW c \in Completions
    PROVE  Rewritten(c, ApplyDocs(c)) /\ ApplyDocs(c).rows = c.rows
  <1>1. c.docs \cup Relevant(c.type) \in SUBSET Docs
    BY DEF Relevant, TypeOK, Completions
  <1> QED
    BY <1>1 DEF ApplyDocs, Rewritten, Completions

(* All of them in their order: nothing due to the answer is lost again.    *)
LEMMA CompletionHasDue ==
    ASSUME TypeOK, Accumulated, NEW c \in Completions
    PROVE  /\ Rewritten(c, ApplyToCompletion(c))
           /\ \A b \in Due(c.type) : Given(b) \subseteq ApplyToCompletion(c).rows
  <1> DEFINE c1 == ApplyCountRefs(c)
             c2 == ApplyNoteRefs(c1)
             c3 == ApplyManagerRefs(c2)
             c4 == ApplyFraud(c3)
             c5 == ApplyReceipt(c4)
             c6 == ApplyCity(c5)
             c7 == ApplyAvailabilityLookup(c6)
             c8 == ApplyCatalogLookup(c7)
             c9 == ApplyDocs(c8)
  <1>0. ApplyToCompletion(c) = c9
    BY DEF ApplyToCompletion
  <1>1. /\ Rewritten(c, c1)
        /\ c.type = "availability_count" => refs["availability_count"] \subseteq c1.rows
    BY CountRefs
  <1> HIDE DEF c1
  <1>2. /\ Rewritten(c1, c2)
        /\ c1.type # "catalog_lookup" => c2.rows = c1.rows
        /\ c1.type = "catalog_lookup" => refs["support_note"] \subseteq c2.rows
    BY <1>1, NoteRefs DEF Rewritten
  <1> HIDE DEF c2
  <1>3. Rewritten(c2, c3) /\ c3.rows = c2.rows \cup refs["manager"]
    BY <1>2, ManagerRefs DEF Rewritten
  <1> HIDE DEF c3
  <1>4. Rewritten(c3, c4) /\ c4.rows = c3.rows \cup refs["fraud"]
    BY <1>3, FraudRefs DEF Rewritten
  <1> HIDE DEF c4
  <1>5. /\ Rewritten(c4, c5) /\ c4.rows \subseteq c5.rows
        /\ c4.type = "receipt_price_check" => refs["receipt"] \subseteq c5.rows
    BY <1>4, ReceiptRefs DEF Rewritten
  <1> HIDE DEF c5
  <1>6. /\ Rewritten(c5, c6)
        /\ c5.type # "availability_lookup" \/ refs["city"] = {} => c6.rows = c5.rows
        /\ c5.type = "availability_lookup" => refs["city"] \subseteq c6.rows
    BY <1>5, CityRefs DEF Rewritten
  <1> HIDE DEF c6
  <1>7. /\ Rewritten(c6, c7) /\ c6.rows \subseteq c7.rows
        /\ c6.type = "availability_lookup" => refs["availability_lookup"] \subseteq c7.rows
    BY <1>6, AvailabilityLookupRefs DEF Rewritten
  <1> HIDE DEF c7
  <1>8. /\ Rewritten(c7, c8) /\ c7.rows \subseteq c8.rows
        /\ c7.type = "catalog_lookup" /\ "table" \in prompt =>
              refs["catalog_lookup"] \subseteq c8.rows
    BY <1>7, CatalogLookupRefs DEF Rewritten
  <1> HIDE DEF c8
  <1>9. Rewritten(c8, c9) /\ c9.rows = c8.rows
    BY <1>8, DocsAdded DEF Rewritten
  <1> HIDE DEF c9
  <1>10. Rewritten(c, c9)
    BY <1>1, <1>2, <1>3, <1>4, <1>5, <1>6, <1>7, <1>8, <1>9 DEF Rewritten
  <1>11. /\ c1.type = c.type /\ c4.type = c.type /\ c5.type = c.type /\ c6.type = c.type
         /\ c7.type = c.type
    BY <1>1, <1>2, <1>3, <1>4, <1>5, <1>6, <1>7 DEF Rewritten
  <1>12. \A b \in Due(c.type) : b \in Buckets /\ refs[b] = Given(b)
    BY DEF Due, Buckets, Helpers, Accumulated
  <1>13. Given("city") = refs["city"]
    BY DEF Accumulated, Buckets, Helpers
  <1>14. \A b \in Due(c.type) : refs[b] \subseteq c9.rows
    <2>1. CASE c.type = "availability_lookup"
      BY <2>1, <1>3, <1>4, <1>5, <1>6, <1>7, <1>8, <1>9, <1>11, <1>13 DEF Due
    <2>2. CASE c.type = "catalog_lookup"
      BY <2>2, <1>2, <1>3, <1>4, <1>5, <1>6, <1>7, <1>8, <1>9, <1>11 DEF Due
    <2>3. CASE c.type \notin {"availability_lookup", "catalog_lookup"}
      BY <2>3, <1>1, <1>2, <1>3, <1>4, <1>5, <1>6, <1>7, <1>8, <1>9, <1>11 DEF Due
    <2> QED
      BY <2>1, <2>2, <2>3
  <1> QED
    BY <1>0, <1>10, <1>12, <1>14

-----------------------------------------------------------------------------
(* One lemma per action.                                                   *)

LEMMA GivesRefs ==
    ASSUME NEW r \in Results
    PROVE  \A b \in DOMAIN Gives(r) : b \in Buckets /\ Gives(r)[b] \in SUBSET Refs
  <1>1. CASE r \in CatalogResults
    <2>1. /\ r.tool = "catalog" /\ r.store \subseteq Refs /\ r.count \subseteq Refs
          /\ r.matched \subseteq Refs /\ r.note \subseteq Refs
      BY <1>1 DEF CatalogResults, Refs
    <2> QED
      BY <2>1 DEF Gives, Buckets
  <1>2. CASE r \in HelperResults
    <2>1. r.tool \in Helpers /\ r.tool # "catalog" /\ r.refs \in SUBSET Refs
      BY <1>2 DEF HelperResults, Helpers
    <2> QED
      BY <2>1 DEF Gives, Buckets
  <1> QED
    BY <1>1, <1>2, LedgerAssumption

LEMMA UnionOfAdded ==
    ASSUME NEW S, NEW T
    PROVE  UNION (S \cup {T}) = (UNION S) \cup T
  OBVIOUS

(* A call adds its own contribution to what was given before.              *)
LEMMA GivenAppended ==
    ASSUME TypeOK, NEW r \in Results, log' = Append(log, r), NEW b
    PROVE  Given(b)' = Given(b) \cup
                         (IF b \in DOMAIN Gives(r) THEN Gives(r)[b] ELSE {})
  <1>1. /\ Len(log) \in Nat /\ DOMAIN log = 1..Len(log)
        /\ DOMAIN log' = 1..(Len(log) + 1)
        /\ log'[Len(log) + 1] = r
        /\ \A i \in DOMAIN log : log'[i] = log[i]
    BY DEF TypeOK
  <1> DEFINE At(l) == {j \in DOMAIN l : b \in DOMAIN Gives(l[j])}
             now == IF b \in DOMAIN Gives(r) THEN Gives(r)[b] ELSE {}
  <1>2. Given(b) = UNION {Gives(log[i])[b] : i \in At(log)}
    BY DEF Given
  <1>3. Given(b)' = UNION {Gives(log'[i])[b] : i \in At(log')}
    BY DEF Given
  <1>4. At(log') = At(log) \cup (IF b \in DOMAIN Gives(r) THEN {Len(log) + 1} ELSE {})
    BY <1>1
  <1>5. \A i \in At(log) : log'[i] = log[i]
    BY <1>1
  <1> HIDE DEF At
  <1>6. CASE b \in DOMAIN Gives(r)
    <2> DEFINE before == {Gives(log'[i])[b] : i \in At(log)}
               after == {Gives(log'[i])[b] : i \in At(log')}
    <2>1. after = before \cup {Gives(r)[b]}
      <3>1. At(log') = At(log) \cup {Len(log) + 1} /\ log'[Len(log) + 1] = r
        BY <1>1, <1>4, <1>6
      <3> QED
        BY <3>1, Zenon
    <2>2. UNION after = (UNION before) \cup Gives(r)[b]
      <3> HIDE DEF before, after
      <3> QED
        BY <2>1, UnionOfAdded
    <2>3. UNION before = Given(b)
      BY <1>2, <1>5
    <2>4. Given(b)' = UNION after
      BY <1>3, Zenon
    <2> HIDE DEF before, after
    <2> QED
      BY <1>6, <2>2, <2>3, <2>4
  <1>7. CASE b \notin DOMAIN Gives(r)
    BY <1>7, <1>2, <1>3, <1>4, <1>5
  <1> QED
    BY <1>6, <1>7

(* Steps after the report that leave type, rows and the ledger alone.      *)
LEMMA EvidenceKept ==
    ASSUME Accumulated, EvidenceIsSubmitted, stage # "loop",
           UNCHANGED <<prompt, ledgerVars>>,
           cmd'.type = cmd.type, cmd'.rows = cmd.rows
    PROVE  Accumulated' /\ EvidenceIsSubmitted'
  <1>1. \A b : Given(b)' = Given(b)
    BY DEF Given, ledgerVars
  <1>2. Due(cmd.type)' = Due(cmd.type)
    BY <1>1 DEF Due
  <1> QED
    BY <1>1, <1>2 DEF Accumulated, EvidenceIsSubmitted, ledgerVars

LEMMA InitIInv == Init => IInv
  <1> SUFFICES ASSUME Init PROVE IInv
    OBVIOUS
  <1>1. NoCompletion \in Completions /\ NoReview \in Reviews
    BY LedgerAssumption DEF NoCompletion, NoReview, Completions, Reviews, Types, Outcomes,
       Messages
  <1>2. TypeOK
    <2>1. prompt \subseteq Marks
      BY LedgerAssumption DEF Init
    <2>2. log \in Seq(Results)
      BY DEF Init
    <2>3. refs \in [Buckets -> SUBSET Refs] /\ text \in [TextBuckets -> Nat]
      BY DEF Init
    <2> QED
      BY <1>1, <2>1, <2>2, <2>3 DEF Init, TypeOK
  <1>3. Accumulated
    BY DEF Init, Accumulated, Given
  <1> QED
    BY <1>2, <1>3 DEF Init, IInv, AsReported, Searched, EvidenceIsSubmitted,
       LockedOutIsUnsupported

LEMMA HelperReturnsIInv ==
    ASSUME IInv, NEW r \in Results, HelperReturns(r)
    PROVE  IInv'
  <1> USE DEF IInv, HelperReturns
  <1>1. TypeOK'
    <2>1. log' \in Seq(Results)
      BY DEF TypeOK
    <2>2. refs' \in [Buckets -> SUBSET Refs]
      BY GivesRefs DEF TypeOK, Merge
    <2>3. text' \in [TextBuckets -> Nat]
      BY DEF TypeOK
    <2> QED
      BY <2>1, <2>2, <2>3 DEF TypeOK
  <1>2. Accumulated'
    BY GivenAppended DEF Accumulated, Merge
  <1> QED
    BY <1>1, <1>2 DEF AsReported, Searched, EvidenceIsSubmitted, LockedOutIsUnsupported

LEMMA ReadDocIInv ==
    ASSUME IInv, NEW d \in Docs, ReadDoc(d)
    PROVE  IInv'
  <1> USE DEF IInv, ReadDoc
  <1>1. TypeOK'
    BY DEF TypeOK, ledgerVars
  <1>2. Accumulated'
    BY DEF Accumulated, Given, ledgerVars
  <1> QED
    BY <1>1, <1>2 DEF AsReported, Searched, EvidenceIsSubmitted, LockedOutIsUnsupported

LEMMA ReportIInv ==
    ASSUME IInv, NEW c \in Reports, Report(c)
    PROVE  IInv'
  <1> USE DEF IInv, Report
  <1>1. c \in Completions
    BY LedgerAssumption
  <1>2. /\ Rewritten(c, cmd')
        /\ \A b \in Due(c.type) : Given(b) \subseteq cmd'.rows
    BY <1>1, CompletionHasDue
  <1>3. TypeOK'
    BY <1>1, <1>2 DEF TypeOK, Rewritten, ledgerVars
  <1>4. \A b : Given(b)' = Given(b)
    BY DEF Given, ledgerVars
  <1>5. Accumulated'
    BY <1>4 DEF Accumulated, ledgerVars
  <1>6. EvidenceIsSubmitted'
    <2>1. Due(cmd.type)' = Due(c.type)
      BY <1>2, <1>4 DEF Due, Rewritten
    <2> QED
      BY <1>2, <1>4, <2>1 DEF EvidenceIsSubmitted
  <1>7. AsReported'
    BY <1>2 DEF AsReported, Rewritten
  <1> QED
    BY <1>3, <1>5, <1>6, <1>7 DEF Searched, LockedOutIsUnsupported

(* What the two recovery rewrites may change.                              *)
LEMMA ClosedRetryChanges ==
    ASSUME NEW c \in Completions, NEW time \in Found(c)
    PROVE  LET d == ClosedRetry(c, time) IN
           /\ d \in Completions /\ d.type = c.type /\ d.rows = c.rows
           /\ d.docs = c.docs /\ d.steps = c.steps
           /\ c.outcome # "OK" => d = c
           /\ d.outcome # c.outcome => c.type = "payment_recovery" /\ c.outcome = "OK"
           /\ (/\ c.type = "payment_recovery" /\ c.outcome = "OK"
               /\ "closed" \in Evidence(c) /\ "started" \notin Evidence(c)) =>
                 d.outcome = "NONE_UNSUPPORTED"
  <1> DEFINE message == [by |-> "closed", call |-> 0,
                         says |-> {"token", "closed"} \cup time]
  <1>0. time \in SUBSET Timestamps
    BY DEF Found
  <1>1. message \in Messages
    BY <1>0 DEF Messages, Claims
  <1>2. "NONE_UNSUPPORTED" \in Outcomes
    BY DEF Outcomes
  <1>3. CASE \/ c.type # "payment_recovery" \/ c.outcome # "OK"
             \/ "closed" \notin Evidence(c) \/ "started" \in Evidence(c)
    BY <1>3 DEF ClosedRetry
  <1>4. CASE ~(\/ c.type # "payment_recovery" \/ c.outcome # "OK"
               \/ "closed" \notin Evidence(c) \/ "started" \in Evidence(c))
    <2>1. ClosedRetry(c, time) = [c EXCEPT !.outcome = "NONE_UNSUPPORTED", !.message = message]
      BY <1>4 DEF ClosedRetry
    <2> HIDE DEF message
    <2> QED
      BY <1>1, <1>2, <1>4, <2>1 DEF Completions
  <1> QED
    BY <1>3, <1>4

LEMMA ApplyReviewChanges ==
    ASSUME NEW c \in Completions, NEW r \in Reviews
    PROVE  LET d == ApplyReview(c, r) IN
           /\ d \in Completions /\ d.type = c.type /\ d.rows = c.rows
           /\ d.docs = c.docs /\ d.steps = c.steps
           /\ c.type = "payment_recovery" /\ r.lockout =>
                 d.message.says = IF r.text THEN r.says ELSE c.message.says
           /\ d.outcome = IF /\ c.type = "payment_recovery" /\ (r.paid \/ r.lockout)
                             /\ c.outcome = "NONE_CLARIFICATION"
                          THEN "NONE_UNSUPPORTED" ELSE c.outcome
  <1> DEFINE message == IF r.text THEN [by |-> "review", call |-> 0, says |-> r.says]
                        ELSE c.message
             outcome == IF c.outcome = "NONE_CLARIFICATION" THEN "NONE_UNSUPPORTED"
                        ELSE c.outcome
  <1>1. message \in Messages /\ message.says = IF r.text THEN r.says ELSE c.message.says
    BY LedgerAssumption DEF Messages, Reviews, Completions
  <1>2. outcome \in Outcomes
    BY DEF Outcomes, Completions
  <1>3. CASE c.type # "payment_recovery" \/ ~(r.paid \/ r.lockout)
    BY <1>3 DEF ApplyReview
  <1>4. CASE ~(c.type # "payment_recovery" \/ ~(r.paid \/ r.lockout))
    <2>1. ApplyReview(c, r) = [c EXCEPT !.outcome = outcome, !.message = message]
      BY <1>4 DEF ApplyReview
    <2>2. outcome = IF /\ c.type = "payment_recovery" /\ (r.paid \/ r.lockout)
                       /\ c.outcome = "NONE_CLARIFICATION"
                    THEN "NONE_UNSUPPORTED" ELSE c.outcome
      BY <1>4
    <2> HIDE DEF message, outcome
    <2> QED
      BY <1>1, <1>2, <2>1, <2>2 DEF Completions
  <1> QED
    BY <1>3, <1>4

LEMMA ReviewIInv ==
    ASSUME IInv, NEW r \in Reviews, Review(r)
    PROVE  IInv'
  <1> USE DEF IInv
  <1>0. PICK time \in Found(cmd) : cmd' = ApplyReview(ClosedRetry(cmd, time), r)
    BY DEF Review
  <1> DEFINE c == ClosedRetry(cmd, time)
  <1>1. cmd \in Completions /\ stage = "review" /\ reported' = reported /\ review' = r
    BY DEF TypeOK, Review
  <1>2. /\ c \in Completions /\ c.type = cmd.type /\ c.rows = cmd.rows
        /\ c.docs = cmd.docs /\ c.steps = cmd.steps
        /\ cmd.outcome # "OK" => c = cmd
        /\ c.outcome # cmd.outcome => cmd.type = "payment_recovery" /\ cmd.outcome = "OK"
        /\ (/\ cmd.type = "payment_recovery" /\ cmd.outcome = "OK"
            /\ "closed" \in Evidence(cmd) /\ "started" \notin Evidence(cmd)) =>
              c.outcome = "NONE_UNSUPPORTED"
    BY <1>1, ClosedRetryChanges
  <1>3. cmd' = ApplyReview(c, r)
    BY <1>0
  <1> HIDE DEF c
  <1>4. /\ cmd' \in Completions /\ cmd'.type = c.type /\ cmd'.rows = c.rows
        /\ cmd'.docs = c.docs /\ cmd'.steps = c.steps
        /\ c.type = "payment_recovery" /\ r.lockout =>
              cmd'.message.says = IF r.text THEN r.says ELSE c.message.says
        /\ cmd'.outcome = IF /\ c.type = "payment_recovery" /\ (r.paid \/ r.lockout)
                             /\ c.outcome = "NONE_CLARIFICATION"
                          THEN "NONE_UNSUPPORTED" ELSE c.outcome
    BY <1>2, <1>3, ApplyReviewChanges
  <1>5. /\ UNCHANGED <<prompt, loaded, ledgerVars, reported, failed>>
        /\ stage' \in {"policy", "cap"}
        /\ IF WantsStamp(cmd, r)'
           THEN /\ stage' = "policy" /\ stamp' = r.stamp
                /\ unread' = IF r.stamp THEN {} ELSE cmd.docs \cap Policies
           ELSE stage' = "cap" /\ UNCHANGED <<stamp, unread>>
    BY DEF Review, WantsStamp, PaymentKnown
  <1>6. TypeOK'
    BY <1>1, <1>4, <1>5 DEF TypeOK, Reviews, Completions, ledgerVars
  <1>7. Accumulated' /\ EvidenceIsSubmitted'
    BY <1>1, <1>2, <1>4, <1>5, EvidenceKept
  <1>8. /\ cmd.type = reported.type /\ cmd.outcome = reported.outcome
        /\ cmd.steps = reported.steps /\ Evidence(cmd) \subseteq Evidence(reported)
    BY <1>1 DEF AsReported, Evidence
  <1>9. AsReported'
    BY <1>1, <1>2, <1>4, <1>5, <1>8 DEF AsReported
  <1>10. Searched'
    <2>1. stage' = "cap" => ~WantsStamp(cmd, review)'
      BY <1>1, <1>5 DEF WantsStamp, PaymentKnown
    <2>2. stage' = "policy" => WantsStamp(cmd, review)'
      BY <1>1, <1>5 DEF WantsStamp, PaymentKnown
    <2>3. stage' = "policy" => /\ stamp' = r.stamp
                               /\ unread' = IF r.stamp THEN {} ELSE cmd.docs \cap Policies
      BY <1>5
    <2>4. cmd'.docs = cmd.docs /\ Stamped \subseteq Policies
      BY <1>2, <1>4, LedgerAssumption
    <2>5. r.stamp \in BOOLEAN
      BY DEF Reviews
    <2>6. WantsStamp(cmd, review)' => cmd'.message.says \subseteq Drafted'
      <3> SUFFICES ASSUME WantsStamp(cmd, review)'
                   PROVE  cmd'.message.says \subseteq Drafted'
        OBVIOUS
      <3>1. r.lockout /\ cmd'.type = "payment_recovery"
        BY <1>1 DEF WantsStamp
      <3>2. cmd.outcome # "OK"
        BY <3>1 DEF Review, NoReview, Reviewed
      <3>3. cmd'.message.says = IF r.text THEN r.says ELSE cmd.message.says
        BY <1>2, <1>4, <3>1, <3>2
      <3>4. cmd.message.says \subseteq reported.message.says
        BY <1>1 DEF AsReported
      <3> QED
        BY <1>1, <3>3, <3>4 DEF Drafted
    <2> QED
      BY <1>1, <1>5, <2>1, <2>2, <2>3, <2>4, <2>5, <2>6 DEF Searched
  <1>11. LockedOutIsUnsupported'
    <2>1. CASE /\ reported.type = "payment_recovery" /\ reported.outcome = "OK"
               /\ "closed" \in reported.steps /\ "started" \notin Evidence(reported)
      <3>1. "closed" \in Evidence(cmd) /\ "started" \notin Evidence(cmd)
        BY <1>8, <2>1 DEF Evidence
      <3>2. cmd'.outcome = "NONE_UNSUPPORTED"
        BY <1>2, <1>4, <1>8, <2>1, <3>1
      <3> QED
        BY <1>1, <2>1, <3>2 DEF LockedOutIsUnsupported
    <2>2. CASE ~(/\ reported.type = "payment_recovery" /\ reported.outcome = "OK"
                 /\ "closed" \in reported.steps /\ "started" \notin Evidence(reported))
      <3>1. cmd'.outcome # reported.outcome =>
              /\ reported.type = "payment_recovery"
              /\ reported.outcome \in {"OK", "NONE_CLARIFICATION"}
        BY <1>2, <1>4, <1>8
      <3>2. reported.type = "payment_recovery" /\ reported.outcome = "NONE_CLARIFICATION"
              /\ (r.paid \/ r.lockout) => cmd'.outcome = "NONE_UNSUPPORTED"
        BY <1>2, <1>4, <1>8
      <3>3. Evidence(reported)' = Evidence(reported)
        BY <1>1 DEF Evidence
      <3> QED
        BY <1>1, <2>2, <3>1, <3>2, <3>3 DEF LockedOutIsUnsupported
    <2> QED
      BY <2>1, <2>2
  <1> QED
    BY <1>6, <1>7, <1>9, <1>10, <1>11

(* The steps after the review keep the outcome, so what it settled stays.  *)
LEMMA OutcomeKept ==
    ASSUME LockedOutIsUnsupported, stage \notin {"loop", "review"},
           cmd'.outcome = cmd.outcome, UNCHANGED <<reported, review>>
    PROVE  LockedOutIsUnsupported'
  <1>1. Evidence(reported)' = Evidence(reported)
    BY DEF Evidence
  <1> QED
    BY <1>1 DEF LockedOutIsUnsupported

LEMMA ReadPolicyIInv ==
    ASSUME IInv, NEW d \in Docs, NEW ok \in BOOLEAN, ReadPolicy(d, ok)
    PROVE  IInv'
  <1> USE DEF IInv, ReadPolicy
  <1>1. TypeOK'
    BY DEF TypeOK, ledgerVars
  <1>2. Accumulated' /\ EvidenceIsSubmitted'
    BY EvidenceKept
  <1>3. AsReported'
    BY DEF AsReported
  <1>4. Searched'
    <2>1. WantsStamp(cmd, review)' = WantsStamp(cmd, review)
      BY DEF WantsStamp, PaymentKnown
    <2>2. stamp' \in BOOLEAN /\ stamp' = (ok /\ d \in Stamped)
      OBVIOUS
    <2>3. stamp = FALSE
      BY DEF Searched, TypeOK
    <2>4. ~stamp' => (cmd.docs \cap Stamped) \ failed' \subseteq unread'
      BY <2>3 DEF Searched
    <2>5. stamp' => unread' = {}
      OBVIOUS
    <2> QED
      BY <2>1, <2>2, <2>3, <2>4, <2>5 DEF Searched, Drafted
  <1>5. LockedOutIsUnsupported'
    BY OutcomeKept
  <1> QED
    BY <1>1, <1>2, <1>3, <1>4, <1>5

LEMMA StampMessageIInv ==
    ASSUME IInv, StampMessage
    PROVE  IInv'
  <1> USE DEF IInv
  <1>1. cmd \in Completions /\ cmd.message \in Messages
    BY DEF TypeOK, Completions
  <1>3. /\ cmd' \in Completions
        /\ cmd'.type = cmd.type /\ cmd'.rows = cmd.rows /\ cmd'.outcome = cmd.outcome
        /\ cmd'.docs = cmd.docs
        /\ stamp => "retry" \in cmd'.message.says \/ "date" \in cmd.message.says
    <2>1. CASE ~stamp \/ cmd.message.says \cap Timestamps # {}
      BY <1>1, <2>1 DEF StampMessage, Timestamps
    <2>2. CASE ~(~stamp \/ cmd.message.says \cap Timestamps # {})
      <3>1. cmd.message.says \cup {"retry", "closed"} \in SUBSET Claims
            /\ cmd.steps \cup {"retry", "closed"} \in SUBSET Claims
        BY <1>1 DEF Messages, Claims, Timestamps, Completions
      <3> QED
        BY <1>1, <2>2, <3>1 DEF StampMessage, Completions, Messages
    <2> QED
      BY <2>1, <2>2
  <1>4. /\ UNCHANGED <<prompt, loaded, ledgerVars, reported, review, unread, stamp, failed>>
        /\ stage = "policy" /\ unread = {} /\ stage' = "cap"
    BY DEF StampMessage
  <1>5. TypeOK'
    BY <1>3, <1>4 DEF TypeOK, ledgerVars
  <1>6. Accumulated' /\ EvidenceIsSubmitted'
    BY <1>3, <1>4, EvidenceKept
  <1>7. AsReported'
    BY <1>3, <1>4 DEF AsReported
  <1>8. Searched'
    <2>1. WantsStamp(cmd, review) /\ cmd.message.says \subseteq Drafted /\ Drafted' = Drafted
      BY <1>4 DEF Searched, Drafted
    <2>2. ~stamp => ~review.stamp /\ (cmd.docs \cap Stamped) \ failed = {}
      BY <1>4 DEF Searched
    <2>3. stamp \in BOOLEAN
      BY DEF TypeOK
    <2> QED
      BY <1>3, <1>4, <2>1, <2>2, <2>3 DEF Searched
  <1>9. LockedOutIsUnsupported'
    BY <1>3, <1>4, OutcomeKept
  <1> QED
    BY <1>5, <1>6, <1>7, <1>8, <1>9

LEMMA CapMessageIInv ==
    ASSUME IInv, CapMessage
    PROVE  IInv'
  <1> USE DEF IInv
  <1>1. /\ cmd' \in Completions
        /\ cmd'.type = cmd.type /\ cmd'.rows = cmd.rows /\ cmd'.outcome = cmd.outcome
        /\ cmd'.docs = cmd.docs
        /\ cmd.type # "discount" => cmd' = cmd
    <2> DEFINE message == [by |-> "cap", call |-> 0, says |-> {"token", "percent"}]
    <2>1. message \in Messages /\ cmd \in Completions
      BY DEF Messages, Claims, TypeOK
    <2>2. \/ cmd' = cmd
          \/ cmd.type = "discount" /\ cmd' = [cmd EXCEPT !.message = message]
      BY DEF CapMessage
    <2> HIDE DEF message
    <2> QED
      BY <2>1, <2>2 DEF Completions
  <1>2. /\ UNCHANGED <<prompt, loaded, ledgerVars, reported, review, unread, stamp, failed>>
        /\ stage = "cap" /\ stage' = "format"
    BY DEF CapMessage
  <1>3. TypeOK'
    BY <1>1, <1>2 DEF TypeOK, ledgerVars
  <1>4. Accumulated' /\ EvidenceIsSubmitted'
    BY <1>1, <1>2, EvidenceKept
  <1>5. AsReported'
    BY <1>1, <1>2 DEF AsReported
  <1>6. Searched'
    BY <1>1, <1>2 DEF Searched, WantsStamp, PaymentKnown, Drafted
  <1>7. LockedOutIsUnsupported'
    BY <1>1, <1>2, OutcomeKept
  <1> QED
    BY <1>3, <1>4, <1>5, <1>6, <1>7

LEMMA FormatIInv ==
    ASSUME IInv, NEW says \in Rewrites, Format(says)
    PROVE  IInv'
  <1> USE DEF IInv
  <1> DEFINE kept == IF cmd.outcome = "NONE_CLARIFICATION"
                      THEN cmd.message.says \ {"token"} ELSE cmd.message.says
             old == [cmd EXCEPT !.message.says = kept]
             new == [by |-> "formatter", call |-> cmd.message.call, says |-> says]
  <1>1. cmd \in Completions /\ cmd.message \in Messages
    BY DEF TypeOK, Completions
  <1>2. /\ new \in Messages /\ kept \in SUBSET Claims
        /\ cmd.outcome # "NONE_CLARIFICATION" => kept = cmd.message.says
    BY <1>1, LedgerAssumption DEF Messages
  <1>3. cmd' \in IF cmd.outcome \in Preserved
                 THEN {old}
                 ELSE {cmd, [cmd EXCEPT !.message = new]}
    BY DEF Format
  <1> HIDE DEF new, kept
  <1>4. /\ cmd' \in Completions
        /\ cmd'.type = cmd.type /\ cmd'.rows = cmd.rows /\ cmd'.outcome = cmd.outcome
        /\ cmd'.docs = cmd.docs /\ cmd'.steps = cmd.steps
        /\ cmd.outcome = "NONE_UNSUPPORTED" => cmd'.message.says = cmd.message.says
    BY <1>1, <1>2, <1>3 DEF Completions, Messages, Preserved
  <1>5. /\ UNCHANGED <<prompt, loaded, ledgerVars, reported, review, unread, stamp, failed>>
        /\ stage = "format" /\ stage' = "done"
    BY DEF Format
  <1>6. TypeOK'
    BY <1>4, <1>5 DEF TypeOK, ledgerVars
  <1>7. Accumulated' /\ EvidenceIsSubmitted'
    BY <1>4, <1>5, EvidenceKept
  <1>8. AsReported'
    BY <1>4, <1>5 DEF AsReported
  <1>9. Searched'
    BY <1>4, <1>5 DEF Searched, WantsStamp, PaymentKnown, Drafted
  <1>10. LockedOutIsUnsupported'
    BY <1>4, <1>5, OutcomeKept
  <1> QED
    BY <1>6, <1>7, <1>8, <1>9, <1>10

-----------------------------------------------------------------------------
LEMMA NextIInv == IInv /\ [Next]_vars => IInv'
  <1> SUFFICES ASSUME IInv, [Next]_vars PROVE IInv'
    OBVIOUS
  <1>1. CASE \E r \in Results : HelperReturns(r)
    BY <1>1, HelperReturnsIInv
  <1>2. CASE \E d \in Docs : ReadDoc(d)
    BY <1>2, ReadDocIInv
  <1>3. CASE \E c \in Reports : Report(c)
    BY <1>3, ReportIInv
  <1>4. CASE \E r \in Reviews : Review(r)
    BY <1>4, ReviewIInv
  <1>5. CASE \E d \in Docs, ok \in BOOLEAN : ReadPolicy(d, ok)
    BY <1>5, ReadPolicyIInv
  <1>6. CASE StampMessage
    BY <1>6, StampMessageIInv
  <1>7. CASE CapMessage
    BY <1>7, CapMessageIInv
  <1>8. CASE \E says \in Rewrites : Format(says)
    BY <1>8, FormatIInv
  <1>9. CASE UNCHANGED vars
    <2>1. UNCHANGED <<prompt, loaded, log, refs, text, stage, reported, cmd, review,
                      unread, stamp, failed>>
      BY <1>9 DEF vars, ledgerVars
    <2>2. \A b : Given(b)' = Given(b)
      BY <2>1 DEF Given
    <2>3. Due(cmd.type)' = Due(cmd.type)
      BY <2>1, <2>2 DEF Due
    <2>4. TypeOK' /\ Accumulated' /\ EvidenceIsSubmitted'
      BY <2>1, <2>2, <2>3 DEF IInv, TypeOK, Accumulated, EvidenceIsSubmitted
    <2>5. WantsStamp(cmd, review)' = WantsStamp(cmd, review)
          /\ Evidence(reported)' = Evidence(reported)
      BY <2>1 DEF WantsStamp, PaymentKnown, Evidence
    <2>6. Drafted' = Drafted
      BY <2>1 DEF Drafted
    <2> QED
      BY <2>1, <2>4, <2>5, <2>6 DEF IInv, AsReported, Searched, LockedOutIsUnsupported
  <1> QED
    BY <1>1, <1>2, <1>3, <1>4, <1>5, <1>6, <1>7, <1>8, <1>9 DEF Next

LEMMA Invariant == Spec => []IInv
  BY InitIInv, NextIInv, PTL DEF Spec

(* The buckets of the ledger, the completion and the review keep their     *)
(* types through the loop and the whole completion pipeline                *)
(* (evidence_ledger.py:19-42, agent.py:1842-1860).                         *)
THEOREM TypeCorrect == Spec => []TypeOK
  <1>1. IInv => TypeOK
    BY DEF IInv
  <1> QED
    BY <1>1, Invariant, PTL

(* Whatever the helpers returned, in however many calls, and whichever     *)
(* rewrites followed: every reference due to the type of the answer is in  *)
(* the submission (evidence_ledger.py:13-17, apply_to_completion).         *)
THEOREM EvidenceSubmitted == Spec => []EvidenceIsSubmitted
  <1>1. IInv => EvidenceIsSubmitted
    BY DEF IInv
  <1> QED
    BY <1>1, Invariant, PTL

(* A payment recovery that the model or the review found blocked ends as   *)
(* unsupported, and no other outcome is ever rewritten (agent.py,          *)
(* _apply_payment_recovery_closed_retry_outcome and the review).           *)
THEOREM LockedOutUnsupported == Spec => []LockedOutIsUnsupported
  <1>1. IInv => LockedOutIsUnsupported
    BY DEF IInv
  <1> QED
    BY <1>1, Invariant, PTL

(* The refusal states the retry time if the review or any cited policy     *)
(* that could be read gives one, in whatever order the policies are read   *)
(* and whichever reads fail, unless the message the review or the model    *)
(* wrote bears another timestamp (_apply_payment_recovery_retry_timestamp, *)
(* payment_recovery.py:61).                                                *)
THEOREM LockoutTimeStated == Spec => []LockoutTimeIsStated
  <1>1. IInv => LockoutTimeIsStated
    BY DEF IInv, Searched, LockoutTimeIsStated, RetryTimeKnown
  <1> QED
    BY <1>1, Invariant, PTL
=============================================================================
