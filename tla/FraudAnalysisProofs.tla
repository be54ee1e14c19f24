------------------------- MODULE FraudAnalysisProofs -------------------------
(***************************************************************************)
(* Proofs about FraudAnalysis for any payment history, export and paging.  *)
(***************************************************************************)
EXTENDS FraudAnalysis, ListProofs

-----------------------------------------------------------------------------
(* What the analysis knows of its rows.                                    *)

SourceOK == source \in Histories \cup Exports

(* Rows are well-formed rows of the source, in its order.                  *)
RowsOfSource ==
    /\ rows \in Seq({source[i] : i \in DOMAIN source})
    /\ \A k \in DOMAIN rows :
          /\ rows[k].index \in DOMAIN source
          /\ rows[k] = source[rows[k].index] /\ WellFormed(rows[k])
    /\ \A k, l \in DOMAIN rows : k < l => rows[k].index < rows[l].index

(* Row i of the source was parsed, or has no id, or was counted as bad.    *)
Accounted(i) ==
    \/ source[i].form = "unnamed"
    \/ source[i].form = "malformed" /\ skipped
    \/ \E k \in DOMAIN rows : rows[k] = source[i]

(* While pages are fetched all rows before the offset are accounted for.   *)
Paged ==
    pc \in {"probe", "page"} =>
        /\ \E n \in Nat : offset = n * PageSize
        /\ \A k \in DOMAIN rows : rows[k].index <= offset
        /\ \A i \in DOMAIN source : i <= offset => Accounted(i)
        /\ warning = FALSE

(* What is analysed without a warning is complete.                         *)
Complete ==
    (pc \in {"detect", "select"} \/ answer # <<>>) /\ ~ warning =>
        \A i \in DOMAIN source : asker = "export" \/ i <= Reach =>
            \/ source[i].form = "unnamed"
            \/ \E k \in DOMAIN rows : rows[k] = source[i]

Answers == answer # <<>> => pc = "done" /\ answer[1].warned = warning

Scalars ==
    /\ pc \in {"probe", "page", "read", "detect", "select", "done"}
    /\ offset \in Nat /\ {skipped, warning} \subseteq BOOLEAN
    /\ pc = "read" => rows = <<>>
    /\ pc \in {"probe", "page"} => asker # "export"

RIInv == Scalars /\ SourceOK /\ RowsOfSource /\ Paged /\ Complete /\ Answers

LEMMA SourceIsSequence ==
    ASSUME SourceOK
    PROVE  /\ source \in Seq({source[i] : i \in DOMAIN source})
           /\ Len(source) \in Nat /\ DOMAIN source = 1 .. Len(source)
           /\ \A i \in DOMAIN source :
                 /\ source[i].form \in {"row", "malformed", "unnamed"}
                 /\ source[i].index = i
  <1>1. source \in Seq({source[i] : i \in DOMAIN source})
    BY SourceAssumption DEF SourceOK
  <1>2. Len(source) \in Nat /\ DOMAIN source = 1 .. Len(source)
    <2> DEFINE S == {source[i] : i \in DOMAIN source}
    <2>1. source \in Seq(S)
      BY <1>1
    <2> HIDE DEF S
    <2> QED
      BY <2>1
  <1> QED
    BY <1>1, <1>2, SourceAssumption DEF SourceOK

LEMMA MinOfTwo ==
    ASSUME NEW a \in Nat, NEW b \in Nat
    PROVE  Min({a, b}) = IF a <= b THEN a ELSE b
  <1> DEFINE m == IF a <= b THEN a ELSE b
  <1>1. m \in {a, b} /\ \A y \in {a, b} : m =< y
    OBVIOUS
  <1>2. \A x \in {a, b} : (\A y \in {a, b} : x =< y) => x = m
    OBVIOUS
  <1> QED
    BY <1>1, <1>2 DEF Min

(* A page is the next rows of the source.                                  *)
LEMMA PageIs ==
    ASSUME SourceOK, offset \in Nat
    PROVE  LET page == PageAt(offset) IN
           /\ page \in Seq({source[i] : i \in DOMAIN source})
           /\ Len(page) \in Nat /\ Len(page) <= PageSize
           /\ Len(page) > 0 => offset + Len(page) <= Len(source)
           /\ Len(page) < PageSize => Len(source) <= offset + Len(page)
           /\ \A i \in 1 .. Len(page) : page[i] = source[offset + i]
  <1> DEFINE S == {source[i] : i \in DOMAIN source}
             m == Min({offset + PageSize, Len(source)})
  <1>0. DOMAIN source = 1 .. Len(source)
    BY SourceIsSequence
  <1>1. Len(source) \in Nat /\ PageSize \in Nat /\ PageSize > 0
    BY SourceIsSequence, PageAssumption
  <1>2. m = IF offset + PageSize <= Len(source) THEN offset + PageSize ELSE Len(source)
    BY <1>1, MinOfTwo
  <1>3. PageAt(offset) = SubSeq(source, offset + 1, m)
    BY DEF PageAt
  <1> HIDE DEF m
  <1>4. m \in Nat /\ m <= Len(source)
    BY <1>1, <1>2
  <1>5. \A i \in offset + 1 .. m : source[i] \in S
    BY <1>0, <1>1, <1>4
  <1> HIDE DEF S
  <1>6. /\ PageAt(offset) \in Seq(S)
        /\ Len(PageAt(offset)) = IF offset + 1 <= m THEN m - (offset + 1) + 1 ELSE 0
        /\ \A i \in 1 .. m - (offset + 1) + 1 : PageAt(offset)[i] = source[(offset + 1) + i - 1]
    BY <1>3, <1>4, <1>5, SubSeqProperties
  <1>7. \A i \in 1 .. Len(PageAt(offset)) : PageAt(offset)[i] = source[offset + i]
    <2> SUFFICES ASSUME NEW i \in 1 .. Len(PageAt(offset))
                 PROVE  PageAt(offset)[i] = source[offset + i]
      OBVIOUS
    <2>1. i \in 1 .. m - (offset + 1) + 1 /\ (offset + 1) + i - 1 = offset + i
      BY <1>4, <1>6
    <2> QED
      BY <1>6, <2>1
  <1>8. /\ Len(PageAt(offset)) \in Nat /\ Len(PageAt(offset)) <= PageSize
        /\ Len(PageAt(offset)) > 0 => offset + Len(PageAt(offset)) <= Len(source)
        /\ Len(PageAt(offset)) < PageSize => Len(source) <= offset + Len(PageAt(offset))
    BY <1>1, <1>2, <1>4, <1>6
  <1> QED
    BY <1>6, <1>7, <1>8 DEF S

(* What a page adds to the rows: its well-formed rows, at positions pos of *)
(* the source.                                                             *)
LEMMA PageKept ==
    ASSUME SourceOK, offset \in Nat
    PROVE  LET page == PageAt(offset)
               list == Kept(page, {i \in DOMAIN page : WellFormed(page[i])})
           IN  /\ list \in Seq({source[i] : i \in DOMAIN source})
               /\ \E pos :
                     /\ \A k \in 1 .. Len(list) :
                           /\ pos[k] \in DOMAIN source
                           /\ offset < pos[k] /\ pos[k] <= offset + PageSize
                           /\ list[k] = source[pos[k]] /\ WellFormed(list[k])
                     /\ \A k, l \in 1 .. Len(list) : k < l => pos[k] < pos[l]
               /\ \A i \in DOMAIN source :
                     offset < i /\ i <= offset + Len(page) /\ WellFormed(source[i]) =>
                         \E k \in 1 .. Len(list) : list[k] = source[i]
  <1> DEFINE S == {source[i] : i \in DOMAIN source}
             page == PageAt(offset)
             good == {i \in DOMAIN page : WellFormed(page[i])}
             list == Kept(page, good)
  <1>1. /\ page \in Seq(S)
        /\ Len(page) \in Nat /\ Len(page) <= PageSize
        /\ Len(page) > 0 => offset + Len(page) <= Len(source)
        /\ \A i \in 1 .. Len(page) : page[i] = source[offset + i]
    BY PageIs
  <1>2. Len(source) \in Nat /\ DOMAIN source = 1 .. Len(source)
    BY SourceIsSequence
  <1>3. PageSize \in Nat
    BY PageAssumption
  <1> HIDE DEF S, page
  <1>4. DOMAIN page = 1 .. Len(page) /\ good \in SUBSET (1 .. Len(page))
    BY <1>1
  <1>5. list \in Seq(S) /\ \E at : Selects(list, page, good, at)
    BY <1>1, <1>4, KeptSelects
  <1>6. PICK at : Selects(list, page, good, at)
    BY <1>5
  <1>7. Len(list) \in Nat
    BY <1>5
  <1> DEFINE n == Len(list)
             pos == [k \in 1 .. n |-> offset + at[k]]
  <1>8. /\ at \in [1 .. n -> good]
        /\ \A k \in 1 .. n : list[k] = page[at[k]]
        /\ \A k, l \in 1 .. n : k < l => at[k] < at[l]
        /\ \A i \in good : \E k \in 1 .. n : at[k] = i
    BY <1>6 DEF Selects
  <1>9. \A k \in 1 .. n : at[k] \in 1 .. Len(page) /\ WellFormed(page[at[k]])
    BY <1>8, <1>4
  <1> HIDE DEF list, n
  <1>10. ASSUME NEW k \in 1 .. n
         PROVE  /\ pos[k] \in DOMAIN source
                /\ offset < pos[k] /\ pos[k] <= offset + PageSize
                /\ list[k] = source[pos[k]] /\ WellFormed(list[k])
    <2> DEFINE a == at[k]
    <2>1. a \in 1 .. Len(page) /\ pos[k] = offset + a
      BY <1>9
    <2>2. list[k] = page[a] /\ page[a] = source[offset + a] /\ WellFormed(page[a])
      BY <1>1, <1>8, <1>9
    <2> HIDE DEF a
    <2>3. offset + a \in 1 .. Len(source) /\ offset < offset + a /\ offset + a <= offset + PageSize
      BY <1>1, <1>2, <1>3, <2>1
    <2> QED
      BY <1>2, <2>1, <2>2, <2>3
  <1>11. ASSUME NEW k \in 1 .. n, NEW l \in 1 .. n, k < l PROVE pos[k] < pos[l]
    <2>1. at[k] < at[l] /\ at[k] \in Nat /\ at[l] \in Nat
      BY <1>1, <1>8, <1>9, <1>11
    <2> QED
      BY <2>1
  <1>12. ASSUME NEW i \in DOMAIN source, offset < i, i <= offset + Len(page),
                WellFormed(source[i])
         PROVE  \E k \in 1 .. n : list[k] = source[i]
    <2>1. i - offset \in 1 .. Len(page) /\ offset + (i - offset) = i
      BY <1>1, <1>2, <1>12
    <2>2. page[i - offset] = source[i]
      BY <1>1, <2>1
    <2>3. i - offset \in good
      BY <1>4, <1>12, <2>1, <2>2
    <2>4. PICK k \in 1 .. n : at[k] = i - offset
      BY <1>8, <2>3
    <2> QED
      BY <1>8, <2>2, <2>4
  <1>13. \E q : /\ \A k \in 1 .. n :
                     /\ q[k] \in DOMAIN source
                     /\ offset < q[k] /\ q[k] <= offset + PageSize
                     /\ list[k] = source[q[k]] /\ WellFormed(list[k])
                /\ \A k, l \in 1 .. n : k < l => q[k] < q[l]
    <2> HIDE DEF pos
    <2> QED
      BY <1>10, <1>11
  <1> QED
    BY <1>5, <1>12, <1>13 DEF S, page, list, n

(* Multiples of the page size from the last offset on reach Reach.         *)
LEMMA ReachReached ==
    ASSUME NEW n \in Nat, n * PageSize >= MaxOffset
    PROVE  Reach <= n * PageSize
  <1> DEFINE d == (MaxOffset + PageSize - 1) \div PageSize
  <1>1. PageSize \in Nat /\ PageSize > 0 /\ MaxOffset \in Nat
    BY PageAssumption
  <1>2. d \in Nat /\ d * PageSize <= MaxOffset + PageSize - 1
    BY <1>1
  <1>3. Reach = d * PageSize
    BY DEF Reach
  <1> HIDE DEF d
  <1>4. d <= n
    <2> SUFFICES ASSUME d >= n + 1 PROVE FALSE
      BY <1>2
    <2>1. d * PageSize >= (n + 1) * PageSize
      BY <1>1, <1>2
    <2>2. (n + 1) * PageSize = n * PageSize + PageSize /\ n * PageSize \in Nat
      BY <1>1
    <2>3. d * PageSize \in Nat
      BY <1>1, <1>2
    <2> QED
      BY <1>1, <1>2, <2>1, <2>2, <2>3
  <1> QED
    BY <1>1, <1>2, <1>3, <1>4

LEMMA FetchPageRows ==
    ASSUME RIInv, FetchPage
    PROVE  /\ RowsOfSource'
           /\ \A k \in DOMAIN rows' : rows'[k].index <= offset'
           /\ \A i \in DOMAIN source :
                 i <= offset + Len(PageAt(offset)) => Accounted(i)'
  <1> DEFINE S == {source[i] : i \in DOMAIN source}
             page == PageAt(offset)
             list == Kept(page, {i \in DOMAIN page : WellFormed(page[i])})
             m == Len(rows)
             n == Len(list)
  <1>0. SourceOK /\ offset \in Nat /\ pc = "page" /\ source' = source
        /\ offset' = offset + PageSize /\ rows' = rows \o list
        /\ skipped' = (skipped \/ \E i \in DOMAIN page : page[i].form = "malformed")
    BY DEF RIInv, Scalars, FetchPage
  <1>1. /\ list \in Seq(S)
        /\ \E pos :
              /\ \A k \in 1 .. n :
                    /\ pos[k] \in DOMAIN source
                    /\ offset < pos[k] /\ pos[k] <= offset + PageSize
                    /\ list[k] = source[pos[k]] /\ WellFormed(list[k])
              /\ \A k, l \in 1 .. n : k < l => pos[k] < pos[l]
        /\ \A i \in DOMAIN source :
              offset < i /\ i <= offset + Len(page) /\ WellFormed(source[i]) =>
                  \E k \in 1 .. n : list[k] = source[i]
    BY <1>0, PageKept
  <1>2. /\ rows \in Seq(S)
        /\ \A k \in DOMAIN rows :
              /\ rows[k].index \in DOMAIN source
              /\ rows[k] = source[rows[k].index] /\ WellFormed(rows[k])
              /\ rows[k].index <= offset
        /\ \A k, l \in DOMAIN rows : k < l => rows[k].index < rows[l].index
    BY <1>0 DEF RIInv, RowsOfSource, Paged
  <1>3. /\ Len(source) \in Nat /\ DOMAIN source = 1 .. Len(source)
        /\ \A i \in DOMAIN source : /\ source[i].form \in {"row", "malformed", "unnamed"}
                                    /\ source[i].index = i
    BY <1>0, SourceIsSequence
  <1>4. /\ Len(page) \in Nat
        /\ \A i \in 1 .. Len(page) : page[i] = source[offset + i]
        /\ DOMAIN page = 1 .. Len(page)
    <2>1. page \in Seq(S) /\ Len(page) \in Nat
          /\ \A i \in 1 .. Len(page) : page[i] = source[offset + i]
      BY <1>0, PageIs
    <2> HIDE DEF page, S
    <2> QED
      BY <2>1
  <1>5. PICK pos :
              /\ \A k \in 1 .. n :
                    /\ pos[k] \in DOMAIN source
                    /\ offset < pos[k] /\ pos[k] <= offset + PageSize
                    /\ list[k] = source[pos[k]] /\ WellFormed(list[k])
              /\ \A k, l \in 1 .. n : k < l => pos[k] < pos[l]
    BY <1>1
  <1> HIDE DEF S, page, list
  <1>6. /\ rows' \in Seq(S) /\ m \in Nat /\ n \in Nat /\ Len(rows') = m + n
        /\ DOMAIN rows' = 1 .. m + n /\ DOMAIN rows = 1 .. m
        /\ \A k \in 1 .. m + n : rows'[k] = IF k <= m THEN rows[k] ELSE list[k - m]
    BY <1>0, <1>1, <1>2, ConcatProperties
  <1> HIDE DEF m, n
  <1>7. PageSize \in Nat
    BY PageAssumption
  <1>8. ASSUME NEW k \in 1 .. m + n, ~ (k <= m)
        PROVE  /\ k - m \in 1 .. n /\ rows'[k] = source[pos[k - m]]
               /\ rows'[k].index = pos[k - m] /\ WellFormed(rows'[k])
               /\ pos[k - m] \in DOMAIN source
               /\ offset < pos[k - m] /\ pos[k - m] <= offset + PageSize
    <2>1. k - m \in 1 .. n
      BY <1>6, <1>8
    <2>2. rows'[k] = list[k - m]
      BY <1>6, <1>8
    <2> QED
      BY <1>3, <1>5, <2>1, <2>2
  <1>9. ASSUME NEW k \in 1 .. m + n, k <= m
        PROVE  /\ k \in DOMAIN rows /\ rows'[k] = rows[k]
    BY <1>6, <1>9
  <1>10. ASSUME NEW k \in 1 .. m + n
         PROVE  /\ rows'[k].index \in DOMAIN source
                /\ rows'[k] = source[rows'[k].index] /\ WellFormed(rows'[k])
                /\ rows'[k].index <= offset + PageSize
    <2>1. CASE k <= m
      <3>1. rows[k].index \in 1 .. Len(source) /\ rows[k].index <= offset
        BY <1>2, <1>3, <1>9, <2>1
      <3>2. rows[k].index <= offset + PageSize
        BY <1>0, <1>3, <1>7, <3>1
      <3> QED
        BY <1>2, <1>9, <2>1, <3>2
    <2>2. CASE ~ (k <= m)
      BY <1>8, <2>2
    <2> QED
      BY <2>1, <2>2
  <1>11. ASSUME NEW k \in 1 .. m + n, NEW l \in 1 .. m + n, k < l
         PROVE  rows'[k].index < rows'[l].index
    <2>1. CASE l <= m
      <3>1. k <= m
        BY <1>6, <1>11, <2>1
      <3> QED
        BY <1>2, <1>9, <1>11, <2>1, <3>1
    <2>2. CASE k <= m /\ ~ (l <= m)
      <3>1. rows'[k].index <= offset /\ rows'[k].index \in Nat
        BY <1>2, <1>3, <1>9, <2>2
      <3>2. rows'[l].index \in Nat /\ offset < rows'[l].index
        BY <1>3, <1>8, <2>2
      <3>3. offset \in Nat
        BY <1>0
      <3> QED
        BY <3>1, <3>2, <3>3
    <2>3. CASE ~ (k <= m)
      <3>1. ~ (l <= m) /\ k - m < l - m
        BY <1>6, <1>11, <2>3
      <3> QED
        BY <1>5, <1>8, <2>3, <3>1
    <2> QED
      BY <2>1, <2>2, <2>3
  <1>12. RowsOfSource'
    BY <1>0, <1>6, <1>10, <1>11 DEF RowsOfSource, S
  <1>13. ASSUME NEW i \in DOMAIN source, i <= offset + Len(page)
         PROVE  Accounted(i)'
    <2>1. CASE i <= offset
      <3>1. Accounted(i)
        BY <1>0, <2>1 DEF RIInv, Paged
      <3>2. \A k \in DOMAIN rows : k \in DOMAIN rows' /\ rows'[k] = rows[k]
        BY <1>6
      <3> QED
        BY <1>0, <3>1, <3>2 DEF Accounted
    <2>2. CASE ~ (i <= offset)
      <3>1. i \in Nat /\ offset < i /\ i - offset \in 1 .. Len(page) /\ offset + (i - offset) = i
        BY <1>0, <1>3, <1>4, <1>13, <2>2
      <3>2. CASE source[i].form = "unnamed"
        BY <1>0, <3>2 DEF Accounted
      <3>3. CASE source[i].form = "malformed"
        <4>1. page[i - offset] = source[i]
          BY <1>4, <3>1
        <4>2. skipped'
          BY <1>0, <1>4, <3>1, <3>3, <4>1
        <4> QED
          BY <1>0, <3>3, <4>2 DEF Accounted
      <3>4. CASE source[i].form = "row"
        <4>1. PICK k \in 1 .. n : list[k] = source[i]
          BY <1>1, <1>13, <3>1, <3>4 DEF WellFormed, n
        <4>2. m + k \in 1 .. m + n /\ ~ (m + k <= m) /\ (m + k) - m = k
          BY <1>6
        <4>3. rows'[m + k] = source[i]
          BY <1>6, <4>1, <4>2
        <4> QED
          BY <1>0, <1>6, <4>2, <4>3 DEF Accounted
      <3> QED
        BY <1>3, <3>2, <3>3, <3>4
    <2> QED
      BY <2>1, <2>2
  <1> QED
    BY <1>0, <1>6, <1>10, <1>12, <1>13 DEF page

LEMMA FetchPageRIInv ==
    ASSUME RIInv, FetchPage
    PROVE  RIInv'
  <1> DEFINE page == PageAt(offset)
  <1>1. /\ RowsOfSource'
        /\ \A k \in DOMAIN rows' : rows'[k].index <= offset'
        /\ \A i \in DOMAIN source : i <= offset + Len(page) => Accounted(i)'
    BY FetchPageRows
  <1>2. /\ offset' = offset + PageSize /\ pc = "page"
        /\ UNCHANGED <<asker, source, detectVars, answer>>
        /\ IF LastPage(page) THEN warning' = skipped' /\ pc' = "detect"
                             ELSE UNCHANGED <<warning, pc>>
        /\ skipped' \in BOOLEAN
    BY DEF FetchPage, RIInv, Scalars
  <1>3. /\ PageSize \in Nat /\ PageSize > 0 /\ MaxOffset \in Nat /\ offset \in Nat
        /\ Len(source) \in Nat /\ DOMAIN source = 1 .. Len(source)
        /\ \A i \in DOMAIN source : source[i].form \in {"row", "malformed", "unnamed"}
    BY PageAssumption, SourceIsSequence DEF RIInv, Scalars
  <1>4. /\ Len(page) \in Nat /\ Len(page) <= PageSize
        /\ Len(page) < PageSize => Len(source) <= offset + Len(page)
    BY <1>3, PageIs DEF RIInv
  <1>5. PICK n \in Nat : offset = n * PageSize
    BY <1>2 DEF RIInv, Paged
  <1>6. n + 1 \in Nat /\ offset' = (n + 1) * PageSize
    BY <1>2, <1>3, <1>5
  <1>7. answer' = <<>> /\ warning = FALSE
    BY <1>2 DEF RIInv, Answers, Paged
  <1> HIDE DEF page
  <1>8. Scalars'
    BY <1>2, <1>3, <1>7 DEF Scalars, RIInv
  <1>9. SourceOK' /\ Answers'
    BY <1>2, <1>7 DEF RIInv, SourceOK, Answers
  <1>10. CASE LastPage(page)
    <2>1. warning' = skipped' /\ pc' = "detect"
      BY <1>2, <1>10
    <2>2. ASSUME NEW i \in DOMAIN source, i <= Reach, ~ skipped'
          PROVE  Accounted(i)'
      <3>1. CASE Len(page) < PageSize
        BY <1>1, <1>3, <1>4, <3>1
      <3>2. CASE ~ (Len(page) < PageSize) /\ offset + PageSize >= MaxOffset
        <4>1. Len(page) = PageSize
          BY <1>3, <1>4, <3>2
        <4>2. (n + 1) * PageSize >= MaxOffset
          BY <1>2, <1>6, <3>2
        <4>3. Reach <= (n + 1) * PageSize
          BY <1>6, <4>2, ReachReached
        <4>4. Reach \in Int /\ offset + PageSize \in Nat /\ i \in Nat
          BY <1>3 DEF Reach
        <4>5. i <= offset + PageSize
          BY <1>2, <1>6, <2>2, <4>3, <4>4
        <4> QED
          BY <1>1, <4>1, <4>5
      <3> QED
        BY <1>10, <3>1, <3>2 DEF LastPage
    <2>3. asker # "export" => Complete'
      BY <1>2, <2>1, <2>2 DEF Complete, Accounted, Reach
    <2>4. asker # "export"
      BY <1>2 DEF RIInv, Scalars
    <2> QED
      BY <1>1, <1>8, <1>9, <2>1, <2>3, <2>4 DEF RIInv, Paged
  <1>11. CASE ~ LastPage(page)
    <2>1. warning' = FALSE /\ pc' = "page"
      BY <1>2, <1>7, <1>11
    <2>2. Len(page) = PageSize
      BY <1>3, <1>4, <1>11 DEF LastPage
    <2>3. \A i \in DOMAIN source : i <= offset' => Accounted(i)'
      BY <1>1, <1>2, <2>2
    <2>4. Paged'
      BY <1>1, <1>2, <1>6, <2>1, <2>3 DEF Paged
    <2>5. Complete'
      BY <1>7, <2>1 DEF Complete
    <2> QED
      BY <1>1, <1>8, <1>9, <2>4, <2>5 DEF RIInv
  <1> QED
    BY <1>10, <1>11

LEMMA InitRIInv == Init => RIInv
  <1> SUFFICES ASSUME Init PROVE RIInv
    OBVIOUS
  <1>1. source \in Histories \cup Exports /\ rows = <<>> /\ answer = <<>> /\ offset = 0
        /\ skipped = FALSE /\ warning = FALSE /\ pc \in {"probe", "read"}
        /\ (pc = "probe" => asker # "export")
    BY DEF Init
  <1>2. DOMAIN source \in SUBSET Nat /\ 0 * PageSize = 0
        /\ \A i \in DOMAIN source : ~ (i <= 0)
    BY <1>1, SourceIsSequence, PageAssumption DEF SourceOK
  <1>3. rows \in Seq({source[i] : i \in DOMAIN source}) /\ DOMAIN rows = {}
    BY <1>1
  <1> QED
    BY <1>1, <1>2, <1>3 DEF RIInv, Scalars, SourceOK, RowsOfSource, Paged, Complete, Answers

LEMMA NextRIInv == RIInv /\ [Next]_vars => RIInv'
  <1> SUFFICES ASSUME RIInv, [Next]_vars PROVE RIInv'
    OBVIOUS
  <1> USE DEF RIInv
  <1>1. CASE Probe
    <2>1. UNCHANGED <<asker, source, offset, rows, skipped, warning, answer>>
          /\ pc = "probe" /\ pc' = "page"
      BY <1>1 DEF Probe, fetchVars
    <2>2. Scalars' /\ SourceOK' /\ RowsOfSource' /\ Answers'
      BY <2>1 DEF Scalars, SourceOK, RowsOfSource, Answers
    <2>3. Paged'
      BY <2>1 DEF Paged, Accounted
    <2>4. Complete'
      BY <2>1 DEF Complete, Answers
    <2> QED
      BY <2>2, <2>3, <2>4
  <1>2. CASE FetchFails
    <2>1. UNCHANGED <<asker, source, offset, rows, skipped, answer>>
          /\ pc \in {"probe", "page"} /\ pc' = "detect" /\ warning' = TRUE
      BY <1>2 DEF FetchFails
    <2> QED
      BY <2>1 DEF Scalars, SourceOK, RowsOfSource, Answers, Paged, Complete
  <1>3. CASE FetchPage
    BY <1>3, FetchPageRIInv
  <1>4. CASE ReadExport
    <2>1. /\ UNCHANGED <<asker, source, offset, skipped, warning, answer>>
          /\ pc = "read" /\ pc' = "detect" /\ rows' = source
          /\ \A i \in DOMAIN source : WellFormed(source[i])
      BY <1>4 DEF ReadExport
    <2>2. /\ source \in Seq({source[i] : i \in DOMAIN source})
          /\ DOMAIN source \in SUBSET Nat
          /\ \A i \in DOMAIN source : source[i].index = i
      BY SourceIsSequence
    <2>3. rows' \in Seq({source'[i] : i \in DOMAIN source'})
      <3> DEFINE S == {source[i] : i \in DOMAIN source}
      <3>1. {source'[i] : i \in DOMAIN source'} = S
        BY <2>1
      <3>2. source \in Seq(S)
        BY <2>2
      <3> HIDE DEF S
      <3> QED
        BY <2>1, <3>1, <3>2
    <2>4. RowsOfSource'
      <3>1. DOMAIN rows' = DOMAIN source /\ DOMAIN source' = DOMAIN source
            /\ \A i \in DOMAIN source : rows'[i] = source[i] /\ source'[i] = source[i]
        BY <2>1
      <3> QED
        BY <2>1, <2>2, <2>3, <3>1 DEF RowsOfSource
    <2>5. Complete' /\ Paged' /\ Answers'
      BY <2>1 DEF Complete, Paged, Answers
    <2>6. Scalars' /\ SourceOK'
      BY <2>1 DEF Scalars, SourceOK
    <2> QED
      BY <2>4, <2>5, <2>6
  <1>5. CASE ReadExportFails
    <2>1. UNCHANGED <<asker, source, offset, rows, skipped, warning, answer>>
          /\ pc = "read" /\ pc' = "done"
      BY <1>5 DEF ReadExportFails, fetchVars
    <2> QED
      BY <2>1 DEF Scalars, SourceOK, RowsOfSource, Answers, Paged, Complete
  <1>6. CASE Detect \/ \E c \in remaining : Select(c)
    <2>1. UNCHANGED <<asker, source, offset, rows, skipped, warning, answer>>
          /\ pc \in {"detect", "select"} /\ pc' = "select"
      BY <1>6 DEF Detect, Select, fetchVars
    <2>2. Scalars' /\ SourceOK' /\ RowsOfSource' /\ Answers' /\ Paged'
      BY <2>1 DEF Scalars, SourceOK, RowsOfSource, Answers, Paged
    <2>3. Complete'
      BY <2>1 DEF Complete, Reach
    <2> QED
      BY <2>2, <2>3
  <1>7. CASE Report
    <2>1. UNCHANGED <<asker, source, offset, rows, skipped, warning>>
          /\ pc = "select" /\ pc' = "done"
      BY <1>7 DEF Report, fetchVars
    <2>2. answer' # <<>> => answer'[1].warned = warning
      <3>1. answer' = <<>> \/ answer' = <<Payload>>
        BY <1>7 DEF Report
      <3>2. <<Payload>>[1] = Payload /\ Payload.warned = warning
        BY DEF Payload
      <3> QED
        BY <3>1, <3>2
    <2>3. Scalars' /\ SourceOK' /\ RowsOfSource' /\ Answers' /\ Paged'
      BY <2>1, <2>2 DEF Scalars, SourceOK, RowsOfSource, Answers, Paged
    <2>4. Complete'
      BY <2>1 DEF Complete, Reach
    <2> QED
      BY <2>3, <2>4
  <1>8. CASE UNCHANGED vars
    <2>1. UNCHANGED <<asker, source, pc, offset, rows, skipped, warning, answer>>
      BY <1>8 DEF vars, fetchVars
    <2>2. Scalars' /\ SourceOK' /\ RowsOfSource' /\ Answers'
      BY <2>1 DEF Scalars, SourceOK, RowsOfSource, Answers
    <2>3. Paged'
      BY <2>1 DEF Paged, Accounted
    <2>4. Complete'
      BY <2>1 DEF Complete, Reach
    <2> QED
      BY <2>2, <2>3, <2>4
  <1> QED
    BY <1>1, <1>2, <1>3, <1>4, <1>5, <1>6, <1>7, <1>8 DEF Next

-----------------------------------------------------------------------------
(* Every candidate is an incident of rows that have partners: a row of     *)
(* another city that shares a customer, payment method or device.          *)

Partnered(rs, W) ==
    /\ W \subseteq DOMAIN rs /\ W # {}
    /\ \A i \in W : \E j \in W :
          /\ rs[i].city # rs[j].city
          /\ \E key \in {"customer", "payment", "device"} :
                rs[i][key] = rs[j][key] /\ rs[i][key] # Blank

LEMMA TwoOfMany ==
    ASSUME NEW S, NEW n \in Nat, n >= 2, Cardinality(S) >= n, NEW c
    PROVE  \E d \in S : d # c
  <1> SUFFICES ASSUME S \subseteq {c} PROVE FALSE
    OBVIOUS
  <1>1. IsFiniteSet(S)
    BY FS_Singleton, FS_Subset
  <1>2. S = {} \/ S = {c}
    OBVIOUS
  <1>3. Cardinality(S) = 0 \/ Cardinality(S) = 1
    BY <1>1, <1>2, FS_EmptySet, FS_Singleton
  <1> QED
    BY <1>3

LEMMA GroupPartnered ==
    ASSUME NEW rs, NEW X \in SUBSET DOMAIN rs,
           NEW key \in {"customer", "payment", "device"},
           NEW G \in Groups(rs, X, key), NEW W \in SUBSET G,
           NEW n \in Nat, n >= 2, Cardinality(Each(rs, W, "city")) >= n
    PROVE  Partnered(rs, W)
  <1>1. PICK v \in Each(rs, X, key) \ {Blank} : G = {i \in X : rs[i][key] = v}
    BY DEF Groups
  <1>2. \A i \in W : i \in DOMAIN rs /\ rs[i][key] = v
    BY <1>1
  <1>3. W # {}
    <2>1. \E d \in Each(rs, W, "city") : d # 0
      BY TwoOfMany
    <2> QED
      BY <2>1 DEF Each
  <1>4. ASSUME NEW i \in W
        PROVE  \E j \in W : rs[i].city # rs[j].city
    <2>1. PICK d \in Each(rs, W, "city") : d # rs[i].city
      BY TwoOfMany
    <2> QED
      BY <2>1 DEF Each
  <1> QED
    BY <1>1, <1>2, <1>3, <1>4 DEF Partnered

LEMMA RulesAre ==
    \A k \in DOMAIN Rules :
        /\ Rules[k].key \in {"customer", "payment", "device"}
        /\ Rules[k].minCities \in Nat /\ Rules[k].minCities >= 2
  BY DEF Rules, RuleOf

LEMMA StrongPartnered ==
    ASSUME NEW rs, NEW c \in StrongCandidates(rs)
    PROVE  Partnered(rs, c.rows)
  <1>1. PICK k \in DOMAIN Rules : c \in CandidatesOf(rs, Rules[k])
    BY DEF StrongCandidates
  <1> DEFINE rule == Rules[k]
  <1>2. PICK G \in Groups(rs, DOMAIN rs, rule.key) :
            \E i \in G : LET W == WindowFrom(rs, Before, G, i, rule.window)
                         IN  c = Incident(rule.name, W) /\ Matches(rs, rule, W)
    BY <1>1 DEF CandidatesOf
  <1>3. PICK i \in G : LET W == WindowFrom(rs, Before, G, i, rule.window)
                       IN  c = Incident(rule.name, W) /\ Matches(rs, rule, W)
    BY <1>2
  <1>4. c.rows = WindowFrom(rs, Before, G, i, rule.window) /\ Matches(rs, rule, c.rows)
    BY <1>3 DEF Incident
  <1>5. c.rows \subseteq G
    BY <1>4 DEF WindowFrom
  <1>6. /\ rule.key \in {"customer", "payment", "device"}
        /\ rule.minCities \in Nat /\ rule.minCities >= 2
    BY RulesAre
  <1>7. Cardinality(Each(rs, c.rows, "city")) >= rule.minCities
    BY <1>4 DEF Matches
  <1> HIDE DEF rule
  <1> QED
    BY <1>2, <1>5, <1>6, <1>7, GroupPartnered

LEMMA OwnedRows ==
    ASSUME NEW rs, NEW W
    PROVE  Owned(rs, W) \in SUBSET W
  BY DEF Owned

LEMMA TwoCityOfPartnered ==
    ASSUME NEW rs, NEW X \in SUBSET DOMAIN rs,
           NEW key \in {"customer", "payment", "device"}, NEW name,
           NEW c \in TwoCityOf(name, rs, Groups(rs, X, key))
    PROVE  Partnered(rs, c.rows)
  <1>1. PICK G \in Groups(rs, X, key) :
            \E i \in G : LET W == WindowFrom(rs, BeforeById, G, i, 60)
                         IN  c = Incident(name, W) /\ Cardinality(Each(rs, W, "city")) >= 2
    BY DEF TwoCityOf
  <1>2. PICK i \in G : LET W == WindowFrom(rs, BeforeById, G, i, 60)
                       IN  c = Incident(name, W) /\ Cardinality(Each(rs, W, "city")) >= 2
    BY <1>1
  <1>3. c.rows = WindowFrom(rs, BeforeById, G, i, 60)
        /\ Cardinality(Each(rs, c.rows, "city")) >= 2
    BY <1>2 DEF Incident
  <1>4. c.rows \subseteq G
    BY <1>3 DEF WindowFrom
  <1> QED
    BY <1>1, <1>3, <1>4, GroupPartnered

LEMMA TwoCityPartnered ==
    ASSUME NEW rs, NEW c \in TwoCity(rs)
    PROVE  Partnered(rs, c.rows)
  BY TwoCityOfPartnered, OwnedRows DEF TwoCity

LEMMA HopsPartnered ==
    ASSUME NEW rs, NEW X \in SUBSET DOMAIN rs,
           NEW key \in {"customer", "payment", "device"},
           NEW G \in Groups(rs, X, key), NEW windows \in SUBSET SUBSET G, NEW name,
           NEW c \in Hops(name, rs, windows)
    PROVE  Partnered(rs, c.rows)
  <1>1. PICK W \in windows : c = Incident(name, W) /\ IsHop(rs, W)
    BY DEF Hops
  <1>2. c.rows \in SUBSET G /\ Cardinality(Each(rs, c.rows, "city")) >= 2
    BY <1>1 DEF Incident, IsHop
  <1> QED
    BY <1>2, GroupPartnered

LEMMA ChainHopsPartnered ==
    ASSUME NEW rs, NEW X \in SUBSET DOMAIN rs,
           NEW key \in {"customer", "payment", "device"},
           NEW groups \in SUBSET Groups(rs, X, key), NEW name,
           NEW c \in ChainHops(name, rs, groups)
    PROVE  Partnered(rs, c.rows)
  <1>1. PICK G \in groups : c \in Hops(name, rs, {Chain(rs, G, h) : h \in Heads(rs, G)})
    BY DEF ChainHops
  <1>2. {Chain(rs, G, h) : h \in Heads(rs, G)} \in SUBSET SUBSET G
    BY DEF Chain
  <1> QED
    BY <1>1, <1>2, HopsPartnered

LEMMA LiveHopsPartnered ==
    ASSUME NEW rs, NEW c \in LiveHops(rs)
    PROVE  Partnered(rs, c.rows)
  <1> DEFINE all == UNION {Groups(rs, G, "payment") \cup Groups(rs, G, "device") :
                              G \in Groups(rs, DOMAIN rs, "customer")}
             name == "live_customer_city_hop"
  <1>1. c \in ChainHops(name, rs, all)
    BY DEF LiveHops
  <1>2. PICK H \in all : c \in ChainHops(name, rs, {H})
    <2>1. PICK H \in all : c \in Hops(name, rs, {Chain(rs, H, h) : h \in Heads(rs, H)})
      BY <1>1 DEF ChainHops
    <2> HIDE DEF all
    <2> QED
      BY <2>1 DEF ChainHops
  <1>3. PICK G \in Groups(rs, DOMAIN rs, "customer") :
            H \in Groups(rs, G, "payment") \cup Groups(rs, G, "device")
    BY <1>2
  <1>4. G \in SUBSET DOMAIN rs
    BY <1>3 DEF Groups
  <1>5. \E key \in {"payment", "device"} : {H} \in SUBSET Groups(rs, G, key)
    BY <1>3
  <1> QED
    BY <1>2, <1>4, <1>5, ChainHopsPartnered

LEMMA CustomerHopsPartnered ==
    ASSUME NEW rs, NEW c \in CustomerHops(rs)
    PROVE  Partnered(rs, c.rows)
  <1>1. Groups(rs, Owned(rs, DOMAIN rs), "customer")
            \in SUBSET Groups(rs, Owned(rs, DOMAIN rs), "customer")
    OBVIOUS
  <1> QED
    BY <1>1, OwnedRows, ChainHopsPartnered DEF CustomerHops

LEMMA SignalHopsPartnered ==
    ASSUME NEW rs, NEW c \in SignalHops(rs)
    PROVE  Partnered(rs, c.rows)
  <1> DEFINE X == Owned(rs, DOMAIN rs)
             Windows(G) == {WindowFrom(rs, BeforeById, G, i, HopWindow) : i \in G}
  <1>1. PICK G \in Groups(rs, X, "payment") \cup Groups(rs, X, "device") :
            c \in Hops("archive_signal_city_hop", rs, Windows(G))
    BY DEF SignalHops
  <1>2. PICK key \in {"payment", "device"} : G \in Groups(rs, X, key)
    BY <1>1
  <1>3. Windows(G) \in SUBSET SUBSET G
    BY DEF WindowFrom
  <1>4. X \in SUBSET DOMAIN rs
    BY OwnedRows
  <1> HIDE DEF X, Windows
  <1> QED
    BY <1>1, <1>2, <1>3, <1>4, HopsPartnered

LEMMA KeptLiveAreHops ==
    ASSUME NEW rs, NEW strong
    PROVE  KeptLive(rs, strong) \subseteq LiveHops(rs)
  BY DEF KeptLive, Uncovered, Batched

LEMMA KeptArchiveAreHops ==
    ASSUME NEW rs, NEW strong
    PROVE  KeptArchive(rs, strong) \subseteq CustomerHops(rs) \cup SignalHops(rs)
  BY DEF KeptArchive, Uncovered, Batched, Pruned

LEMMA CandidatesPartnered ==
    ASSUME NEW rs, NEW c \in Candidates(rs)
    PROVE  Partnered(rs, c.rows)
  <1>1. c \in Strong(rs) \cup (IF asker = "export" THEN KeptArchive(rs, Strong(rs))
                                                   ELSE KeptLive(rs, Strong(rs)))
    BY DEF Candidates, DropSubsets
  <1>2. \/ c \in StrongCandidates(rs) \/ c \in TwoCity(rs)
        \/ c \in LiveHops(rs) \/ c \in CustomerHops(rs) \/ c \in SignalHops(rs)
    BY <1>1, KeptLiveAreHops, KeptArchiveAreHops DEF Strong
  <1> QED
    BY <1>2, StrongPartnered, TwoCityPartnered, LiveHopsPartnered, CustomerHopsPartnered,
       SignalHopsPartnered

-----------------------------------------------------------------------------
(* The total of a set of rows is the sum of their amounts.                 *)

Totals(f, rs, D) ==
    f = [s \in D |-> IF s = {} THEN 0
                     ELSE LET x == CHOOSE x \in s : TRUE
                          IN  rs[x].amount + f[s \ {x}]]

LEMMA TotalsAreSums ==
    ASSUME NEW rs, NEW W, NEW f
    PROVE  Totals(f, rs, SUBSET W) <=> Sums(f, [i \in W |-> rs[i].amount], SUBSET W)
  <1> DEFINE v == [i \in W |-> rs[i].amount]
             Row(s) == IF s = {} THEN 0
                       ELSE rs[CHOOSE x \in s : TRUE].amount + f[s \ {CHOOSE x \in s : TRUE}]
             Value(s) == IF s = {} THEN 0
                         ELSE v[CHOOSE x \in s : TRUE] + f[s \ {CHOOSE x \in s : TRUE}]
  <1>1. ASSUME NEW s \in SUBSET W, s # {}
        PROVE  v[CHOOSE x \in s : TRUE] = rs[CHOOSE x \in s : TRUE].amount
    <2>1. (CHOOSE x \in s : TRUE) \in W
      BY <1>1
    <2> QED
      BY <2>1
  <1>2. \A s \in SUBSET W : Row(s) = Value(s)
    <2> HIDE DEF v
    <2> QED
      BY <1>1
  <1>3. Totals(f, rs, SUBSET W) <=> f = [s \in SUBSET W |-> Row(s)]
    BY DEF Totals
  <1>4. Sums(f, v, SUBSET W) <=> f = [s \in SUBSET W |-> Value(s)]
    <2> HIDE DEF v
    <2> QED
      BY DEF Sums
  <1> HIDE DEF Row, Value, v
  <1>5. [s \in SUBSET W |-> Row(s)] = [s \in SUBSET W |-> Value(s)]
    BY <1>2
  <1> QED
    BY <1>3, <1>4, <1>5 DEF v

LEMMA TotalIsNumber ==
    ASSUME NEW rs, NEW W, IsFiniteSet(W), \A i \in W : rs[i].amount \in Nat
    PROVE  Total(rs, W) \in Nat
  <1> DEFINE v == [i \in W |-> rs[i].amount]
             f == CHOOSE f : Totals(f, rs, SUBSET W)
  <1>1. Totals(f, rs, SUBSET W)
    BY SumsExist, TotalsAreSums
  <1>2. Total(rs, W) = f[W]
    BY DEF Total, MapThenSumSet, MapThenFoldSet, Totals
  <1> HIDE DEF f
  <1>3. Sums(f, v, SUBSET W) /\ \A i \in W : v[i] \in Nat
    BY <1>1, TotalsAreSums
  <1>4. 0 \in Nat /\ \A a, b \in Nat : a + b \in Nat
    OBVIOUS
  <1> HIDE DEF v
  <1>5. f[W] \in Nat
    BY <1>3, <1>4, SumsAreNumbers
  <1> QED
    BY <1>2, <1>5

-----------------------------------------------------------------------------
(* Of incidents with the same rows the score decides by the weight of the  *)
(* rule alone, so that the strongest of them can be found.                 *)

(* Rows have numbers for amounts, and positions with a bound.              *)
Numbers(rs) ==
    /\ IsFiniteSet(DOMAIN rs)
    /\ \A i \in DOMAIN rs : rs[i].amount \in Nat /\ rs[i].index \in Nat
    /\ \E b \in Nat : \A i \in DOMAIN rs : rs[i].index <= b

LEMMA MaxOfBounded ==
    ASSUME NEW T \in SUBSET Nat, T # {}, NEW n \in Nat, \A t \in T : t <= n
    PROVE  Max(T) \in T /\ \A t \in T : t <= Max(T)
  <1> DEFINE D == {n - t : t \in T}
  <1>1. D \in SUBSET Nat /\ D # {}
    <2>1. \A t \in T : n - t \in Nat
      OBVIOUS
    <2>2. PICK t \in T : TRUE
      OBVIOUS
    <2>3. n - t \in D
      OBVIOUS
    <2> QED
      BY <2>1, <2>3
  <1>2. PICK x \in D : \A y \in D : x <= y
    BY <1>1, Least
  <1>3. PICK t \in T : x = n - t
    BY <1>2
  <1>4. ASSUME NEW u \in T PROVE t >= u
    <2>1. n - u \in D
      OBVIOUS
    <2>2. n - t <= n - u
      BY <1>2, <1>3, <2>1
    <2> QED
      BY <2>2
  <1>5. \E y \in T : \A u \in T : y >= u
    BY <1>4
  <1>6. Max(T) \in T /\ \A u \in T : Max(T) >= u
    BY <1>5 DEF Max
  <1> QED
    BY <1>6

LEMMA MinOfNumbers ==
    ASSUME NEW T \in SUBSET Nat, T # {}
    PROVE  Min(T) \in T /\ \A t \in T : Min(T) <= t
  BY Least DEF Min

LEMMA SpanIsNumber ==
    ASSUME NEW rs, Numbers(rs), NEW W \in SUBSET DOMAIN rs, W # {}
    PROVE  Span(rs, W) \in Nat /\ Span(rs, W) > 0
  <1> DEFINE T == Each(rs, W, "index")
  <1>1. T \in SUBSET Nat /\ T # {}
    BY DEF Each, Numbers
  <1>2. PICK b \in Nat : \A t \in T : t <= b
    BY DEF Each, Numbers
  <1> HIDE DEF T
  <1>3. Max(T) \in T /\ Min(T) \in T /\ Min(T) <= Max(T)
    BY <1>1, <1>2, MaxOfBounded, MinOfNumbers
  <1>4. Max(T) \in Nat /\ Min(T) \in Nat
    BY <1>1, <1>3
  <1> QED
    BY <1>3, <1>4 DEF Span, MinIndex, T

LEMMA EachIsFinite ==
    ASSUME NEW rs, NEW W, IsFiniteSet(W), NEW field
    PROVE  IsFiniteSet(Each(rs, W, field)) /\ Cardinality(Each(rs, W, field)) \in Nat
  <1> DEFINE f == [i \in W |-> rs[i][field]]
  <1>1. f \in Surjection(W, Each(rs, W, field))
    BY DEF Each, Surjection
  <1> QED
    BY <1>1, FS_Surjection, FS_CardinalityType

LEMMA DominantIsNumber ==
    ASSUME NEW rs, NEW W, IsFiniteSet(W), W # {}
    PROVE  Dominant(rs, W) \in Nat
  <1> DEFINE T == {Cardinality({i \in W : rs[i].channel = ch}) : ch \in Each(rs, W, "channel")}
  <1>1. \A ch : /\ Cardinality({i \in W : rs[i].channel = ch}) \in Nat
                /\ Cardinality({i \in W : rs[i].channel = ch}) <= Cardinality(W)
    BY FS_Subset, FS_CardinalityType
  <1>2. T \in SUBSET Nat /\ T # {} /\ \A t \in T : t <= Cardinality(W)
    <2>1. \A t \in T : t \in Nat /\ t <= Cardinality(W)
      BY <1>1
    <2>2. PICK ch \in Each(rs, W, "channel") : TRUE
      BY DEF Each
    <2>3. Cardinality({i \in W : rs[i].channel = ch}) \in T
      BY <2>2
    <2> HIDE DEF T
    <2> QED
      BY <2>1, <2>3
  <1>3. Cardinality(W) \in Nat
    BY FS_CardinalityType
  <1>4. Dominant(rs, W) = Max(T)
    BY DEF Dominant
  <1> HIDE DEF T
  <1> QED
    BY <1>2, <1>3, <1>4, MaxOfBounded

WeightOf(name) == IF name \in DOMAIN Weight THEN Weight[name] ELSE 0

LEMMA WeightIsNumber ==
    ASSUME NEW name
    PROVE  WeightOf(name) \in Nat /\ WeightOf(name) <= 70
  BY DEF WeightOf, Weight

(* The score of an incident is linear in the weight of its rule.           *)
LEMMA ScoreOfRows ==
    ASSUME NEW rs, Numbers(rs), NEW W \in SUBSET DOMAIN rs, W # {}
    PROVE  \E X \in Nat \ {0}, K \in Nat : \A a : a.rows = W =>
              /\ Score(rs, a).num = WeightOf(a.rule) * X + K
              /\ Score(rs, a).den = X
  <1> DEFINE n == Cardinality(W)
             span == Span(rs, W)
             cities == Cardinality(Each(rs, W, "city"))
             dominant == Dominant(rs, W)
             total == Min({Total(rs, W), 50 * Hundred})
             X == span * n * Hundred
             K == (12 * n + 8 * cities) * span * n * Hundred + 40 * n * n * Hundred
                  + 10 * dominant * span * Hundred + total * span * n
  <1>1. IsFiniteSet(W) /\ \A i \in W : rs[i].amount \in Nat
    BY FS_Subset DEF Numbers
  <1>2. n \in Nat /\ n > 0
    BY <1>1, FS_CardinalityType, FS_EmptySet
  <1>3. span \in Nat /\ span > 0 /\ cities \in Nat /\ dominant \in Nat
    BY <1>1, SpanIsNumber, EachIsFinite, DominantIsNumber
  <1>4. total \in Nat
    <2>1. Total(rs, W) \in Nat /\ 50 * Hundred \in Nat
      BY <1>1, TotalIsNumber DEF Hundred
    <2> QED
      BY <2>1, MinOfTwo
  <1> HIDE DEF n, span, cities, dominant, total
  <1>5. X \in Nat \ {0}
    <2>1. span * n \in Nat /\ span * n > 0
      BY <1>2, <1>3
    <2> QED
      BY <2>1 DEF Hundred
  <1>6. K \in Nat
    <2>1. (12 * n + 8 * cities) * span * n * Hundred \in Nat /\ 40 * n * n * Hundred \in Nat
      BY <1>2, <1>3 DEF Hundred
    <2>2. 10 * dominant * span * Hundred \in Nat /\ total * span * n \in Nat
      BY <1>2, <1>3, <1>4 DEF Hundred
    <2> QED
      BY <2>1, <2>2
  <1>7. ASSUME NEW a, a.rows = W
        PROVE  Score(rs, a).num = WeightOf(a.rule) * X + K /\ Score(rs, a).den = X
    <2> DEFINE w == WeightOf(a.rule)
    <2>1. w \in Nat
      BY WeightIsNumber
    <2>2. /\ Score(rs, a).num = (w + 12 * n + 8 * cities) * span * n * Hundred
                + 40 * n * n * Hundred + 10 * dominant * span * Hundred + total * span * n
          /\ Score(rs, a).den = span * n * Hundred
      BY <1>7 DEF Score, WeightOf, n, span, cities, dominant, total
    <2> HIDE DEF w
    <2>3. (w + 12 * n + 8 * cities) * span * n * Hundred
              = w * (span * n * Hundred) + (12 * n + 8 * cities) * span * n * Hundred
      BY <1>2, <1>3, <2>1 DEF Hundred
    <2>4. Score(rs, a).num = w * X + K
      <3> DEFINE p == w * (span * n * Hundred)
                 q == (12 * n + 8 * cities) * span * n * Hundred
                 r == 40 * n * n * Hundred
                 t == 10 * dominant * span * Hundred
                 u == total * span * n
      <3>1. p \in Int /\ q \in Int /\ r \in Int /\ t \in Int /\ u \in Int
        BY <1>2, <1>3, <1>4, <2>1 DEF Hundred
      <3>2. Score(rs, a).num = p + q + r + t + u
        BY <2>2, <2>3
      <3>3. w * X = p /\ K = q + r + t + u
        OBVIOUS
      <3> HIDE DEF p, q, r, t, u, X, K
      <3> QED
        BY <3>1, <3>2, <3>3
    <2> QED
      BY <2>2, <2>4 DEF w
  <1> HIDE DEF X, K
  <1> QED
    BY <1>5, <1>6, <1>7

LEMMA StrongerByWeight ==
    ASSUME NEW rs, Numbers(rs), NEW a, NEW b, a.rows = b.rows,
           a.rows \in SUBSET DOMAIN rs, a.rows # {}
    PROVE  Stronger(rs, a, b) <=> WeightOf(a.rule) > WeightOf(b.rule)
  <1> DEFINE v == WeightOf(a.rule)
             w == WeightOf(b.rule)
  <1>1. PICK X \in Nat \ {0}, K \in Nat : \A c : c.rows = a.rows =>
              /\ Score(rs, c).num = WeightOf(c.rule) * X + K
              /\ Score(rs, c).den = X
    BY ScoreOfRows
  <1>2. Stronger(rs, a, b) <=> (v * X + K) * X > (w * X + K) * X
    BY <1>1 DEF Stronger
  <1>3. v \in Nat /\ w \in Nat
    BY WeightIsNumber
  <1> HIDE DEF v, w
  <1>4. ASSUME NEW x \in Nat, NEW y \in Nat
        PROVE  x * X > y * X <=> x > y
    <2>1. x * X \in Nat /\ y * X \in Nat
      OBVIOUS
    <2>2. x > y => x * X > y * X
      <3> SUFFICES ASSUME x >= y + 1 PROVE x * X > y * X
        OBVIOUS
      <3>1. x * X >= (y + 1) * X
        OBVIOUS
      <3>2. (y + 1) * X = y * X + X
        OBVIOUS
      <3> QED
        BY <2>1, <3>1, <3>2
    <2>3. x <= y => x * X <= y * X
      OBVIOUS
    <2> QED
      BY <2>1, <2>2, <2>3
  <1>5. v * X \in Nat /\ w * X \in Nat
    BY <1>3
  <1>6. v * X + K > w * X + K <=> v > w
    BY <1>3, <1>4, <1>5
  <1>7. (v * X + K) * X > (w * X + K) * X <=> v * X + K > w * X + K
    BY <1>4, <1>5
  <1> QED
    BY <1>2, <1>6, <1>7 DEF v, w

RuleNames == {Listed[i] : i \in DOMAIN Listed}

LEMMA ListedIs ==
    /\ DOMAIN Listed = 1 .. 12
    /\ \A k \in DOMAIN Rules : Rules[k].name \in RuleNames
    /\ {"archive_high_value_customer_twocity", "archive_high_value_payment_twocity",
        "archive_high_value_device_twocity", "live_customer_city_hop",
        "archive_customer_city_hop", "archive_signal_city_hop"} \subseteq RuleNames
  <1> DEFINE first == [i \in 1 .. Len(Rules) |-> Rules[i].name]
             second == <<"archive_high_value_customer_twocity",
                         "archive_high_value_payment_twocity",
                         "archive_high_value_device_twocity", "live_customer_city_hop",
                         "archive_customer_city_hop", "archive_signal_city_hop">>
  <1> DEFINE names == {second[i] : i \in 1 .. 6} \cup {Rules[i].name : i \in 1 .. 6}
  <1>1. Len(Rules) = 6 /\ DOMAIN Rules = 1 .. 6
    BY DEF Rules
  <1>2. \A k \in 1 .. 6 : Rules[k].name \in names
    OBVIOUS
  <1>3. first \in Seq(names) /\ Len(first) = 6 /\ \A i \in 1 .. 6 : first[i] = Rules[i].name
    BY <1>1, <1>2
  <1>4. second \in Seq(names) /\ Len(second) = 6
    <2>1. \A i \in 1 .. 6 : second[i] \in names
      OBVIOUS
    <2>2. /\ second[1] \in names /\ second[2] \in names /\ second[3] \in names
          /\ second[4] \in names /\ second[5] \in names /\ second[6] \in names
      BY <2>1
    <2> HIDE DEF names
    <2> QED
      BY <2>2
  <1>5. Listed = first \o second
    BY DEF Listed
  <1> HIDE DEF first, names
  <1>7. /\ Listed \in Seq(names) /\ Len(Listed) = 12
        /\ \A i \in 1 .. 12 : Listed[i] = IF i <= 6 THEN first[i] ELSE second[i - 6]
    <2> HIDE DEF second
    <2>1. /\ Listed \in Seq(names) /\ Len(Listed) = Len(first) + Len(second)
          /\ \A i \in 1 .. Len(first) + Len(second) :
                Listed[i] = IF i <= Len(first) THEN first[i] ELSE second[i - Len(first)]
      BY <1>3, <1>4, <1>5, ConcatProperties
    <2> QED
      BY <1>3, <1>4, <2>1
  <1>8. DOMAIN Listed = 1 .. 12
    BY <1>7
  <1>9. \A k \in DOMAIN Rules : Rules[k].name \in RuleNames
    BY <1>1, <1>3, <1>7, <1>8 DEF RuleNames
  <1>10. /\ Listed[7] = second[1] /\ Listed[8] = second[2] /\ Listed[9] = second[3]
         /\ Listed[10] = second[4] /\ Listed[11] = second[5] /\ Listed[12] = second[6]
    <2> HIDE DEF second
    <2> QED
      BY <1>7
  <1>11. \A i \in 7 .. 12 : Listed[i] \in RuleNames
    BY <1>8 DEF RuleNames
  <1> QED
    BY <1>8, <1>9, <1>10, <1>11

(* Incidents the other way round: the smaller the rank, the better among   *)
(* incidents of the same rows.                                             *)
Rank(a) == (70 - WeightOf(a.rule)) * 13 + Place(Listed, a.rule)

LEMMA RankIsNumber ==
    ASSUME NEW a, a.rule \in RuleNames
    PROVE  Rank(a) \in Nat /\ Place(Listed, a.rule) \in 1 .. 12
  <1>1. Place(Listed, a.rule) \in 1 .. 12
    BY ListedIs DEF Place, RuleNames
  <1>2. WeightOf(a.rule) \in Nat /\ WeightOf(a.rule) <= 70
    BY WeightIsNumber
  <1>3. (70 - WeightOf(a.rule)) * 13 \in Nat
    BY <1>2
  <1> QED
    BY <1>1, <1>3 DEF Rank

Beaten(rs, b, a) ==
    \/ Stronger(rs, b, a)
    \/ /\ ~ Stronger(rs, a, b)
       /\ Place(Listed, b.rule) < Place(Listed, a.rule)

LEMMA BeatenByRank ==
    ASSUME NEW rs, Numbers(rs), NEW a, NEW b, a.rows = b.rows,
           a.rows \in SUBSET DOMAIN rs, a.rows # {},
           a.rule \in RuleNames, b.rule \in RuleNames, Beaten(rs, b, a)
    PROVE  Rank(b) < Rank(a)
  <1> DEFINE v == WeightOf(a.rule)
             w == WeightOf(b.rule)
             p == Place(Listed, a.rule)
             q == Place(Listed, b.rule)
  <1>1. p \in 1 .. 12 /\ q \in 1 .. 12
    BY RankIsNumber
  <1>2. v \in Nat /\ w \in Nat
    BY WeightIsNumber
  <1>3. w > v \/ (w >= v /\ q < p)
    <2>1. Stronger(rs, b, a) <=> w > v
      BY StrongerByWeight
    <2>2. Stronger(rs, a, b) <=> v > w
      BY StrongerByWeight
    <2> QED
      BY <1>2, <2>1, <2>2 DEF Beaten
  <1>4. Rank(a) = (70 - v) * 13 + p /\ Rank(b) = (70 - w) * 13 + q
    BY DEF Rank
  <1> HIDE DEF v, w, p, q
  <1> QED
    BY <1>1, <1>2, <1>3, <1>4

(* Dropping repeated and contained incidents leaves every window covered.  *)
LEMMA DropKeepsCover ==
    ASSUME NEW rs, Numbers(rs), NEW I,
           \A a \in I : a.rule \in RuleNames /\ a.rows \in SUBSET DOMAIN rs /\ a.rows # {},
           NEW m \in I
    PROVE  \E c \in DropSubsets(rs, I) : m.rows \subseteq c.rows
  <1> DEFINE unique == {a \in I : ~ \E b \in I : b.rows = a.rows /\ Beaten(rs, b, a)}
  <1>1. DropSubsets(rs, I) =
            {a \in unique : ~ \E b \in unique : a.rows \subseteq b.rows /\ a.rows # b.rows}
    BY DEF DropSubsets, Beaten
  <1>2. \E u \in unique : u.rows = m.rows
    <2> DEFINE Same == {b \in I : b.rows = m.rows}
               T == {Rank(b) : b \in Same}
    <2>1. T \in SUBSET Nat
      BY RankIsNumber
    <2>2. Rank(m) \in T
      OBVIOUS
    <2> HIDE DEF T
    <2>3. PICK x \in T : \A y \in T : x <= y
      BY <2>1, <2>2, Least
    <2>4. PICK u \in Same : x = Rank(u)
      BY <2>3 DEF T
    <2>5. ASSUME NEW b \in I, b.rows = u.rows PROVE ~ Beaten(rs, b, u)
      <3>1. Rank(b) \in T
        BY <2>4, <2>5 DEF T
      <3>2. x <= Rank(b) /\ x \in Nat /\ Rank(b) \in Nat
        BY <2>1, <2>3, <3>1
      <3>3. ~ (Rank(b) < Rank(u))
        BY <2>4, <3>2
      <3> QED
        BY <2>4, <2>5, <3>3, BeatenByRank
    <2> QED
      BY <2>4, <2>5
  <1> HIDE DEF unique
  <1>3. unique \subseteq I
    BY DEF unique
  <1> DEFINE N == Cardinality(DOMAIN rs)
             V == {u \in unique : m.rows \subseteq u.rows}
             L == {N - Cardinality(u.rows) : u \in V}
  <1>4. \A u \in unique : /\ IsFiniteSet(u.rows) /\ Cardinality(u.rows) \in Nat
                          /\ Cardinality(u.rows) <= N
    BY <1>3, FS_Subset, FS_CardinalityType DEF Numbers
  <1>5. N \in Nat
    BY FS_CardinalityType DEF Numbers
  <1> HIDE DEF N
  <1>6. L \in SUBSET Nat /\ L # {}
    <2>1. \A u \in V : N - Cardinality(u.rows) \in Nat
      BY <1>4, <1>5
    <2>2. PICK u \in V : TRUE
      BY <1>2
    <2>3. N - Cardinality(u.rows) \in L
      BY <2>2
    <2> HIDE DEF V
    <2> QED
      BY <2>1, <2>3
  <1>7. PICK x \in L : \A y \in L : x <= y
    BY <1>6, Least
  <1>8. PICK u \in V : x = N - Cardinality(u.rows)
    BY <1>7
  <1>9. ASSUME NEW b \in unique, u.rows \subseteq b.rows, u.rows # b.rows PROVE FALSE
    <2>1. b \in V /\ N - Cardinality(b.rows) \in L
      BY <1>8, <1>9
    <2>2. N - Cardinality(u.rows) <= N - Cardinality(b.rows)
      BY <1>7, <1>8, <2>1
    <2>3. Cardinality(u.rows) <= Cardinality(b.rows) /\ Cardinality(u.rows) # Cardinality(b.rows)
      BY <1>4, <1>9, FS_Subset
    <2>4. Cardinality(u.rows) \in Nat /\ Cardinality(b.rows) \in Nat
      BY <1>4, <1>8
    <2> QED
      BY <1>5, <2>2, <2>3, <2>4
  <1>10. u \in DropSubsets(rs, I) /\ m.rows \subseteq u.rows
    BY <1>1, <1>8, <1>9
  <1> QED
    BY <1>10

LEMMA CandidateNames ==
    ASSUME NEW rs,
           NEW c \in Strong(rs) \cup LiveHops(rs) \cup CustomerHops(rs) \cup SignalHops(rs)
    PROVE  c.rule \in RuleNames
  <1>1. CASE c \in StrongCandidates(rs)
    <2>1. PICK k \in DOMAIN Rules : c \in CandidatesOf(rs, Rules[k])
      BY <1>1 DEF StrongCandidates
    <2>2. c.rule = Rules[k].name
      BY <2>1 DEF CandidatesOf, Incident
    <2> QED
      BY <2>1, <2>2, ListedIs
  <1>2. CASE c \in TwoCity(rs)
    <2>1. c.rule \in {"archive_high_value_customer_twocity",
                      "archive_high_value_payment_twocity",
                      "archive_high_value_device_twocity"}
      BY <1>2 DEF TwoCity, TwoCityOf, Incident
    <2> QED
      BY <2>1, ListedIs
  <1>3. CASE c \in LiveHops(rs) \cup CustomerHops(rs) \cup SignalHops(rs)
    <2>1. c.rule \in {"live_customer_city_hop", "archive_customer_city_hop",
                      "archive_signal_city_hop"}
      BY <1>3 DEF LiveHops, CustomerHops, SignalHops, ChainHops, Hops, Incident
    <2> QED
      BY <2>1, ListedIs
  <1> QED
    BY <1>1, <1>2, <1>3 DEF Strong

LEMMA CandidatesCover ==
    ASSUME NEW rs, Numbers(rs), NEW m \in Strong(rs)
    PROVE  \E c \in Candidates(rs) : m.rows \subseteq c.rows
  <1> DEFINE I == Strong(rs) \cup (IF asker = "export" THEN KeptArchive(rs, Strong(rs))
                                                       ELSE KeptLive(rs, Strong(rs)))
  <1>1. Candidates(rs) = DropSubsets(rs, I)
    BY DEF Candidates
  <1>2. \A a \in I : a \in Strong(rs) \cup LiveHops(rs) \cup CustomerHops(rs) \cup SignalHops(rs)
    BY KeptLiveAreHops, KeptArchiveAreHops
  <1>3. m \in I
    OBVIOUS
  <1> HIDE DEF I
  <1>4. \A a \in I : Partnered(rs, a.rows)
    BY <1>2, StrongPartnered, TwoCityPartnered, LiveHopsPartnered, CustomerHopsPartnered,
       SignalHopsPartnered DEF Strong
  <1>5. \A a \in I : a.rule \in RuleNames /\ a.rows \in SUBSET DOMAIN rs /\ a.rows # {}
    BY <1>2, <1>4, CandidateNames DEF Partnered
  <1> QED
    BY <1>1, <1>3, <1>5, DropKeepsCover

LEMMA RowsAreNumbers ==
    ASSUME RIInv
    PROVE  Numbers(rows)
  <1> DEFINE S == {source[i] : i \in DOMAIN source}
  <1>1. rows \in Seq(S)
    BY DEF RIInv, RowsOfSource
  <1>2. IsFiniteSet(DOMAIN rows)
    <2> HIDE DEF S
    <2>1. DOMAIN rows = 1 .. Len(rows) /\ Len(rows) \in Nat
      BY <1>1
    <2> QED
      BY <2>1, FS_Interval
  <1>3. Len(source) \in Nat /\ DOMAIN source = 1 .. Len(source)
    BY SourceIsSequence DEF RIInv
  <1>4. \A i \in DOMAIN rows : rows[i].index \in 1 .. Len(source) /\ rows[i].amount \in Nat
    <2>1. \A i \in DOMAIN source : source[i].amount \in Nat
      BY SourceAssumption DEF RIInv, SourceOK
    <2> QED
      BY <1>3, <2>1 DEF RIInv, RowsOfSource
  <1> QED
    BY <1>2, <1>3, <1>4 DEF Numbers

-----------------------------------------------------------------------------
(* Selection.  Until candidates are known there is nothing to select from, *)
(* and whatever is still in line is not stronger than what was selected    *)
(* before it.                                                              *)

NotYet == pc \in {"probe", "page", "read", "detect"} =>
    candidates = {} /\ remaining = {} /\ selected = {}

InOrder == \A s \in selected : \A d \in remaining : ~ Stronger(rows, d, s)

Drawn == selected \cup remaining \subseteq candidates

Suspicious == \A c \in candidates : Partnered(rows, c.rows)

IInv == /\ NotYet /\ InOrder /\ Drawn /\ Suspicious
        /\ SelectionIsMaximal /\ MatchesAreCandidates

(* An incident that is next in line is at least as strong as all that      *)
(* remain, as selection goes by the score before anything else.            *)
LEMMA NextIsStrongest ==
    ASSUME NEW c, NextInLine(c), NEW d \in remaining
    PROVE  ~ Stronger(rows, d, c)
  BY DEF NextInLine, Ahead

LEMMA OverlapIsSymmetric ==
    ASSUME NEW a, NEW b
    PROVE  Overlap(a, b) <=> Overlap(b, a)
  BY DEF Overlap

LEMMA InitIInv == Init => IInv
  BY DEF Init, IInv, NotYet, InOrder, SelectionIsMaximal, Drawn, Suspicious,
     MatchesAreCandidates

(* Taking the next incident keeps the selection maximal: the incident      *)
(* either joins it or meets a member that came before it.                  *)
LEMMA SelectIInv ==
    ASSUME IInv, NEW c \in remaining, Select(c)
    PROVE  IInv'
  <1>1. NotYet'
    BY DEF Select, IInv, NotYet
  <1>2. rows' = rows /\ candidates' = candidates /\ remaining' = remaining \ {c}
    BY DEF Select, fetchVars
  <1>3. \A d \in remaining : ~ Stronger(rows, d, c)
    BY NextIsStrongest DEF Select
  <1>4. selected' \subseteq selected \cup {c}
    BY DEF Select
  <1>5. Drawn' /\ Suspicious' /\ MatchesAreCandidates'
    <2>1. pc = "select" /\ asker' = asker
      BY DEF Select
    <2> QED
      BY <1>2, <1>4, <2>1 DEF IInv, Drawn, Suspicious, MatchesAreCandidates, Strong
  <1>6. CASE Meets(c)
    <2>1. selected' = selected
      BY <1>6 DEF Select
    <2>2. InOrder'
      BY <1>2, <2>1 DEF IInv, InOrder, Stronger
    <2>3. PICK s \in selected : Overlap(s, c)
      BY <1>6 DEF Meets
    <2>4. ~ Stronger(rows, c, s)
      BY DEF IInv, InOrder
    <2>5. SelectionIsMaximal'
      BY <1>2, <2>1, <2>3, <2>4 DEF IInv, SelectionIsMaximal, Stronger
    <2> QED
      BY <1>1, <1>5, <2>2, <2>5 DEF IInv
  <1>7. CASE ~ Meets(c)
    <2>1. selected' = selected \cup {c}
      BY <1>7 DEF Select
    <2>2. InOrder'
      BY <1>2, <1>3, <2>1 DEF IInv, InOrder, Stronger
    <2>3. \A s \in selected : ~ Overlap(s, c) /\ ~ Overlap(c, s)
      BY <1>7, OverlapIsSymmetric DEF Meets
    <2>4. \A s, t \in selected' : s # t => ~ Overlap(s, t)
      BY <2>1, <2>3 DEF IInv, SelectionIsMaximal
    <2>5. SelectionIsMaximal'
      BY <1>2, <2>1, <2>4 DEF IInv, SelectionIsMaximal, Stronger
    <2> QED
      BY <1>1, <1>5, <2>2, <2>5 DEF IInv
  <1> QED
    BY <1>6, <1>7

LEMMA NextIInv == RIInv /\ IInv /\ [Next]_vars => IInv'
  <1> SUFFICES ASSUME RIInv, IInv, [Next]_vars PROVE IInv'
    OBVIOUS
  <1>1. CASE Probe \/ FetchFails \/ FetchPage \/ ReadExport
    <2>1. candidates = {} /\ remaining = {} /\ selected = {}
      BY <1>1 DEF Probe, FetchFails, FetchPage, ReadExport, IInv, NotYet
    <2>2. UNCHANGED detectVars /\ pc' \in {"page", "detect"}
      BY <1>1 DEF Probe, FetchFails, FetchPage, ReadExport
    <2> QED
      BY <2>1, <2>2 DEF detectVars, IInv, NotYet, InOrder, Drawn, Suspicious,
         SelectionIsMaximal, MatchesAreCandidates
  <1>2. CASE ReadExportFails \/ Report \/ UNCHANGED vars
    <2>1. /\ UNCHANGED <<asker, rows, detectVars>>
          /\ (pc' = "done" /\ pc \in {"read", "select"}) \/ pc' = pc
      BY <1>2 DEF ReadExportFails, Report, vars, fetchVars
    <2>2. MatchesAreCandidates'
      <3>1. pc = "read" => Strong(rows) = {}
        <4> SUFFICES ASSUME pc = "read", NEW m \in Strong(rows) PROVE FALSE
          OBVIOUS
        <4>1. DOMAIN rows = {}
          BY DEF RIInv, Scalars
        <4> QED
          BY <4>1, StrongPartnered, TwoCityPartnered DEF Strong, Partnered
      <3>2. Strong(rows)' = Strong(rows) /\ candidates' = candidates
        BY <2>1 DEF Strong, detectVars
      <3> QED
        BY <2>1, <3>1, <3>2 DEF IInv, MatchesAreCandidates
    <2> QED
      BY <2>1, <2>2 DEF detectVars, IInv, NotYet, InOrder, Drawn, Suspicious,
         SelectionIsMaximal, Stronger, Partnered
  <1>3. CASE Detect
    <2>1. rows' = rows /\ candidates' = Candidates(rows) /\ remaining' = candidates'
          /\ selected' = {} /\ pc' = "select" /\ asker' = asker
      BY <1>3 DEF Detect, fetchVars, IInv, NotYet
    <2>2. Suspicious'
      BY <2>1, CandidatesPartnered DEF Suspicious
    <2>3. MatchesAreCandidates'
      <3>1. Strong(rows)' = Strong(rows)
        BY <2>1 DEF Strong
      <3> QED
        BY <2>1, <3>1, CandidatesCover, RowsAreNumbers DEF MatchesAreCandidates
    <2> QED
      BY <2>1, <2>2, <2>3 DEF IInv, NotYet, InOrder, Drawn, SelectionIsMaximal
  <1>4. CASE \E c \in remaining : Select(c)
    BY <1>4, SelectIInv
  <1> QED
    BY <1>1, <1>2, <1>3, <1>4 DEF Next

LEMMA Invariant == Spec => [](RIInv /\ IInv)
  BY InitRIInv, NextRIInv, InitIInv, NextIInv, PTL DEF Spec

-----------------------------------------------------------------------------
(* Rows are parsed once each, in the order of their source, and incidents  *)
(* are about rows (payment_fraud.py:90-93, fraud_rules.py:40-45).          *)
THEOREM TypeCorrect == Spec => []TypeOK
  <1>1. RIInv /\ IInv => TypeOK
    BY DEF RIInv, Scalars, RowsOfSource, IInv, Drawn, Suspicious, Partnered, TypeOK
  <1> QED
    BY <1>1, Invariant, PTL

(* For any history, page size and last offset, an answer without a warning *)
(* rests on every payment the pages can reach (payment_fraud.py:187-237).  *)
THEOREM CompleteUnlessWarned == Spec => []UnwarnedIsComplete
  <1>1. RIInv => UnwarnedIsComplete
    <2> SUFFICES ASSUME RIInv, answer # <<>>, ~ answer[1].warned
                 PROVE  \A i \in DOMAIN source : asker = "export" \/ i <= Reach =>
                            \/ source[i].form = "unnamed"
                            \/ \E k \in DOMAIN rows : rows[k] = source[i]
      BY DEF UnwarnedIsComplete
    <2>1. ~ warning
      BY DEF RIInv, Answers
    <2> QED
      BY <2>1 DEF RIInv, Complete
  <1> QED
    BY <1>1, Invariant, PTL

(* Dropping repeated and contained incidents drops no suspicion: whatever  *)
(* window a rule matches lies within a candidate (fraud_rules.py:273-300). *)
THEOREM MatchesCovered == Spec => []MatchesAreCandidates
  <1>1. IInv => MatchesAreCandidates
    BY DEF IInv
  <1> QED
    BY <1>1, Invariant, PTL

(* No payment is counted in two incidents, and a candidate that was passed *)
(* over shares a payment with a selected one that is not weaker            *)
(* (fraud_rules.py:303-330).                                               *)
THEOREM SelectionCorrect == Spec => []SelectionIsMaximal
  <1>1. IInv => SelectionIsMaximal
    BY DEF IInv
  <1> QED
    BY <1>1, Invariant, PTL

(* Whatever the rules find: a flagged payment has a flagged partner, made  *)
(* in another city by the same customer, method or device, and that is     *)
(* never the lack of one (fraud_rules.py:238-241, payment_fraud.py:262).   *)
THEOREM FlaggedPartnered == Spec => []FlaggedHavePartner
  <1>1. IInv => FlaggedHavePartner
    <2> SUFFICES ASSUME IInv, NEW i \in Flagged
                 PROVE  \E j \in Flagged :
                           /\ rows[i].city # rows[j].city
                           /\ \E key \in {"customer", "payment", "device"} :
                                 rows[i][key] = rows[j][key] /\ rows[i][key] # Blank
      BY DEF FlaggedHavePartner
    <2>1. PICK s \in selected : i \in s.rows
      BY DEF Flagged
    <2>2. Partnered(rows, s.rows) /\ s.rows \subseteq Flagged
      BY DEF IInv, Drawn, Suspicious, Flagged
    <2> QED
      BY <2>1, <2>2 DEF Partnered
  <1> QED
    BY <1>1, Invariant, PTL
=============================================================================
