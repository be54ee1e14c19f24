------------------------ MODULE SubmissionRefsProofs ------------------------
(* What is submitted with a completion, for any records, any owners and any   *)
(* request, and whichever look-ups fail: the invariants of SubmissionRefs.     *)
EXTENDS SubmissionRefs, ListProofs, FiniteSetTheorems

RowRefs == {r \in Refs : IsRow(r)}
Distinct(s) == \A i, j \in DOMAIN s : s[i] = s[j] => i = j
Leads(s, t) == Len(s) <= Len(t) /\ \A i \in 1 .. Len(s) : t[i] = s[i]

-----------------------------------------------------------------------------
(* The operations on lists of references.                                    *)

\* A comprehension keeps the chosen elements and brings in no duplicates.
LEMMA KeptRows ==
    ASSUME NEW S, NEW s \in Seq(S), NEW good \in SUBSET (1 .. Len(s))
    PROVE  /\ Kept(s, good) \in Seq(S)
           /\ ToSet(Kept(s, good)) = {s[i] : i \in good}
           /\ Distinct(s) => Distinct(Kept(s, good))
<1> DEFINE list == Kept(s, good)
<1>1. PICK pos : list \in Seq(S) /\ Selects(list, s, good, pos)
  BY KeptSelects
<1> HIDE DEF list
<1>2. /\ pos \in [1 .. Len(list) -> good]
      /\ \A k \in 1 .. Len(list) : list[k] = s[pos[k]]
      /\ \A k, l \in 1 .. Len(list) : k < l => pos[k] < pos[l]
      /\ \A i \in good : \E k \in 1 .. Len(list) : pos[k] = i
  BY <1>1 DEF Selects
<1>3. DOMAIN list = 1 .. Len(list) /\ DOMAIN s = 1 .. Len(s) /\ Len(list) \in Nat
  BY <1>1
<1>4. ToSet(list) = {s[i] : i \in good}
  <2>1. \A k \in 1 .. Len(list) : list[k] \in {s[i] : i \in good}
    BY <1>2
  <2>2. \A i \in good : \E k \in 1 .. Len(list) : list[k] = s[i]
    BY <1>2
  <2>3. ToSet(list) = {list[k] : k \in 1 .. Len(list)}
    BY <1>3 DEF ToSet
  <2>4. ToSet(list) \subseteq {s[i] : i \in good}
    BY <2>1, <2>3
  <2>5. {s[i] : i \in good} \subseteq ToSet(list)
    BY <2>2, <2>3
  <2> QED BY <2>4, <2>5
<1>5. ASSUME Distinct(s), NEW k \in 1 .. Len(list), NEW l \in 1 .. Len(list), list[k] = list[l]
      PROVE  k = l
  <2>1. pos[k] \in 1 .. Len(s) /\ pos[l] \in 1 .. Len(s)
    BY <1>2
  <2>2. pos[k] = pos[l]
    BY <1>2, <1>3, <1>5, <2>1 DEF Distinct
  <2> QED BY <1>2, <1>3, <2>1, <2>2
<1> QED BY <1>1, <1>3, <1>4, <1>5 DEF Distinct, list

\* What keeps the first m elements has them in front.
LEMMA KeptFront ==
    ASSUME NEW S, NEW s \in Seq(S), NEW good \in SUBSET (1 .. Len(s)),
           NEW m \in 0 .. Len(s), 1 .. m \subseteq good
    PROVE  m <= Len(Kept(s, good)) /\ \A k \in 1 .. m : Kept(s, good)[k] = s[k]
<1> DEFINE list == Kept(s, good)
<1>1. PICK pos : list \in Seq(S) /\ Selects(list, s, good, pos)
  BY KeptSelects
<1> HIDE DEF list
<1>2. /\ pos \in [1 .. Len(list) -> good]
      /\ \A k \in 1 .. Len(list) : list[k] = s[pos[k]]
      /\ \A k, l \in 1 .. Len(list) : k < l => pos[k] < pos[l]
      /\ \A i \in good : \E k \in 1 .. Len(list) : pos[k] = i
  BY <1>1 DEF Selects
<1>3. Len(list) \in Nat /\ Len(s) \in Nat
  BY <1>1
<1> DEFINE Off == {k \in 1 .. m : ~ (k \in 1 .. Len(list) /\ pos[k] = k)}
<1>4. Off = {}
  <2> SUFFICES ASSUME Off # {} PROVE FALSE
    OBVIOUS
  <2>0. Off \in SUBSET Nat
    OBVIOUS
  <2>1. PICK k \in Off : \A j \in Off : k <= j
    <3> HIDE DEF Off
    <3> QED BY <2>0, Least
  <2>2. k \in 1 .. m /\ \A j \in 1 .. m : j < k => j \in 1 .. Len(list) /\ pos[j] = j
    BY <2>1
  <2>3. PICK at \in 1 .. Len(list) : pos[at] = k
    BY <1>2, <2>2
  <2>4. ~ (at < k)
    BY <2>2, <2>3
  <2>5. at # k
    BY <2>1, <2>3
  <2>6. k < at /\ k \in 1 .. Len(list)
    BY <1>3, <2>2, <2>4, <2>5
  <2>7. pos[k] < k /\ pos[k] \in 1 .. m
    <3>1. pos[k] < pos[at]
      BY <1>2, <2>3, <2>6
    <3>2. pos[k] \in 1 .. Len(s)
      BY <1>2, <2>6
    <3> QED BY <1>3, <2>2, <2>3, <3>1, <3>2
  <2>8. pos[pos[k]] = pos[k] /\ pos[k] \in 1 .. Len(list)
    BY <2>2, <2>7
  <2>9. pos[pos[k]] < pos[k]
    BY <1>2, <2>6, <2>7, <2>8
  <2> QED BY <2>7, <2>8, <2>9
<1>5. \A k \in 1 .. m : k \in 1 .. Len(list) /\ pos[k] = k
  BY <1>4
<1>6. m <= Len(list)
  <2>1. CASE m = 0
    BY <1>3, <2>1
  <2>2. CASE m # 0
    BY <1>3, <1>5, <2>2
  <2> QED BY <2>1, <2>2
<1> QED BY <1>2, <1>5, <1>6 DEF list

\* dedupe_refs has each reference of both lists once, and those of the first,
\* which has no duplicates, in front (submission_refs.py:159-168).
LEMMA ExtendRows ==
    ASSUME NEW S, NEW s \in Seq(S), NEW t \in Seq(S)
    PROVE  /\ Extend(s, t) \in Seq(S) /\ Distinct(Extend(s, t))
           /\ ToSet(Extend(s, t)) = ToSet(s) \cup ToSet(t)
           /\ Distinct(s) => Leads(s, Extend(s, t))
<1> DEFINE both == s \o t
           good == {i \in DOMAIN both : \A j \in 1 .. i - 1 : both[j] # both[i]}
<1>1. /\ both \in Seq(S) /\ Len(both) = Len(s) + Len(t) /\ DOMAIN both = 1 .. Len(both)
      /\ \A i \in 1 .. Len(s) : both[i] = s[i]
      /\ \A i \in 1 .. Len(t) : both[i + Len(s)] = t[i]
      /\ Len(s) \in Nat /\ Len(t) \in Nat /\ DOMAIN s = 1 .. Len(s) /\ DOMAIN t = 1 .. Len(t)
  OBVIOUS
<1>2. \A i \in 1 .. Len(both) : i > Len(s) => both[i] = t[i - Len(s)] /\ i - Len(s) \in 1 .. Len(t)
  <2> SUFFICES ASSUME NEW i \in 1 .. Len(both), i > Len(s)
               PROVE  both[i] = t[i - Len(s)] /\ i - Len(s) \in 1 .. Len(t)
    OBVIOUS
  <2>1. i - Len(s) \in 1 .. Len(t) /\ (i - Len(s)) + Len(s) = i
    BY <1>1
  <2> QED BY <1>1, <2>1
<1> HIDE DEF both
<1>3. good \in SUBSET (1 .. Len(both)) /\ Extend(s, t) = Kept(both, good)
  BY <1>1 DEF Extend, both
<1>4. \A i, j \in good : both[i] = both[j] => i = j
  <2> SUFFICES ASSUME NEW i \in good, NEW j \in good, both[i] = both[j], i < j PROVE FALSE
    BY <1>1
  <2> QED BY <1>1
<1>5. \A i \in 1 .. Len(both) : \E j \in good : both[j] = both[i]
  <2> SUFFICES ASSUME NEW i \in 1 .. Len(both) PROVE \E j \in good : both[j] = both[i]
    OBVIOUS
  <2> DEFINE Same == {j \in 1 .. Len(both) : both[j] = both[i]}
  <2>1. Same \in SUBSET Nat /\ Same # {}
    OBVIOUS
  <2>2. PICK j \in Same : \A k \in Same : j <= k
    <3> HIDE DEF Same
    <3> QED BY <2>1, Least
  <2>3. j \in good
    BY <1>1, <2>2
  <2> QED BY <2>2, <2>3
<1>6. ToSet(both) = ToSet(s) \cup ToSet(t)
  <2>1. ToSet(both) \subseteq ToSet(s) \cup ToSet(t)
    <3> SUFFICES ASSUME NEW i \in 1 .. Len(both) PROVE both[i] \in ToSet(s) \cup ToSet(t)
      BY <1>1 DEF ToSet
    <3>1. CASE i <= Len(s)
      BY <1>1, <3>1 DEF ToSet
    <3>2. CASE i > Len(s)
      BY <1>1, <1>2, <3>2 DEF ToSet
    <3> QED BY <1>1, <3>1, <3>2
  <2>2. ToSet(s) \subseteq ToSet(both)
    BY <1>1 DEF ToSet
  <2>3. ToSet(t) \subseteq ToSet(both)
    <3> SUFFICES ASSUME NEW i \in 1 .. Len(t) PROVE t[i] \in ToSet(both)
      BY <1>1 DEF ToSet
    <3>1. i + Len(s) \in DOMAIN both
      BY <1>1
    <3> QED BY <1>1, <3>1 DEF ToSet
  <2> QED BY <2>1, <2>2, <2>3
<1>7. Distinct(s) => 1 .. Len(s) \subseteq good
  BY <1>1 DEF Distinct
<1> HIDE DEF good
<1>8. Kept(both, good) \in Seq(S) /\ ToSet(Kept(both, good)) = {both[i] : i \in good}
  BY <1>1, <1>3, KeptRows
<1>9. ToSet(Kept(both, good)) = ToSet(both)
  BY <1>1, <1>3, <1>5, <1>8 DEF ToSet
<1>10. Distinct(Kept(both, good))
  <2>1. PICK pos : Selects(Kept(both, good), both, good, pos)
    BY <1>1, <1>3, KeptSelects
  <2> DEFINE list == Kept(both, good)
  <2>2. DOMAIN list = 1 .. Len(list) /\ Len(list) \in Nat
    BY <1>8
  <2> HIDE DEF list
  <2>3. /\ pos \in [1 .. Len(list) -> good]
        /\ \A k \in 1 .. Len(list) : list[k] = both[pos[k]]
        /\ \A k, l \in 1 .. Len(list) : k < l => pos[k] < pos[l]
    BY <2>1 DEF Selects, list
  <2>4. ASSUME NEW k \in 1 .. Len(list), NEW l \in 1 .. Len(list), list[k] = list[l]
        PROVE  k = l
    <3>1. pos[k] \in good /\ pos[l] \in good /\ both[pos[k]] = both[pos[l]]
      BY <2>3, <2>4
    <3>2. pos[k] = pos[l] /\ pos[k] \in 1 .. Len(both)
      BY <1>3, <1>4, <3>1
    <3> QED BY <2>2, <2>3, <3>2
  <2> QED BY <2>2, <2>4 DEF Distinct, list
<1>11. Distinct(s) => Leads(s, Extend(s, t))
  <2> SUFFICES ASSUME Distinct(s) PROVE Leads(s, Extend(s, t))
    OBVIOUS
  <2>1. Len(s) \in 0 .. Len(both) /\ 1 .. Len(s) \subseteq good
    BY <1>1, <1>7
  <2>2. Len(s) <= Len(Kept(both, good)) /\ \A k \in 1 .. Len(s) : Kept(both, good)[k] = both[k]
    BY <1>1, <1>3, <2>1, KeptFront
  <2> QED BY <1>1, <1>3, <2>2 DEF Leads
<1> QED BY <1>3, <1>6, <1>8, <1>9, <1>10, <1>11

\* The other comprehensions over references.
LEMMA Comprehensions ==
    ASSUME NEW S, NEW s \in Seq(S), NEW records
    PROVE  /\ OfKind(s, records) \in Seq(S)
           /\ ToSet(OfKind(s, records)) = {r \in ToSet(s) : r.rec \in records}
           /\ Distinct(s) => Distinct(OfKind(s, records))
           /\ Without(s, records) \in Seq(S)
           /\ ToSet(Without(s, records)) = ToSet(s) \ {Path(x) : x \in records}
           /\ Distinct(s) => Distinct(Without(s, records))
<1>1. DOMAIN s = 1 .. Len(s)
  OBVIOUS
<1> DEFINE of == {i \in DOMAIN s : s[i].rec \in records}
           out == {i \in DOMAIN s : s[i] \notin {Path(x) : x \in records}}
<1>2. of \in SUBSET (1 .. Len(s)) /\ OfKind(s, records) = Kept(s, of)
  BY <1>1 DEF OfKind
<1>3. out \in SUBSET (1 .. Len(s)) /\ Without(s, records) = Kept(s, out)
  BY <1>1 DEF Without
<1>4. {s[i] : i \in of} = {r \in ToSet(s) : r.rec \in records}
  BY DEF ToSet
<1>5. {s[i] : i \in out} = ToSet(s) \ {Path(x) : x \in records}
  BY DEF ToSet
<1> HIDE DEF of, out
<1> QED BY <1>2, <1>3, <1>4, <1>5, KeptRows

\* The references of the members that were found.
LEMMA FoundRows ==
    ASSUME NEW R \in SUBSET Records, NEW s \in Seq(R), NEW found
    PROVE  /\ Found(s, found) \in Seq(RowRefs)
           /\ ToSet(Found(s, found)) = {Path(x) : x \in ToSet(s) \cap found}
<1>1. DOMAIN s = 1 .. Len(s)
  OBVIOUS
<1> DEFINE good == {i \in DOMAIN s : s[i] \in found}
           kept == Kept(s, good)
<1>2. good \in SUBSET (1 .. Len(s)) /\ {s[i] : i \in good} = ToSet(s) \cap found
  BY <1>1 DEF ToSet
<1> HIDE DEF good
<1>3. kept \in Seq(R) /\ ToSet(kept) = ToSet(s) \cap found
  BY <1>2, KeptRows
<1>4. Found(s, found) = [i \in DOMAIN kept |-> Path(kept[i])]
  BY DEF Found, good
<1> HIDE DEF kept
<1>5. DOMAIN kept = 1 .. Len(kept) /\ Len(kept) \in Nat /\ \A i \in 1 .. Len(kept) : kept[i] \in R
  BY <1>3
<1>6. \A x \in R : Path(x) \in RowRefs
  BY DEF Path, RowRefs, Refs, IsRow
<1>7. Found(s, found) \in Seq(RowRefs)
  BY <1>4, <1>5, <1>6
<1>8. ToSet(Found(s, found)) = {Path(x) : x \in ToSet(kept)}
  BY <1>4, <1>5 DEF ToSet
<1> QED BY <1>3, <1>7, <1>8

\* Of the products, the first n are kept, and nothing else is dropped
\* (submission_refs.py:1118-1175).
LEMMA FirstProductsRows ==
    ASSUME NEW S, NEW s \in Seq(S), NEW n \in Nat
    PROVE  LET first == {i \in DOMAIN s : /\ IsProduct(s[i])
                                          /\ Cardinality(ProductsUpTo(s, i)) <= n}
           IN  /\ FirstProducts(s, n) \in Seq(S)
               /\ Distinct(s) => Distinct(FirstProducts(s, n))
               /\ ToSet(FirstProducts(s, n)) \subseteq ToSet(s)
               /\ \A r \in ToSet(s) : ~ IsProduct(r) => r \in ToSet(FirstProducts(s, n))
               /\ Recs(FirstProducts(s, n)) \cap Products = {s[i].rec : i \in first}
               /\ IsFiniteSet(first) /\ Cardinality(first) <= n
<1> DEFINE first == {i \in DOMAIN s : /\ IsProduct(s[i])
                                      /\ Cardinality(ProductsUpTo(s, i)) <= n}
           good == {i \in DOMAIN s : IsProduct(s[i]) => Cardinality(ProductsUpTo(s, i)) <= n}
<1>1. DOMAIN s = 1 .. Len(s) /\ Len(s) \in Nat
  OBVIOUS
<1>2. good \in SUBSET (1 .. Len(s)) /\ FirstProducts(s, n) = Kept(s, good)
  BY <1>1 DEF FirstProducts
<1>3. first = {i \in good : IsProduct(s[i])}
  OBVIOUS
<1>4. \A i \in DOMAIN s : ~ IsProduct(s[i]) => i \in good
  OBVIOUS
<1>5. IsFiniteSet(first)
  <2>1. first \in SUBSET (1 .. Len(s))
    BY <1>1
  <2> HIDE DEF first
  <2>2. IsFiniteSet(1 .. Len(s))
    BY <1>1, FS_Interval
  <2> QED BY <2>1, <2>2, FS_Subset
<1>6. Cardinality(first) <= n
  <2>1. CASE first = {}
    <3> HIDE DEF first
    <3> QED BY <2>1, FS_EmptySet
  <2>2. CASE first # {}
    <3> DEFINE Above == {Len(s) - i : i \in first}
    <3>1. Above \in SUBSET Nat /\ Above # {}
      BY <1>1, <2>2
    <3>2. PICK a \in Above : \A b \in Above : a <= b
      <4> HIDE DEF Above
      <4> QED BY <3>1, Least
    <3>3. PICK i \in first : a = Len(s) - i
      BY <3>2
    <3>4. \A j \in first : j <= i
      <4> SUFFICES ASSUME NEW j \in first PROVE j <= i
        OBVIOUS
      <4>1. a <= Len(s) - j
        BY <3>2
      <4>2. i \in 1 .. Len(s) /\ j \in 1 .. Len(s)
        BY <1>1
      <4> QED BY <1>1, <3>3, <4>1, <4>2
    <3>5. first \subseteq ProductsUpTo(s, i)
      BY <1>1, <3>4 DEF ProductsUpTo
    <3>6. IsFiniteSet(ProductsUpTo(s, i))
      <4>1. ProductsUpTo(s, i) \in SUBSET (1 .. i) /\ i \in Int
        BY <1>1 DEF ProductsUpTo
      <4>2. IsFiniteSet(1 .. i)
        BY <4>1, FS_Interval
      <4> QED BY <4>1, <4>2, FS_Subset
    <3>7. Cardinality(ProductsUpTo(s, i)) <= n
      OBVIOUS
    <3> HIDE DEF first
    <3>8. Cardinality(first) <= Cardinality(ProductsUpTo(s, i))
      BY <3>5, <3>6, FS_Subset
    <3>9. Cardinality(first) \in Nat /\ Cardinality(ProductsUpTo(s, i)) \in Nat
      BY <1>5, <3>6, FS_CardinalityType
    <3> QED BY <3>7, <3>8, <3>9
  <2> QED BY <2>1, <2>2
<1> HIDE DEF good, first
<1>7. /\ Kept(s, good) \in Seq(S) /\ ToSet(Kept(s, good)) = {s[i] : i \in good}
      /\ Distinct(s) => Distinct(Kept(s, good))
  BY <1>2, KeptRows
<1>8. ToSet(Kept(s, good)) \subseteq ToSet(s)
  BY <1>1, <1>2, <1>7 DEF ToSet
<1>9. \A r \in ToSet(s) : ~ IsProduct(r) => r \in ToSet(Kept(s, good))
  BY <1>4, <1>7 DEF ToSet
<1>10. Recs(Kept(s, good)) \cap Products = {s[i].rec : i \in first}
  <2>1. Recs(Kept(s, good)) = {s[i].rec : i \in good}
    BY <1>7 DEF Recs
  <2>2. \A i \in good : s[i].rec \in Products <=> i \in first
    BY <1>3 DEF IsProduct
  <2>3. first \subseteq good
    BY <1>3
  <2>4. {s[i].rec : i \in good} \cap Products \subseteq {s[i].rec : i \in first}
    BY <2>2
  <2>5. {s[i].rec : i \in first} \subseteq {s[i].rec : i \in good} \cap Products
    BY <2>2, <2>3
  <2> QED BY <2>1, <2>4, <2>5
<1> QED BY <1>2, <1>5, <1>6, <1>7, <1>8, <1>9, <1>10 DEF first

-----------------------------------------------------------------------------
(* What the records are.                                                     *)

\* The kinds of records are disjoint from one another and from documents.
LEMMA KindsApart ==
    /\ Products \cap (Scoped \cup Stores \cup Uploads \cup Employees \cup Docs) = {}
    /\ Employees \cap (Scoped \cup Stores \cup Uploads \cup Docs) = {}
    /\ Stores \cap Scoped = {} /\ Docs \cap Scoped = {}
    /\ Baskets \cap (Stores \cup Uploads \cup Payments \cup Returns) = {}
    /\ Payments \cap Returns = {}
    /\ Customers \cap {"none", "guest"} = {}
<1>1. DOMAIN Kinds = 1 .. 11
  BY DEF Kinds
<1>2. /\ Kinds[1] = Products /\ Kinds[2] = Uploads /\ Kinds[3] = Baskets
      /\ Kinds[4] = Payments /\ Kinds[5] = Returns /\ Kinds[6] = Accounts
      /\ Kinds[7] = Employees /\ Kinds[8] = Stores /\ Kinds[9] = Archive
      /\ Kinds[10] = Docs /\ Kinds[11] = Readmes
  BY DEF Kinds
<1>3. \A i, j \in 1 .. 11 : i # j => Kinds[i] \cap Kinds[j] = {}
  BY <1>1, RefsAssumption
<1>4. Products \cap Uploads = {} /\ Products \cap Baskets = {} /\ Products \cap Payments = {}
  BY <1>2, <1>3
<1>5. Products \cap Returns = {} /\ Products \cap Accounts = {} /\ Products \cap Stores = {}
  BY <1>2, <1>3
<1>6. Products \cap Employees = {} /\ Products \cap Docs = {} /\ Employees \cap Uploads = {}
  BY <1>2, <1>3
<1>7. Employees \cap Baskets = {} /\ Employees \cap Payments = {} /\ Employees \cap Returns = {}
  BY <1>2, <1>3
<1>8. Employees \cap Accounts = {} /\ Employees \cap Stores = {} /\ Employees \cap Docs = {}
  BY <1>2, <1>3
<1>9. Stores \cap Baskets = {} /\ Stores \cap Payments = {} /\ Stores \cap Returns = {}
  BY <1>2, <1>3
<1>10. Stores \cap Accounts = {} /\ Docs \cap Baskets = {} /\ Docs \cap Payments = {}
  BY <1>2, <1>3
<1>11. Docs \cap Returns = {} /\ Docs \cap Accounts = {} /\ Baskets \cap Uploads = {}
  BY <1>2, <1>3
<1>12. Baskets \cap Payments = {} /\ Baskets \cap Returns = {} /\ Payments \cap Returns = {}
  BY <1>2, <1>3
<1>13. Customers \cap {"none", "guest"} = {}
  BY RefsAssumption
<1> QED BY <1>4, <1>5, <1>6, <1>7, <1>8, <1>9, <1>10, <1>11, <1>12, <1>13 DEF Scoped

\* The parts of a request.
LEMMA RequestParts ==
    ASSUME req \in Requests
    PROVE  /\ req.cited \in Seq(Refs) /\ req.n \in Nat
           /\ req.named \in Seq(Products) /\ req.steps \in Seq(Products)
           /\ req.asked \in Seq(Products) /\ req.targets \in Seq(Scoped)
           /\ req.negated \subseteq Products /\ req.baskets \subseteq Baskets
           /\ req.who \in Identities
           /\ req.form # "text" => req.named = <<>>
           /\ req.who.user = "guest" => req.who.roles \subseteq {"guest"}
<1>1. req \in Completions
  BY RefsAssumption
<1>2. req.form # "text" => req.named = <<>>
  BY RefsAssumption
<1>3. req.who.user = "guest" => req.who.roles \subseteq {"guest"}
  BY RefsAssumption
<1> QED BY <1>1, <1>2, <1>3 DEF Completions

\* The references of the completion that are not documents.
LEMMA CitedRowsAre ==
    ASSUME req \in Requests
    PROVE  /\ CitedRows \in Seq(RowRefs)
           /\ ToSet(CitedRows) = {r \in ToSet(req.cited) : IsRow(r)}
<1>1. req.cited \in Seq(Refs)
  BY RequestParts
<1> DEFINE good == {i \in DOMAIN req.cited : IsRow(req.cited[i])}
<1>2. /\ good \in SUBSET (1 .. Len(req.cited)) /\ CitedRows = Kept(req.cited, good)
      /\ DOMAIN req.cited = 1 .. Len(req.cited)
  BY <1>1 DEF CitedRows
<1>3. {req.cited[i] : i \in good} = {r \in ToSet(req.cited) : IsRow(r)}
  BY DEF ToSet
<1> HIDE DEF good
<1>4. /\ CitedRows \in Seq(Refs)
      /\ ToSet(CitedRows) = {r \in ToSet(req.cited) : IsRow(r)}
  BY <1>1, <1>2, <1>3, KeptRows
<1>5. \A i \in 1 .. Len(CitedRows) : CitedRows[i] \in RowRefs
  <2> SUFFICES ASSUME NEW i \in 1 .. Len(CitedRows) PROVE CitedRows[i] \in RowRefs
    OBVIOUS
  <2>1. CitedRows[i] \in ToSet(CitedRows) /\ CitedRows[i] \in Refs
    BY <1>4 DEF ToSet
  <2> QED BY <1>4, <2>1 DEF RowRefs
<1> QED BY <1>4, <1>5

-----------------------------------------------------------------------------
(* The invariant.                                                            *)

Stages == {"start", "owners", "identify", "targets", "skus", "uploads", "clarify",
           "count", "pin", "exclude", "relate", "replace", "normalize", "done"}

\* The types, a list of references without duplicates among them; after a
\* refusal that is protected no step but the last is taken, and a count does
\* not look at uploads.
Shape ==
    /\ req \in Requests /\ pc \in Stages /\ (pc = "uploads" => req.type # "count")
    /\ identity \in Answers
    /\ denied \in BOOLEAN /\ (denied => pc \in {"normalize", "done"})
    /\ rows \in Seq(RowRefs) /\ Distinct(rows)
    /\ unread \in Seq(Uploads)
    /\ unowned \subseteq Scoped /\ excluded \subseteq Products
    /\ refs \subseteq Records \cup Docs

\* The payments of the returns the model cited.
LinkedToCited == {PaymentOf[x] : x \in CitedScoped \cap Returns}

\* A scoped record was cited, may be cited, or was found in a refund by a
\* return that was cited.
ScopedRows ==
    \A r \in Recs(rows) \cap Scoped :
        \/ r \in CitedScoped \/ MayCite(req.who, OwnerOf[r])
        \/ req.type = "refund" /\ r \in LinkedToCited

\* Only what is cited is written as it was cited.
ShortRows == \A r \in ToSet(rows) : r.form = "short" => r \in ToSet(req.cited)

\* What the steps must not lose.
Lasting == Stores \cup Uploads \cup Payments \cup Returns \cup req.baskets
Survivors == ~ denied /\ ~ req.crosslist /\ pc # "start" =>
                 Recs(CitedRows) \cap Lasting \subseteq Recs(rows)

\* A refusal to a customer or guest that goes on cites only what is the
\* customer's or could not be found.
RefusalSound ==
    (/\ req.outcome = "DENIED_SECURITY" /\ ~ denied
     /\ pc \notin {"start", "owners"} /\ CustomerFacing(req.who)) =>
        \/ CitedScoped = {}
        \/ /\ IsCustomer(req.who)
           /\ \A r \in CitedScoped : OwnerOf[r] = req.who.user \/ r \in unowned

\* What is submitted are documents and rows.
Submitted ==
    pc = "done" => refs \subseteq Docs \cup (IF denied THEN {} ELSE Recs(rows))

\* The products of a count are cited ones.
CountRows == req.type = "count" /\ ~ req.inventory => Recs(rows) \cap Products \subseteq CitedProducts

\* Until the products are cut to the number in the answer, those cited are in front.
InFront ==
    (/\ req.type = "availability_count" /\ ~ denied /\ ~ req.crosslist
     /\ pc \in {"owners", "identify", "targets", "skus", "uploads"}) =>
        Leads(Extend(<<>>, CitedRows), rows)

\* From then on they are few enough, and cited ones if there are enough of those.
Cut == IF req.type = "count"
       THEN {"pin", "exclude", "relate", "replace", "normalize", "done"}
       ELSE {"clarify", "count", "pin", "exclude", "relate", "replace", "normalize", "done"}
Bounded ==
    LET kept == Recs(rows) \cap Products IN
    /\ IsFiniteSet(kept) /\ Cardinality(kept) <= req.n
    /\ Cardinality(CitedProducts) >= req.n /\ ~ req.crosslist => kept \subseteq CitedProducts
Counted == Counting /\ ~ denied /\ pc \in Cut => Bounded

\* Products that were found to be excluded are gone, unless there are no others.
Sorted == IF req.type = "count"
          THEN {"pin", "exclude", "relate", "replace", "normalize", "done"}
          ELSE {"relate", "replace", "normalize", "done"}
Gone ==
    \/ \A p \in excluded : Path(p) \notin ToSet(rows)
    \/ req.type = "availability_count" /\ Recs(rows) \cap Products \subseteq excluded
ExcludedGone ==
    req.type \in {"count", "availability_count"} /\ ~ denied /\ pc \in Sorted => Gone

\* Employees are replaced for customers and guests.
Replaced ==
    pc \in {"normalize", "done"} /\ ~ denied /\ CustomerFacing(identity) =>
        Recs(rows) \cap Employees = {}

Basics == Shape /\ ScopedRows /\ ShortRows /\ Survivors /\ RefusalSound /\ Submitted /\ CountRows
IInv == Basics /\ InFront /\ Counted /\ ExcludedGone /\ Replaced

-----------------------------------------------------------------------------
(* A step that adds the canonical references of some records and loses some. *)

Revises(new, lost) ==
    /\ pc \in Stages \ {"start", "owners", "normalize", "done"}
    /\ pc' \in Stages \ {"start", "owners", "done"} /\ (pc' = "uploads" => req.type # "count")
    /\ UNCHANGED <<req, denied, unowned, refs>>
    /\ identity' \in Answers
    /\ unread' \in Seq(Uploads) /\ excluded' \subseteq Products
    /\ rows' \in Seq(RowRefs) /\ Distinct(rows')
    /\ ToSet(rows') \subseteq ToSet(rows) \cup {Path(x) : x \in new}
    /\ Recs(rows) \ Recs(rows') \subseteq lost

\* In terms of records.
LEMMA RevisedRecs ==
    ASSUME NEW new, NEW lost, Revises(new, lost)
    PROVE  Recs(rows') \subseteq Recs(rows) \cup new
<1>1. \A x : Path(x).rec = x
  BY DEF Path
<1>2. \A r \in ToSet(rows') : r \in ToSet(rows) \/ \E x \in new : r = Path(x)
  BY DEF Revises
<1> QED BY <1>1, <1>2 DEF Recs

\* It keeps the invariant if the scoped records added may be cited and no
\* lasting record is lost.
LEMMA ReviseKeeps ==
    ASSUME Basics, NEW new \in SUBSET Records, NEW lost, Revises(new, lost),
           \A r \in new \cap Scoped :
              MayCite(req.who, OwnerOf[r]) \/ (req.type = "refund" /\ r \in LinkedToCited),
           ~ req.crosslist => lost \cap Lasting = {},
           req.type = "count" /\ ~ req.inventory => new \cap Products = {}
    PROVE  Basics' /\ ~ denied
<1> USE DEF Basics
<1>1. /\ req' = req /\ denied' = denied /\ unowned' = unowned /\ refs' = refs /\ ~ denied
      /\ pc' \notin {"start", "owners", "done"} /\ pc \notin {"start", "owners"}
  BY DEF Revises, Shape, Stages
<1>2. Answers' = Answers /\ CitedRows' = CitedRows
  BY <1>1 DEF Answers, CitedRows
<1>3. CitedScoped' = CitedScoped /\ CitedProducts' = CitedProducts /\ LinkedToCited' = LinkedToCited
  BY <1>2 DEF CitedScoped, CitedProducts, LinkedToCited
<1>4. Shape'
  BY <1>1, <1>2 DEF Shape, Revises, Stages
<1>5. Recs(rows') \subseteq Recs(rows) \cup new
  BY RevisedRecs
<1>6. ScopedRows'
  <2> SUFFICES ASSUME NEW r \in Recs(rows') \cap Scoped
               PROVE  \/ r \in CitedScoped \/ MayCite(req.who, OwnerOf[r])
                      \/ req.type = "refund" /\ r \in LinkedToCited
    BY <1>1, <1>3 DEF ScopedRows
  <2>1. CASE r \in Recs(rows)
    BY <2>1 DEF ScopedRows
  <2>2. CASE r \in new
    BY <2>2
  <2> QED BY <1>5, <2>1, <2>2
<1>7. ShortRows'
  <2>1. \A x : Path(x).form # "short"
    BY DEF Path
  <2>2. \A r \in ToSet(rows') : r \in ToSet(rows) \/ \E x \in new : r = Path(x)
    BY DEF Revises
  <2> QED BY <1>1, <2>1, <2>2 DEF ShortRows
<1>8. Survivors'
  <2> SUFFICES ASSUME ~ req.crosslist PROVE Recs(CitedRows) \cap Lasting \subseteq Recs(rows')
    BY <1>1, <1>2 DEF Survivors, Lasting
  <2>1. Recs(CitedRows) \cap Lasting \subseteq Recs(rows)
    BY <1>1 DEF Survivors
  <2>2. lost \cap Lasting = {} /\ Recs(rows) \ Recs(rows') \subseteq lost
    BY DEF Revises
  <2> QED BY <2>1, <2>2
<1>9. RefusalSound'
  BY <1>1, <1>3 DEF RefusalSound
<1>10. Submitted'
  BY <1>1 DEF Submitted
<1>11. CountRows'
  BY <1>1, <1>3, <1>5 DEF CountRows
<1> QED BY <1>1, <1>4, <1>6, <1>7, <1>8, <1>9, <1>10, <1>11

\* The bound on the products is kept by what adds none.
LEMMA ReviseKeepsBound ==
    ASSUME Basics, NEW new, NEW lost, Revises(new, lost), Counted,
           Counting /\ pc \in Cut => new \cap Products = {},
           Counting => (pc \in Cut \/ pc' \notin Cut)
    PROVE  Counted'
<1>1. /\ req' = req /\ denied' = denied /\ Counting' = Counting /\ Cut' = Cut
      /\ CitedProducts' = CitedProducts
  BY DEF Revises, Counting, Cut, CitedProducts, CitedRows
<1> SUFFICES ASSUME Counting, ~ denied, pc' \in Cut PROVE Bounded'
  BY <1>1 DEF Counted
<1>2. Bounded /\ new \cap Products = {}
  BY DEF Counted
<1>3. Recs(rows') \subseteq Recs(rows) \cup new
  BY RevisedRecs
<1> DEFINE kept == Recs(rows) \cap Products
           after == Recs(rows') \cap Products
<1>4. after \subseteq kept
  BY <1>2, <1>3
<1>5. IsFiniteSet(kept) /\ Cardinality(kept) <= req.n
  BY <1>2 DEF Bounded
<1>6. Cardinality(CitedProducts) >= req.n /\ ~ req.crosslist => kept \subseteq CitedProducts
  BY <1>2 DEF Bounded
<1> HIDE DEF kept, after
<1>7. IsFiniteSet(after) /\ Cardinality(after) <= Cardinality(kept)
  BY <1>4, <1>5, FS_Subset
<1>8. Cardinality(after) \in Nat /\ Cardinality(kept) \in Nat /\ req.n \in Nat
  BY <1>5, <1>7, FS_CardinalityType, RequestParts DEF Basics, Shape
<1>9. Cardinality(after) <= req.n
  BY <1>5, <1>7, <1>8
<1>10. Cardinality(CitedProducts) >= req.n /\ ~ req.crosslist => after \subseteq CitedProducts
  BY <1>4, <1>6
<1> QED BY <1>1, <1>7, <1>9, <1>10 DEF Bounded, after

\* And so is the absence of excluded products.
LEMMA ReviseKeepsGone ==
    ASSUME Basics, NEW new, NEW lost, Revises(new, lost), ExcludedGone,
           pc \in Sorted => new \cap Products = {} /\ excluded' = excluded,
           pc \in Sorted \/ pc' \notin Sorted
    PROVE  ExcludedGone'
<1>1. req' = req /\ denied' = denied /\ Sorted' = Sorted
  BY DEF Revises, Sorted
<1> SUFFICES ASSUME req.type \in {"count", "availability_count"}, ~ denied, pc' \in Sorted
             PROVE  Gone'
  BY <1>1 DEF ExcludedGone
<1>2. Gone /\ new \cap Products = {} /\ excluded' = excluded
  BY DEF ExcludedGone
<1>3. Recs(rows') \subseteq Recs(rows) \cup new
  BY RevisedRecs
<1>4. CASE \A p \in excluded : Path(p) \notin ToSet(rows)
  <2>1. excluded \subseteq Products
    BY DEF Basics, Shape
  <2>2. \A x : Path(x).rec = x
    BY DEF Path
  <2>3. ASSUME NEW p \in excluded, Path(p) \in ToSet(rows') PROVE FALSE
    <3>1. PICK x \in new : Path(p) = Path(x)
      BY <1>4, <2>3 DEF Revises
    <3>2. p = x
      BY <2>2, <3>1
    <3> QED BY <1>2, <2>1, <3>2
  <2> QED BY <1>2, <2>3 DEF Gone
<1>5. CASE req.type = "availability_count" /\ Recs(rows) \cap Products \subseteq excluded
  BY <1>1, <1>2, <1>3, <1>5 DEF Gone
<1> QED BY <1>2, <1>4, <1>5 DEF Gone

\* The references of what was found, after those there are.
LEMMA ExtendFound ==
    ASSUME NEW R \in SUBSET Records, NEW s \in Seq(RowRefs), NEW t \in Seq(R), NEW found
    PROVE  LET longer == Extend(s, Found(t, found))
           IN  /\ longer \in Seq(RowRefs) /\ Distinct(longer)
               /\ ToSet(longer) = ToSet(s) \cup {Path(x) : x \in ToSet(t) \cap found}
               /\ Recs(s) \subseteq Recs(longer)
               /\ Distinct(s) => Leads(s, longer)
<1>1. /\ Found(t, found) \in Seq(RowRefs)
      /\ ToSet(Found(t, found)) = {Path(x) : x \in ToSet(t) \cap found}
  BY FoundRows
<1>2. /\ Extend(s, Found(t, found)) \in Seq(RowRefs) /\ Distinct(Extend(s, Found(t, found)))
      /\ ToSet(Extend(s, Found(t, found))) = ToSet(s) \cup ToSet(Found(t, found))
      /\ Distinct(s) => Leads(s, Extend(s, Found(t, found)))
  BY <1>1, ExtendRows
<1>3. Recs(s) \subseteq Recs(Extend(s, Found(t, found)))
  BY <1>2 DEF Recs
<1> QED BY <1>1, <1>2, <1>3

\* What leads a list that leads another leads that one too.
LEMMA LeadsOn ==
    ASSUME NEW S, NEW r \in Seq(S), NEW s \in Seq(S), NEW t \in Seq(S), Leads(r, s), Leads(s, t)
    PROVE  Leads(r, t)
<1>1. Len(r) \in Nat /\ Len(s) \in Nat /\ Len(t) \in Nat /\ Len(r) <= Len(s) /\ Len(s) <= Len(t)
  BY DEF Leads
<1>2. \A i \in 1 .. Len(r) : i \in 1 .. Len(s) /\ t[i] = r[i]
  BY <1>1 DEF Leads
<1> QED BY <1>1, <1>2 DEF Leads

\* The members of a sequence.
LEMMA Members ==
    ASSUME NEW S, NEW s \in Seq(S)
    PROVE  ToSet(s) \subseteq S
BY DEF ToSet

\* The records of a list of references.
LEMMA RowRecs ==
    ASSUME NEW s \in Seq(RowRefs)
    PROVE  /\ Recs(s) \subseteq Records
           /\ \A r \in ToSet(s) : r.rec \in Recs(s) /\ r \in RowRefs
<1>1. ToSet(s) \subseteq RowRefs
  BY Members
<1> QED BY <1>1 DEF Recs, RowRefs, IsRow

\* The types that are left when rows stay as they are.
LEMMA SameRows ==
    ASSUME Basics, rows' = rows
    PROVE  /\ rows' \in Seq(RowRefs) /\ Distinct(rows')
           /\ \A new, lost : ToSet(rows') \subseteq ToSet(rows) \cup {Path(x) : x \in new}
                             /\ Recs(rows) \ Recs(rows') \subseteq lost
BY DEF Basics, Shape

-----------------------------------------------------------------------------
(* The steps, in terms of what they add and lose.                            *)

\* A crosslist report keeps its uploads, anything else keeps all.
LEMMA IdentifyRevises ==
    ASSUME Basics, Identify
    PROVE  /\ Revises({}, IF req.crosslist THEN Records ELSE {})
           /\ excluded' = excluded /\ pc' = "targets" /\ pc = "identify"
           /\ ~ req.crosslist => rows' = rows
<1>1. /\ rows \in Seq(RowRefs) /\ Distinct(rows) /\ identity \in Answers
  BY DEF Basics, Shape
<1>2. /\ rows' \in Seq(RowRefs) /\ Distinct(rows') /\ ToSet(rows') \subseteq ToSet(rows)
      /\ ~ req.crosslist => rows' = rows
  <2>1. CASE req.crosslist
    <3>1. rows' = OfKind(rows, Uploads)
      BY <2>1 DEF Identify
    <3> QED BY <1>1, <2>1, <3>1, Comprehensions
  <2>2. CASE ~ req.crosslist
    BY <1>1, <2>2 DEF Identify
  <2> QED BY <2>1, <2>2
<1>3. Recs(rows) \ Recs(rows') \subseteq IF req.crosslist THEN Records ELSE {}
  BY <1>1, <1>2, RowRecs
<1>4. identity' \in Answers
  BY <1>1 DEF Identify
<1> QED BY <1>2, <1>3, <1>4 DEF Revises, Identify, Stages, Basics, Shape

\* Only records named in the task that may be cited are added.
LEMMA TargetsRevises ==
    ASSUME Basics, Targets
    PROVE  \E new \in SUBSET Scoped :
              /\ Revises(new, {})
              /\ excluded' = excluded /\ pc' = "skus" /\ pc = "targets"
              /\ \A r \in new : MayCite(req.who, OwnerOf[r])
              /\ Leads(rows, rows')
<1>1. /\ rows \in Seq(RowRefs) /\ Distinct(rows) /\ identity \in Answers
      /\ req.targets \in Seq(Scoped)
  BY RequestParts DEF Basics, Shape
<1>2. /\ pc = "targets" /\ pc' = "skus"
      /\ UNCHANGED <<req, identity, denied, unread, unowned, excluded, refs>>
  BY DEF Targets
<1>3. CASE rows' = rows
  <2>1. Revises({}, {})
    BY <1>2, <1>3, SameRows DEF Revises, Stages, Basics, Shape
  <2>2. Leads(rows, rows')
    BY <1>1, <1>3 DEF Leads
  <2> QED BY <1>2, <2>1, <2>2
<1>4. CASE rows' # rows
  <2>1. PICK id \in Answers, found \in SUBSET ToSet(req.targets) :
            rows' = Extend(rows, Found(req.targets, {r \in found : MayCite(id, OwnerOf[r])}))
    BY <1>1, <1>4 DEF Targets
  <2> DEFINE new == ToSet(req.targets) \cap {r \in found : MayCite(id, OwnerOf[r])}
  <2>2. new \in SUBSET Scoped
    BY <1>1, Members
  <2>3. Scoped \in SUBSET Records
    BY DEF Records
  <2>4. /\ rows' \in Seq(RowRefs) /\ Distinct(rows')
        /\ ToSet(rows') = ToSet(rows) \cup {Path(x) : x \in new}
        /\ Recs(rows) \subseteq Recs(rows') /\ Leads(rows, rows')
    BY <1>1, <2>1, <2>3, ExtendFound
  <2>5. \A r \in new : MayCite(req.who, OwnerOf[r])
    BY <2>1 DEF Answers, Unknown, MayCite
  <2> HIDE DEF new
  <2>6. Revises(new, {})
    BY <1>2, <2>4 DEF Revises, Stages, Basics, Shape
  <2> QED BY <1>2, <2>2, <2>4, <2>5, <2>6
<1> QED BY <1>3, <1>4

\* Products named in the task and in the steps are added.
LEMMA SkusRevises ==
    ASSUME Basics, Skus
    PROVE  \E new \in SUBSET Products :
              /\ Revises(new, {})
              /\ excluded' = excluded /\ pc = "skus"
              /\ Leads(rows, rows')
              /\ \/ pc' = "uploads" /\ req.type # "count"
                 \/ pc' = "clarify" /\ new = {} /\ req.type # "availability_count"
<1>1. /\ rows \in Seq(RowRefs) /\ Distinct(rows) /\ identity \in Answers
      /\ req.asked \in Seq(Products) /\ req.steps \in Seq(Products)
  BY RequestParts DEF Basics, Shape
<1>2. pc = "skus" /\ UNCHANGED <<req, identity, denied, unowned, excluded, refs>>
  BY DEF Skus
<1>3. Products \in SUBSET Records
  BY DEF Records
<1>4. CASE req.type \notin {"availability_count", "availability_lookup",
                            "receipt_price_check", "checkout"}
  <2>1. pc' = "clarify" /\ rows' = rows /\ unread' = unread
    BY <1>4 DEF Skus
  <2>2. Revises({}, {})
    BY <1>2, <2>1, SameRows DEF Revises, Stages, Basics, Shape
  <2>3. Leads(rows, rows')
    BY <1>1, <2>1 DEF Leads
  <2> QED BY <1>2, <1>4, <2>1, <2>2, <2>3
<1>5. CASE req.type \in {"availability_count", "availability_lookup",
                         "receipt_price_check", "checkout"}
  <2>1. PICK f, done : rows' = Extend(rows, Found(req.asked, f) \o Found(req.steps, done))
    BY <1>5 DEF Skus
  <2>2. /\ pc' = "uploads"
        /\ unread' = [i \in DOMAIN OfKind(rows, Uploads) |-> OfKind(rows, Uploads)[i].rec]
    BY <1>5 DEF Skus
  <2> DEFINE new == (ToSet(req.asked) \cap f) \cup (ToSet(req.steps) \cap done)
             added == Found(req.asked, f) \o Found(req.steps, done)
  <2>3. new \in SUBSET Products
    BY <1>1, Members
  <2>4. /\ Found(req.asked, f) \in Seq(RowRefs) /\ Found(req.steps, done) \in Seq(RowRefs)
        /\ ToSet(Found(req.asked, f)) = {Path(x) : x \in ToSet(req.asked) \cap f}
        /\ ToSet(Found(req.steps, done)) = {Path(x) : x \in ToSet(req.steps) \cap done}
    BY <1>1, <1>3, FoundRows
  <2>5. added \in Seq(RowRefs) /\ ToSet(added) \subseteq {Path(x) : x \in new}
    <3> DEFINE a == Found(req.asked, f)
               b == Found(req.steps, done)
    <3>1. a \in Seq(RowRefs) /\ b \in Seq(RowRefs)
      BY <2>4
    <3> HIDE DEF a, b
    <3>2. /\ a \o b \in Seq(RowRefs) /\ DOMAIN (a \o b) = 1 .. Len(a) + Len(b)
          /\ \A i \in 1 .. Len(a) + Len(b) :
                (a \o b)[i] = IF i <= Len(a) THEN a[i] ELSE b[i - Len(a)]
      BY <3>1
    <3>3. \A i \in 1 .. Len(a) + Len(b) : (a \o b)[i] \in ToSet(a) \cup ToSet(b)
      <4> SUFFICES ASSUME NEW i \in 1 .. Len(a) + Len(b)
                   PROVE  (a \o b)[i] \in ToSet(a) \cup ToSet(b)
        OBVIOUS
      <4>1. CASE i <= Len(a)
        <5>1. i \in DOMAIN a /\ (a \o b)[i] = a[i]
          BY <3>1, <3>2, <4>1
        <5> QED BY <5>1 DEF ToSet
      <4>2. CASE ~ (i <= Len(a))
        <5>1. i - Len(a) \in DOMAIN b /\ (a \o b)[i] = b[i - Len(a)]
          BY <3>1, <3>2, <4>2
        <5> QED BY <5>1 DEF ToSet
      <4> QED BY <4>1, <4>2
    <3>4. ToSet(a \o b) \subseteq ToSet(a) \cup ToSet(b)
      BY <3>2, <3>3 DEF ToSet
    <3>5. ToSet(a) \cup ToSet(b) \subseteq {Path(x) : x \in new}
      BY <2>4 DEF a, b
    <3> QED BY <3>2, <3>4, <3>5 DEF a, b
  <2> HIDE DEF added
  <2>6. rows' = Extend(rows, added)
    BY <2>1 DEF added
  <2>7. /\ rows' \in Seq(RowRefs) /\ Distinct(rows')
        /\ ToSet(rows') = ToSet(rows) \cup ToSet(added) /\ Leads(rows, rows')
    BY <1>1, <2>5, <2>6, ExtendRows
  <2>8. unread' \in Seq(Uploads)
    <3> DEFINE u == OfKind(rows, Uploads)
    <3>1. u \in Seq(RowRefs) /\ ToSet(u) = {r \in ToSet(rows) : r.rec \in Uploads}
      BY <1>1, Comprehensions
    <3>2. unread' = [i \in DOMAIN u |-> u[i].rec]
      BY <2>2
    <3> HIDE DEF u
    <3>3. DOMAIN u = 1 .. Len(u) /\ Len(u) \in Nat
      BY <3>1
    <3>4. \A i \in 1 .. Len(u) : u[i].rec \in Uploads
      BY <3>1, <3>3 DEF ToSet
    <3> QED BY <3>2, <3>3, <3>4
  <2> HIDE DEF new
  <2>9. Recs(rows) \ Recs(rows') = {}
    BY <2>7 DEF Recs
  <2>10. Revises(new, {})
    BY <1>2, <1>5, <2>2, <2>5, <2>7, <2>8, <2>9 DEF Revises, Stages, Basics, Shape
  <2> QED BY <1>2, <1>5, <2>2, <2>3, <2>7, <2>10
<1> QED BY <1>4, <1>5

\* Products on a receipt are added.
LEMMA ReadUploadRevises ==
    ASSUME Basics, ReadUpload
    PROVE  \E new \in SUBSET Products :
              /\ Revises(new, {})
              /\ excluded' = excluded /\ pc = "uploads" /\ pc' = "uploads"
              /\ Leads(rows, rows')
<1>1. /\ rows \in Seq(RowRefs) /\ Distinct(rows) /\ unread \in Seq(Uploads) /\ unread # <<>>
      /\ pc = "uploads" /\ pc' = "uploads"
      /\ UNCHANGED <<req, identity, denied, unowned, excluded, refs>>
  BY DEF Basics, Shape, ReadUpload
<1>2. Head(unread) \in Uploads /\ Tail(unread) \in Seq(Uploads)
  BY <1>1
<1>3. ItemsOn[Head(unread)] \in Seq(Products) /\ Products \in SUBSET Records
  BY <1>2, RefsAssumption DEF Records
<1>4. PICK found : rows' = Extend(rows, Found(ItemsOn[Head(unread)], found))
  BY DEF ReadUpload
<1> DEFINE new == ToSet(ItemsOn[Head(unread)]) \cap found
<1>5. new \in SUBSET Products
  BY <1>3, Members
<1>6. /\ rows' \in Seq(RowRefs) /\ Distinct(rows')
      /\ ToSet(rows') = ToSet(rows) \cup {Path(x) : x \in new}
      /\ Recs(rows) \subseteq Recs(rows') /\ Leads(rows, rows')
  BY <1>1, <1>3, <1>4, ExtendFound
<1> HIDE DEF new
<1>7. unread' \in Seq(Uploads)
  BY <1>2 DEF ReadUpload
<1>8. Revises(new, {})
  BY <1>1, <1>6, <1>7 DEF Revises, Stages, Basics, Shape
<1> QED BY <1>1, <1>5, <1>6, <1>8

\* The negated products that a denial keeps, or nothing.
LEMMA NegatedRows ==
    ASSUME Basics, NEW s \in Seq(RowRefs), Distinct(s), NEW t, NEW negated,
           t = IF PreservesNegated THEN Extend(s, Found(req.asked, negated)) ELSE s
    PROVE  /\ t \in Seq(RowRefs) /\ Distinct(t) /\ Leads(s, t)
           /\ Recs(s) \subseteq Recs(t) /\ ToSet(s) \subseteq ToSet(t)
           /\ ToSet(t) \subseteq ToSet(s) \cup {Path(x) : x \in ToSet(req.asked)}
<1>1. req.asked \in Seq(Products) /\ Products \in SUBSET Records
  BY RequestParts DEF Basics, Shape, Records
<1>2. CASE PreservesNegated
  <2>1. /\ t \in Seq(RowRefs) /\ Distinct(t) /\ Leads(s, t) /\ Recs(s) \subseteq Recs(t)
        /\ ToSet(t) = ToSet(s) \cup {Path(x) : x \in ToSet(req.asked) \cap negated}
    BY <1>1, <1>2, ExtendFound
  <2> QED BY <2>1
<1>3. CASE ~ PreservesNegated
  BY <1>3 DEF Leads
<1> QED BY <1>2, <1>3

\* The products are brought into line with the number in the answer.
LEMMA AlignRevises ==
    ASSUME Basics, AlignAvailability
    PROVE  \E new \in SUBSET Products :
              /\ Revises(new, Products)
              /\ excluded' = excluded /\ pc = "uploads" /\ pc' = "clarify"
              /\ \E longer \in Seq(RowRefs) :
                    /\ Leads(rows, longer) /\ Recs(rows) \subseteq Recs(longer)
                    /\ rows' = IF req.type = "availability_count" /\ req.form = "yes_n"
                               THEN FirstProducts(longer, req.n) ELSE longer
<1>1. /\ rows \in Seq(RowRefs) /\ Distinct(rows) /\ pc = "uploads" /\ pc' = "clarify"
      /\ UNCHANGED <<req, identity, denied, unread, unowned, excluded, refs>>
      /\ req.n \in Nat /\ req.asked \in Seq(Products)
  BY RequestParts DEF Basics, Shape, AlignAvailability
<1> DEFINE Longer(negated) == IF PreservesNegated THEN Extend(rows, Found(req.asked, negated))
                              ELSE rows
<1>2. PICK negated : rows' = IF req.type = "availability_count" /\ req.form = "yes_n"
                             THEN FirstProducts(Longer(negated), req.n) ELSE Longer(negated)
  BY DEF AlignAvailability
<1> DEFINE longer == Longer(negated)
           new == ToSet(req.asked)
<1>3. /\ longer \in Seq(RowRefs) /\ Distinct(longer) /\ Leads(rows, longer)
      /\ Recs(rows) \subseteq Recs(longer)
      /\ ToSet(longer) \subseteq ToSet(rows) \cup {Path(x) : x \in new}
  BY <1>1, NegatedRows
<1>4. rows' = IF req.type = "availability_count" /\ req.form = "yes_n"
              THEN FirstProducts(longer, req.n) ELSE longer
  BY <1>2
<1> HIDE DEF longer, Longer
<1>5. new \in SUBSET Products
  BY <1>1, Members
<1> HIDE DEF new
<1>6. /\ rows' \in Seq(RowRefs) /\ Distinct(rows') /\ ToSet(rows') \subseteq ToSet(longer)
      /\ \A r \in ToSet(longer) : ~ IsProduct(r) => r \in ToSet(rows')
  BY <1>1, <1>3, <1>4, FirstProductsRows
<1>7. Recs(rows) \ Recs(rows') \subseteq Products
  <2>1. Recs(longer) \ Recs(rows') \subseteq Products
    BY <1>6 DEF Recs, IsProduct
  <2> QED BY <1>3, <2>1
<1>8. Revises(new, Products)
  BY <1>1, <1>3, <1>6, <1>7 DEF Revises, Stages, Basics, Shape
<1> QED BY <1>1, <1>3, <1>4, <1>5, <1>8

\* Only a question about products changes anything here.
LEMMA ClarifyRevises ==
    ASSUME Basics, Clarify
    PROVE  \E new \in SUBSET Products :
              /\ Revises(new, Products)
              /\ excluded' = excluded /\ pc = "clarify" /\ pc' = "count"
              /\ (req.outcome # "NONE_CLARIFICATION" \/ req.type = "count") => new = {}
<1>1. /\ rows \in Seq(RowRefs) /\ Distinct(rows) /\ pc = "clarify" /\ pc' = "count"
      /\ UNCHANGED <<req, identity, denied, unread, unowned, excluded, refs>>
      /\ req.asked \in Seq(Products)
  BY RequestParts DEF Basics, Shape, Clarify
<1>2. CASE \/ req.outcome # "NONE_CLARIFICATION"
           \/ req.type \notin {"availability_count", "availability_lookup", "catalog_lookup"}
  <2>1. rows' = rows
    BY <1>2 DEF Clarify
  <2>2. Revises({}, Products)
    BY <1>1, <2>1, SameRows DEF Revises, Stages, Basics, Shape
  <2> QED BY <1>1, <2>2
<1>3. CASE /\ req.outcome = "NONE_CLARIFICATION"
           /\ req.type \in {"availability_count", "availability_lookup", "catalog_lookup"}
  <2> DEFINE good(found) == {i \in DOMAIN rows :
                                IsProduct(rows[i]) => rows[i] \in {Path(p) : p \in found}}
             Aligned(found) == IF found = {} THEN rows ELSE Kept(rows, good(found))
  <2>1. PICK found, negated :
            rows' = IF PreservesNegated THEN Extend(Aligned(found), Found(req.asked, negated))
                    ELSE Aligned(found)
    BY <1>3 DEF Clarify
  <2> DEFINE aligned == Aligned(found)
             kept == good(found)
             new == ToSet(req.asked)
  <2>2. /\ kept \in SUBSET (1 .. Len(rows))
        /\ \A i \in 1 .. Len(rows) : ~ IsProduct(rows[i]) => i \in kept
    BY <1>1
  <2>3. aligned = IF found = {} THEN rows ELSE Kept(rows, kept)
    OBVIOUS
  <2>4. rows' = IF PreservesNegated THEN Extend(aligned, Found(req.asked, negated)) ELSE aligned
    BY <2>1
  <2> HIDE DEF good, Aligned, aligned, kept, new
  <2>5. DOMAIN rows = 1 .. Len(rows)
    BY <1>1
  <2>6. /\ aligned \in Seq(RowRefs) /\ Distinct(aligned) /\ ToSet(aligned) \subseteq ToSet(rows)
        /\ \A r \in ToSet(rows) : ~ IsProduct(r) => r \in ToSet(aligned)
    <3>1. CASE found = {}
      BY <1>1, <2>3, <3>1
    <3>2. CASE found # {}
      <4>1. /\ aligned \in Seq(RowRefs) /\ ToSet(aligned) = {rows[i] : i \in kept}
            /\ Distinct(aligned)
        BY <1>1, <2>2, <2>3, <3>2, KeptRows
      <4> QED BY <2>2, <2>5, <4>1 DEF ToSet
    <3> QED BY <3>1, <3>2
  <2>7. /\ rows' \in Seq(RowRefs) /\ Distinct(rows') /\ ToSet(aligned) \subseteq ToSet(rows')
        /\ ToSet(rows') \subseteq ToSet(aligned) \cup {Path(x) : x \in new}
    BY <2>4, <2>6, NegatedRows DEF new
  <2>8. Recs(rows) \ Recs(rows') \subseteq Products
    BY <2>6, <2>7 DEF Recs, IsProduct
  <2>9. new \in SUBSET Products
    BY <1>1, Members DEF new
  <2>10. Revises(new, Products)
    BY <1>1, <2>6, <2>7, <2>8 DEF Revises, Stages, Basics, Shape
  <2> QED BY <1>1, <1>3, <2>9, <2>10
<1> QED BY <1>2, <1>3

\* A count leaves out what the task excludes, and is cut to its number.
LEMMA CountRevises ==
    ASSUME Basics, Count
    PROVE  \E new \in SUBSET Products :
              /\ Revises(new, Products) /\ pc = "count" /\ pc' = "pin"
              /\ req.type # "count" => new = {} /\ excluded' = excluded
              /\ req.type = "count" =>
                    /\ ~ req.inventory => new = {}
                    /\ \A p \in excluded' : Path(p) \notin ToSet(rows')
                    /\ req.form = "integer" /\ ~ req.inventory =>
                          \E kept \in Seq(RowRefs) : rows' = FirstProducts(kept, req.n)
<1>1. /\ rows \in Seq(RowRefs) /\ Distinct(rows) /\ pc = "count" /\ pc' = "pin"
      /\ UNCHANGED <<req, identity, denied, unread, unowned, refs>>
      /\ req.asked \in Seq(Products) /\ Products \in SUBSET Records /\ req.n \in Nat
      /\ req.negated \subseteq Products
  BY RequestParts DEF Basics, Shape, Count, Records
<1>2. CASE req.type # "count"
  <2>1. rows' = rows /\ excluded' = excluded
    BY <1>2 DEF Count
  <2>2. Revises({}, Products)
    BY <1>1, <2>1, SameRows DEF Revises, Stages, Basics, Shape
  <2> QED BY <1>1, <1>2, <2>1, <2>2
<1>3. CASE req.type = "count"
  <2> DEFINE Extended(found) == IF req.inventory THEN Extend(rows, Found(req.asked, found))
                                ELSE rows
             Rest(found, negated) == Without(Extended(found), negated)
  <2>1. PICK found \in SUBSET ToSet(req.asked), negated \in SUBSET req.negated :
            /\ rows' = IF req.form # "integer" \/ req.inventory THEN Rest(found, negated)
                       ELSE FirstProducts(Rest(found, negated), req.n)
            /\ excluded' = negated
    BY <1>3 DEF Count
  <2> DEFINE extended == Extended(found)
             kept == Without(extended, negated)
             new == IF req.inventory THEN ToSet(req.asked) \cap found ELSE {}
  <2>2. /\ extended \in Seq(RowRefs) /\ Distinct(extended)
        /\ ToSet(extended) = ToSet(rows) \cup {Path(x) : x \in new}
        /\ Recs(rows) \subseteq Recs(extended)
    <3>1. CASE req.inventory
      BY <1>1, <3>1, ExtendFound
    <3>2. CASE ~ req.inventory
      BY <1>1, <3>2
    <3> QED BY <3>1, <3>2
  <2>3. rows' = IF req.form # "integer" \/ req.inventory THEN kept
                ELSE FirstProducts(kept, req.n)
    BY <2>1
  <2>4. new \in SUBSET Products /\ (~ req.inventory => new = {})
    BY <1>1, Members
  <2> HIDE DEF extended, Extended, Rest, new
  <2>5. /\ kept \in Seq(RowRefs) /\ Distinct(kept)
        /\ ToSet(kept) = ToSet(extended) \ {Path(x) : x \in negated}
    BY <2>2, Comprehensions
  <2>6. \A r \in ToSet(extended) : ~ IsProduct(r) => r \in ToSet(kept)
    <3>1. \A x \in negated : IsProduct(Path(x))
      BY <1>1 DEF IsProduct, Path
    <3> QED BY <2>5, <3>1
  <2> HIDE DEF kept
  <2>7. /\ rows' \in Seq(RowRefs) /\ Distinct(rows') /\ ToSet(rows') \subseteq ToSet(kept)
        /\ \A r \in ToSet(kept) : ~ IsProduct(r) => r \in ToSet(rows')
    BY <1>1, <2>3, <2>5, FirstProductsRows
  <2>8. Recs(rows) \ Recs(rows') \subseteq Products
    <3>1. Recs(extended) \ Recs(rows') \subseteq Products
      BY <2>6, <2>7 DEF Recs, IsProduct
    <3> QED BY <2>2, <3>1
  <2>9. \A p \in excluded' : Path(p) \notin ToSet(rows')
    BY <2>1, <2>5, <2>7
  <2>10. ToSet(rows') \subseteq ToSet(rows) \cup {Path(x) : x \in new}
    BY <2>2, <2>5, <2>7
  <2>11. excluded' \subseteq Products
    BY <1>1, <2>1
  <2>12. Revises(new, Products)
    BY <1>1, <2>7, <2>8, <2>10, <2>11 DEF Revises, Stages, Basics, Shape
  <2> QED BY <1>1, <1>3, <2>3, <2>4, <2>5, <2>9, <2>12
<1> QED BY <1>2, <1>3

\* Of several baskets the message names one of, the others go.
LEMMA NamedBasketRows ==
    ASSUME NEW s \in Seq(RowRefs), Distinct(s)
    PROVE  /\ KeepNamedBasket(s) \in Seq(RowRefs) /\ Distinct(KeepNamedBasket(s))
           /\ ToSet(KeepNamedBasket(s)) \subseteq ToSet(s)
           /\ \A r \in ToSet(s) : r.rec \notin Baskets \ req.baskets =>
                                      r \in ToSet(KeepNamedBasket(s))
<1> DEFINE good == {i \in DOMAIN s : s[i].rec \in Baskets => s[i].rec \in req.baskets}
<1>1. KeepNamedBasket(s) \in {s, Kept(s, good)}
  BY DEF KeepNamedBasket
<1>2. good \in SUBSET (1 .. Len(s)) /\ DOMAIN s = 1 .. Len(s)
  OBVIOUS
<1>3. \A i \in DOMAIN s : s[i].rec \notin Baskets \ req.baskets => i \in good
  OBVIOUS
<1> HIDE DEF good
<1>4. CASE KeepNamedBasket(s) = s
  BY <1>4
<1>5. CASE KeepNamedBasket(s) = Kept(s, good)
  <2>1. /\ Kept(s, good) \in Seq(RowRefs) /\ ToSet(Kept(s, good)) = {s[i] : i \in good}
        /\ Distinct(Kept(s, good))
    BY <1>2, KeptRows
  <2>2. ToSet(Kept(s, good)) \subseteq ToSet(s)
    BY <1>2, <2>1 DEF ToSet
  <2>3. \A r \in ToSet(s) : r.rec \notin Baskets \ req.baskets => r \in ToSet(Kept(s, good))
    BY <1>3, <2>1 DEF ToSet
  <2> QED BY <1>5, <2>1, <2>2, <2>3
<1> QED BY <1>1, <1>4, <1>5

\* A denial loses products, a message that names a basket the other baskets;
\* products the message names are added, but not in a count.
LEMMA PinRevises ==
    ASSUME Basics, Pin
    PROVE  \E new \in SUBSET Products :
              /\ Revises(new, Products \cup (Baskets \ req.baskets))
              /\ excluded' = excluded /\ pc = "pin" /\ pc' = "exclude"
              /\ req.type = "count" \/ req.form # "text" => new = {}
<1>1. /\ rows \in Seq(RowRefs) /\ Distinct(rows) /\ pc = "pin" /\ pc' = "exclude"
      /\ UNCHANGED <<req, identity, denied, unread, unowned, excluded, refs>>
      /\ req.named \in Seq(Products) /\ (req.form # "text" => req.named = <<>>)
      /\ Products \in SUBSET Records
  BY RequestParts DEF Basics, Shape, Pin, Records
<1> DEFINE denying == req.type = "catalog_lookup" /\ req.form = "no"
           some == IF denying THEN OfKind(rows, Records \ Products) ELSE rows
           kept == KeepNamedBasket(some)
<1>2. PICK answered \in BOOLEAN :
          rows' = IF req.type # "count" /\ answered
                  THEN Extend(kept, Found(req.named, ToSet(req.named))) ELSE kept
  BY DEF Pin
<1>3. /\ some \in Seq(RowRefs) /\ Distinct(some) /\ ToSet(some) \subseteq ToSet(rows)
      /\ \A r \in ToSet(rows) : r.rec \notin Products => r \in ToSet(some)
  <2>1. CASE denying
    <3>1. /\ some \in Seq(RowRefs) /\ Distinct(some)
          /\ ToSet(some) = {r \in ToSet(rows) : r.rec \in Records \ Products}
      BY <1>1, <2>1, Comprehensions
    <3>2. \A r \in ToSet(rows) : r.rec \in Records
      BY <1>1, RowRecs
    <3> HIDE DEF some
    <3> QED BY <3>1, <3>2
  <2>2. CASE ~ denying
    BY <1>1, <2>2
  <2> QED BY <2>1, <2>2
<1> HIDE DEF some, denying
<1>4. /\ kept \in Seq(RowRefs) /\ Distinct(kept) /\ ToSet(kept) \subseteq ToSet(some)
      /\ \A r \in ToSet(some) : r.rec \notin Baskets \ req.baskets => r \in ToSet(kept)
  BY <1>3, NamedBasketRows
<1> HIDE DEF kept
<1> DEFINE new == IF req.type = "count" THEN {} ELSE ToSet(req.named)
<1>5. new \in SUBSET Products
  BY <1>1, Members
<1>6. req.type = "count" \/ req.form # "text" => new = {}
  BY <1>1 DEF ToSet
<1>7. /\ rows' \in Seq(RowRefs) /\ Distinct(rows') /\ ToSet(kept) \subseteq ToSet(rows')
      /\ ToSet(rows') \subseteq ToSet(kept) \cup {Path(x) : x \in new}
  <2>1. CASE req.type # "count" /\ answered
    <3>1. /\ rows' \in Seq(RowRefs) /\ Distinct(rows')
          /\ ToSet(rows') = ToSet(kept) \cup {Path(x) : x \in ToSet(req.named) \cap ToSet(req.named)}
      BY <1>1, <1>2, <1>4, <2>1, ExtendFound
    <3> QED BY <2>1, <3>1
  <2>2. CASE ~ (req.type # "count" /\ answered)
    BY <1>2, <1>4, <2>2
  <2> QED BY <2>1, <2>2
<1> HIDE DEF new
<1>8. ToSet(rows') \subseteq ToSet(rows) \cup {Path(x) : x \in new}
  BY <1>3, <1>4, <1>7
<1>9. Recs(rows) \ Recs(rows') \subseteq Products \cup (Baskets \ req.baskets)
  <2>1. \A r \in ToSet(rows) : r.rec \notin Products \cup (Baskets \ req.baskets)
                                 => r \in ToSet(rows')
    BY <1>3, <1>4, <1>7
  <2> QED BY <2>1 DEF Recs
<1>10. Revises(new, Products \cup (Baskets \ req.baskets))
  BY <1>1, <1>7, <1>8, <1>9 DEF Revises, Stages, Basics, Shape
<1> QED BY <1>1, <1>5, <1>6, <1>10

\* Excluded products go, unless there are no others.
LEMMA ExcludeRevises ==
    ASSUME Basics, Exclude
    PROVE  /\ Revises({}, Products) /\ pc = "exclude" /\ pc' = "relate"
           /\ req.type # "availability_count" => excluded' = excluded
           /\ req.type = "availability_count" => Gone'
<1>1. /\ rows \in Seq(RowRefs) /\ Distinct(rows) /\ pc = "exclude" /\ pc' = "relate"
      /\ UNCHANGED <<req, identity, denied, unread, unowned, refs>>
      /\ req.negated \subseteq Products
  BY RequestParts DEF Basics, Shape, Exclude
<1>2. CASE req.type # "availability_count"
  <2>1. rows' = rows /\ excluded' = excluded
    BY <1>2 DEF Exclude
  <2>2. Revises({}, Products)
    BY <1>1, <2>1, SameRows DEF Revises, Stages, Basics, Shape
  <2> QED BY <1>1, <1>2, <2>1, <2>2
<1>3. CASE req.type = "availability_count"
  <2>1. PICK negated \in SUBSET req.negated :
            /\ excluded' = negated
            /\ rows' = IF \A r \in ToSet(rows) :
                             IsProduct(r) => r \in {Path(p) : p \in negated}
                       THEN rows ELSE Without(rows, negated)
    BY <1>3 DEF Exclude
  <2>2. excluded' \subseteq Products
    BY <1>1, <2>1
  <2>3. CASE \A r \in ToSet(rows) : IsProduct(r) => r \in {Path(p) : p \in negated}
    <3>1. rows' = rows
      BY <2>1, <2>3
    <3>2. Recs(rows) \cap Products \subseteq negated
      <4>1. \A p : Path(p).rec = p
        BY DEF Path
      <4> QED BY <2>3, <4>1 DEF Recs, IsProduct
    <3>3. Revises({}, Products)
      BY <1>1, <2>2, <3>1, SameRows DEF Revises, Stages, Basics, Shape
    <3>4. Gone'
      BY <1>1, <1>3, <2>1, <3>1, <3>2 DEF Gone
    <3> QED BY <1>1, <1>3, <3>3, <3>4
  <2>4. CASE ~ \A r \in ToSet(rows) : IsProduct(r) => r \in {Path(p) : p \in negated}
    <3>1. rows' = Without(rows, negated)
      BY <2>1, <2>4
    <3>2. /\ rows' \in Seq(RowRefs) /\ Distinct(rows')
          /\ ToSet(rows') = ToSet(rows) \ {Path(x) : x \in negated}
      BY <1>1, <3>1, Comprehensions
    <3>3. Recs(rows) \ Recs(rows') \subseteq Products
      <4>1. \A x \in negated : Path(x).rec \in Products
        BY <1>1 DEF Path
      <4> QED BY <3>2, <4>1 DEF Recs
    <3>4. Revises({}, Products)
      BY <1>1, <2>2, <3>2, <3>3 DEF Revises, Stages, Basics, Shape
    <3>5. Gone'
      BY <2>1, <3>2 DEF Gone
    <3> QED BY <1>1, <1>3, <3>4, <3>5
  <2> QED BY <2>3, <2>4
<1> QED BY <1>2, <1>3

\* A refund adds payments of returns that are cited, a discount the employee.
LEMMA RelateRevises ==
    ASSUME Basics, Relate
    PROVE  \E new \in SUBSET (Payments \cup Employees) :
              /\ Revises(new, {}) /\ pc = "relate" /\ pc' = "replace"
              /\ excluded' = excluded
              /\ \A r \in new \cap Scoped :
                    MayCite(req.who, OwnerOf[r]) \/ (req.type = "refund" /\ r \in LinkedToCited)
<1>1. /\ rows \in Seq(RowRefs) /\ Distinct(rows) /\ pc = "relate" /\ pc' = "replace"
      /\ UNCHANGED <<req, identity, denied, unread, unowned, excluded, refs>>
  BY DEF Basics, Shape, Relate
<1> DEFINE returns == OfKind(rows, Returns)
           list == [i \in DOMAIN returns |-> PaymentOf[returns[i].rec]]
<1>2. \/ req.type = "refund" /\ \E linked : rows' = Extend(rows, Found(list, linked))
      \/ identity.user \in Employees /\ rows' = Extend(rows, <<Path(identity.user)>>)
      \/ rows' = rows
  BY DEF Relate
<1>3. CASE rows' = rows
  <2>1. Revises({}, {})
    BY <1>1, <1>3, SameRows DEF Revises, Stages, Basics, Shape
  <2> QED BY <1>1, <2>1
<1>4. ASSUME identity.user \in Employees, rows' = Extend(rows, <<Path(identity.user)>>)
      PROVE  \E new \in SUBSET Employees : Revises(new, {})
  <2>1. Path(identity.user) \in RowRefs
    BY <1>4 DEF Path, RowRefs, Refs, IsRow, Records
  <2> DEFINE one == <<Path(identity.user)>>
  <2>2. one \in Seq(RowRefs) /\ ToSet(one) = {Path(identity.user)}
    BY <2>1 DEF ToSet
  <2> HIDE DEF one
  <2>3. rows' = Extend(rows, one)
    BY <1>4 DEF one
  <2>4. /\ rows' \in Seq(RowRefs) /\ Distinct(rows')
        /\ ToSet(rows') = ToSet(rows) \cup {Path(identity.user)}
    BY <1>1, <2>2, <2>3, ExtendRows
  <2>5. ToSet(rows') \subseteq ToSet(rows) \cup {Path(x) : x \in {identity.user}}
    BY <2>4
  <2>6. Recs(rows) \ Recs(rows') = {}
    BY <2>4 DEF Recs
  <2>7. Revises({identity.user}, {})
    BY <1>1, <2>4, <2>5, <2>6 DEF Revises, Stages, Basics, Shape
  <2> QED BY <1>4, <2>7
<1>5. ASSUME req.type = "refund", NEW linked, rows' = Extend(rows, Found(list, linked))
      PROVE  \E new \in SUBSET Payments :
                /\ Revises(new, {})
                /\ \A r \in new : MayCite(req.who, OwnerOf[r]) \/ r \in LinkedToCited
  <2>1. returns \in Seq(RowRefs) /\ ToSet(returns) = {r \in ToSet(rows) : r.rec \in Returns}
    BY <1>1, Comprehensions
  <2> HIDE DEF returns
  <2>2. DOMAIN returns = 1 .. Len(returns) /\ Len(returns) \in Nat
    BY <2>1
  <2>3. \A i \in 1 .. Len(returns) : returns[i].rec \in Returns \cap Recs(rows)
    <3> SUFFICES ASSUME NEW i \in 1 .. Len(returns) PROVE returns[i].rec \in Returns \cap Recs(rows)
      OBVIOUS
    <3>1. returns[i] \in ToSet(returns)
      BY <2>2 DEF ToSet
    <3> QED BY <2>1, <3>1 DEF Recs
  <2>4. PaymentOf \in [Returns -> Payments]
    BY RefsAssumption
  <2>5. list \in Seq(Payments)
    BY <2>2, <2>3, <2>4
  <2> DEFINE new == ToSet(list) \cap linked
  <2>6. new \in SUBSET Payments
    BY <2>5, Members
  <2>7. \A r \in new : \E x \in Returns \cap Recs(rows) : r = PaymentOf[x]
    BY <2>2, <2>3 DEF ToSet
  <2> HIDE DEF list
  <2>8. Payments \in SUBSET Records
    BY DEF Records, Scoped
  <2>9. /\ rows' \in Seq(RowRefs) /\ Distinct(rows')
        /\ ToSet(rows') = ToSet(rows) \cup {Path(x) : x \in new}
        /\ Recs(rows) \subseteq Recs(rows')
    BY <1>1, <1>5, <2>5, <2>8, ExtendFound
  <2> HIDE DEF new
  <2>10. Revises(new, {})
    BY <1>1, <2>9 DEF Revises, Stages, Basics, Shape
  <2>11. ASSUME NEW r \in new PROVE MayCite(req.who, OwnerOf[r]) \/ r \in LinkedToCited
    <3>1. PICK x \in Returns \cap Recs(rows) : r = PaymentOf[x]
      BY <2>7
    <3>2. \/ x \in CitedScoped \/ MayCite(req.who, OwnerOf[x]) \/ x \in LinkedToCited
      BY DEF Basics, ScopedRows, Scoped
    <3>3. OwnerOf[r] = OwnerOf[x]
      BY <3>1, RefsAssumption
    <3>4. x \notin LinkedToCited
      BY <2>4, KindsApart DEF LinkedToCited
    <3> QED BY <3>1, <3>2, <3>3, <3>4 DEF LinkedToCited
  <2> QED BY <2>6, <2>10, <2>11
<1>6. CASE identity.user \in Employees /\ rows' = Extend(rows, <<Path(identity.user)>>)
  <2>1. PICK new \in SUBSET Employees : Revises(new, {})
    BY <1>4, <1>6
  <2>2. new \cap Scoped = {}
    BY KindsApart
  <2> QED BY <1>1, <2>1, <2>2
<1>7. CASE req.type = "refund" /\ \E linked : rows' = Extend(rows, Found(list, linked))
  <2>1. PICK new \in SUBSET Payments :
                /\ Revises(new, {})
                /\ \A r \in new : MayCite(req.who, OwnerOf[r]) \/ r \in LinkedToCited
    BY <1>5, <1>7
  <2> QED BY <1>1, <1>7, <2>1
<1> QED BY <1>2, <1>3, <1>6, <1>7

\* Employees are replaced by their stores, or dropped, for customers and guests.
LEMMA ReplaceRevises ==
    ASSUME Basics, Replace
    PROVE  \E new \in SUBSET Stores :
              /\ Revises(new, Employees) /\ pc = "replace" /\ pc' = "normalize"
              /\ excluded' = excluded /\ identity' = identity
              /\ CustomerFacing(identity) => Recs(rows') \cap Employees = {}
<1>1. /\ rows \in Seq(RowRefs) /\ Distinct(rows) /\ pc = "replace" /\ pc' = "normalize"
      /\ UNCHANGED <<req, identity, denied, unread, unowned, excluded, refs>>
  BY DEF Basics, Shape, Replace
<1>2. CASE ~ CustomerFacing(identity)
  <2>1. rows' = rows
    BY <1>2 DEF Replace
  <2>2. Revises({}, Employees)
    BY <1>1, <2>1, SameRows DEF Revises, Stages, Basics, Shape
  <2> QED BY <1>1, <1>2, <2>2
<1>3. CASE CustomerFacing(identity)
  <2> DEFINE Changed(found) == [i \in DOMAIN rows |-> IF rows[i].rec \in found
                                                      THEN Path(StoreOf[rows[i].rec])
                                                      ELSE rows[i]]
  <2>1. PICK found \in SUBSET (Recs(rows) \cap Employees) :
            rows' = Extend(<<>>, OfKind(Changed(found), Records \ Employees))
    BY <1>3 DEF Replace
  <2> DEFINE changed == Changed(found)
             kept == OfKind(changed, Records \ Employees)
  <2>2. /\ DOMAIN rows = 1 .. Len(rows) /\ Len(rows) \in Nat
        /\ \A i \in 1 .. Len(rows) : rows[i] \in RowRefs
    BY <1>1
  <2>3. \A e \in found : StoreOf[e] \in Stores /\ Path(StoreOf[e]) \in RowRefs
    <3>1. \A e \in found : StoreOf[e] \in Stores
      BY RefsAssumption
    <3> QED BY <3>1 DEF Path, RowRefs, Refs, IsRow, Records
  <2>4. changed \in Seq(RowRefs)
    BY <2>2, <2>3
  <2>5. \A r \in ToSet(changed) : r \in ToSet(rows) \/ \E x \in Stores : r = Path(x)
    BY <2>2, <2>3 DEF ToSet
  <2>6. \A r \in ToSet(rows) : r.rec \notin Employees => r \in ToSet(changed)
    <3> SUFFICES ASSUME NEW i \in DOMAIN rows, rows[i].rec \notin Employees
                 PROVE  rows[i] \in ToSet(changed)
      BY DEF ToSet
    <3>1. changed[i] = rows[i] /\ i \in DOMAIN changed
      BY <2>1
    <3> QED BY <3>1 DEF ToSet
  <2>7. rows' = Extend(<<>>, kept)
    BY <2>1
  <2> HIDE DEF changed, Changed
  <2>8. kept \in Seq(RowRefs) /\ ToSet(kept) = {r \in ToSet(changed) : r.rec \in Records \ Employees}
    BY <2>4, Comprehensions
  <2> HIDE DEF kept
  <2>9. <<>> \in Seq(RowRefs) /\ ToSet(<<>>) = {}
    BY DEF ToSet
  <2>10. rows' \in Seq(RowRefs) /\ Distinct(rows') /\ ToSet(rows') = ToSet(kept)
    <3> DEFINE none == <<>>
    <3>1. none \in Seq(RowRefs) /\ ToSet(none) = {} /\ rows' = Extend(none, kept)
      BY <2>7, <2>9
    <3> HIDE DEF none
    <3>2. /\ Extend(none, kept) \in Seq(RowRefs) /\ Distinct(Extend(none, kept))
          /\ ToSet(Extend(none, kept)) = ToSet(none) \cup ToSet(kept)
      BY <2>8, <3>1, ExtendRows
    <3> QED BY <3>1, <3>2
  <2>11. ToSet(rows') \subseteq ToSet(rows) \cup {Path(x) : x \in Stores}
    BY <2>5, <2>8, <2>10
  <2>12. Recs(rows) \ Recs(rows') \subseteq Employees
    <3>1. \A r \in ToSet(rows) : r.rec \in Records
      BY <1>1, RowRecs
    <3> QED BY <2>6, <2>8, <2>10, <3>1 DEF Recs
  <2>13. Recs(rows') \cap Employees = {}
    BY <2>8, <2>10 DEF Recs
  <2>14. Revises(Stores, Employees)
    BY <1>1, <2>10, <2>11, <2>12 DEF Revises, Stages, Basics, Shape
  <2> QED BY <1>1, <2>13, <2>14
<1> QED BY <1>2, <1>3

-----------------------------------------------------------------------------
(* The number in the answer.                                                 *)

\* There are not more records than places they stand at.
LEMMA ImageBounded ==
    ASSUME NEW s, NEW I, IsFiniteSet(I)
    PROVE  /\ IsFiniteSet({s[i].rec : i \in I})
           /\ Cardinality({s[i].rec : i \in I}) <= Cardinality(I)
<1> DEFINE T == {s[i].rec : i \in I}
           f == [i \in I |-> s[i].rec]
<1>1. f \in Surjection(I, T)
  BY DEF Surjection
<1> HIDE DEF f, T
<1> QED BY <1>1, FS_Surjection DEF T

\* Of the first n products there are at most n.
LEMMA FirstBounded ==
    ASSUME NEW s \in Seq(RowRefs), NEW n \in Nat
    PROVE  LET kept == Recs(FirstProducts(s, n)) \cap Products
           IN  IsFiniteSet(kept) /\ Cardinality(kept) <= n
<1> DEFINE first == {i \in DOMAIN s : IsProduct(s[i]) /\ Cardinality(ProductsUpTo(s, i)) <= n}
           kept == {s[i].rec : i \in first}
<1>1. /\ Recs(FirstProducts(s, n)) \cap Products = kept
      /\ IsFiniteSet(first) /\ Cardinality(first) <= n
  BY FirstProductsRows
<1> HIDE DEF first
<1>2. IsFiniteSet(kept) /\ Cardinality(kept) <= Cardinality(first)
  BY <1>1, ImageBounded
<1> HIDE DEF kept
<1>3. Cardinality(kept) \in Nat /\ Cardinality(first) \in Nat
  BY <1>1, <1>2, FS_CardinalityType
<1>4. Cardinality(kept) <= n
  BY <1>1, <1>2, <1>3
<1> QED BY <1>1, <1>2, <1>4

\* If the products in front are enough, the first n are among them.
LEMMA FirstInFront ==
    ASSUME NEW s \in Seq(RowRefs), NEW n \in Nat, NEW front \in Seq(RowRefs), Leads(front, s),
           Cardinality(Recs(front) \cap Products) >= n
    PROVE  Recs(FirstProducts(s, n)) \cap Products \subseteq Recs(front)
<1> DEFINE m == Len(front)
           start == ProductsUpTo(s, m)
           first == {i \in DOMAIN s : IsProduct(s[i]) /\ Cardinality(ProductsUpTo(s, i)) <= n}
<1>1. /\ m \in Nat /\ Len(s) \in Nat /\ DOMAIN s = 1 .. Len(s) /\ DOMAIN front = 1 .. m
      /\ m <= Len(s) /\ \A i \in 1 .. m : s[i] = front[i]
  BY DEF Leads
<1>2. Recs(front) \cap Products = {s[i].rec : i \in start}
  <2>1. Recs(front) = {s[i].rec : i \in 1 .. m}
    <3>1. ToSet(front) = {front[i] : i \in 1 .. m}
      BY <1>1 DEF ToSet
    <3>2. \A i \in 1 .. m : s[i].rec \in Recs(front)
      BY <1>1, <3>1 DEF Recs
    <3>3. \A x \in Recs(front) : \E i \in 1 .. m : x = s[i].rec
      BY <1>1, <3>1 DEF Recs
    <3> QED BY <3>2, <3>3
  <2>2. start = {i \in 1 .. m : s[i].rec \in Products}
    BY DEF ProductsUpTo, IsProduct
  <2> HIDE DEF start
  <2>3. \A i \in start : s[i].rec \in Recs(front) \cap Products
    BY <2>1, <2>2
  <2>4. \A x \in Recs(front) \cap Products : \E i \in start : x = s[i].rec
    BY <2>1, <2>2
  <2> QED BY <2>3, <2>4
<1>3. IsFiniteSet(start)
  <2>1. start \in SUBSET (1 .. m) /\ m \in Int
    BY <1>1 DEF ProductsUpTo
  <2> HIDE DEF start
  <2>2. IsFiniteSet(1 .. m)
    BY <2>1, FS_Interval
  <2> QED BY <2>1, <2>2, FS_Subset
<1>4. Cardinality(start) \in Nat /\ Cardinality(start) >= n
  <2> DEFINE image == {s[i].rec : i \in start}
  <2>0. Cardinality(image) >= n
    BY <1>2
  <2> HIDE DEF start
  <2>1. IsFiniteSet(image) /\ Cardinality(image) <= Cardinality(start)
    BY <1>3, ImageBounded
  <2>2. Cardinality(start) \in Nat
    BY <1>3, FS_CardinalityType
  <2> HIDE DEF image
  <2>3. Cardinality(image) \in Nat
    BY <2>1, FS_CardinalityType
  <2> QED BY <2>0, <2>1, <2>2, <2>3
<1>5. ASSUME NEW i \in first, i > m PROVE FALSE
  <2>1. i \in 1 .. Len(s) /\ IsProduct(s[i]) /\ Cardinality(ProductsUpTo(s, i)) <= n
    BY <1>1
  <2>2. start \cup {i} \subseteq ProductsUpTo(s, i) /\ i \notin start
    BY <1>1, <1>5, <2>1 DEF ProductsUpTo
  <2>3. IsFiniteSet(ProductsUpTo(s, i))
    <3>1. ProductsUpTo(s, i) \in SUBSET (1 .. i) /\ i \in Int
      BY <2>1 DEF ProductsUpTo
    <3>2. IsFiniteSet(1 .. i)
      BY <3>1, FS_Interval
    <3> QED BY <3>1, <3>2, FS_Subset
  <2> HIDE DEF start, first
  <2>4. Cardinality(start \cup {i}) = Cardinality(start) + 1
    BY <1>3, <2>2, FS_AddElement
  <2>5. Cardinality(start \cup {i}) <= Cardinality(ProductsUpTo(s, i))
    BY <2>2, <2>3, FS_Subset
  <2>6. Cardinality(ProductsUpTo(s, i)) \in Nat
    BY <2>3, FS_CardinalityType
  <2> QED BY <1>4, <2>1, <2>4, <2>5, <2>6
<1>6. Recs(FirstProducts(s, n)) \cap Products = {s[i].rec : i \in first}
  BY FirstProductsRows
<1>7. ASSUME NEW i \in first PROVE s[i].rec \in Recs(front)
  <2>1. i \in 1 .. Len(s)
    BY <1>1
  <2>2. i \in 1 .. m
    BY <1>1, <1>5, <2>1
  <2>3. front[i] \in ToSet(front)
    BY <1>1, <2>2 DEF ToSet
  <2> QED BY <1>1, <2>2, <2>3 DEF Recs
<1> HIDE DEF first
<1> QED BY <1>6, <1>7

\* The rows the model cited, without duplicates.
LEMMA FrontRows ==
    ASSUME req \in Requests
    PROVE  /\ Extend(<<>>, CitedRows) \in Seq(RowRefs) /\ Distinct(Extend(<<>>, CitedRows))
           /\ ToSet(Extend(<<>>, CitedRows)) = ToSet(CitedRows)
           /\ Recs(Extend(<<>>, CitedRows)) = Recs(CitedRows)
<1> DEFINE none == <<>>
<1>1. none \in Seq(RowRefs) /\ ToSet(none) = {} /\ CitedRows \in Seq(RowRefs)
  BY CitedRowsAre DEF ToSet
<1> HIDE DEF none
<1>2. /\ Extend(none, CitedRows) \in Seq(RowRefs) /\ Distinct(Extend(none, CitedRows))
      /\ ToSet(Extend(none, CitedRows)) = ToSet(none) \cup ToSet(CitedRows)
  BY <1>1, ExtendRows
<1>3. ToSet(Extend(none, CitedRows)) = ToSet(CitedRows)
  BY <1>1, <1>2
<1> QED BY <1>2, <1>3 DEF none, Recs

-----------------------------------------------------------------------------
(* The first steps and the last.                                             *)

\* The cited rows satisfy the invariant.
LEMMA StartKeeps ==
    ASSUME IInv, Start
    PROVE  IInv'
<1>1. /\ req' = req /\ pc = "start" /\ rows' = Extend(<<>>, CitedRows)
      /\ UNCHANGED <<req, identity, unread, unowned, excluded, refs>>
      /\ denied' \in BOOLEAN
      /\ pc' = IF denied' THEN "normalize"
               ELSE IF req.outcome = "DENIED_SECURITY" THEN "owners" ELSE "identify"
      /\ Shape
  BY RequestParts, RefsAssumption DEF Start, IInv, Basics, Completions, Shape
<1>2. Answers' = Answers /\ CitedRows' = CitedRows
  BY <1>1 DEF Answers, CitedRows
<1>3. CitedScoped' = CitedScoped /\ CitedProducts' = CitedProducts /\ LinkedToCited' = LinkedToCited
  BY <1>2 DEF CitedScoped, CitedProducts, LinkedToCited
<1>4. /\ rows' \in Seq(RowRefs) /\ Distinct(rows')
      /\ ToSet(rows') = ToSet(CitedRows) /\ Recs(rows') = Recs(CitedRows)
  BY <1>1, FrontRows DEF Shape
<1>5. Shape'
  BY <1>1, <1>2, <1>4 DEF Shape, Stages
<1>6. ScopedRows'
  BY <1>3, <1>4 DEF ScopedRows, CitedScoped
<1>7. ShortRows'
  BY <1>1, <1>4, CitedRowsAre DEF ShortRows, Shape
<1>8. Survivors' /\ CountRows'
  BY <1>1, <1>2, <1>3, <1>4 DEF Survivors, Lasting, CountRows, CitedProducts
<1>9. RefusalSound' /\ Submitted'
  BY <1>1 DEF RefusalSound, Submitted
<1>10. InFront'
  <2>1. Leads(Extend(<<>>, CitedRows), rows')
    BY <1>1, <1>4 DEF Leads
  <2> QED BY <1>2, <2>1 DEF InFront
<1>11. Counted' /\ ExcludedGone' /\ Replaced'
  BY <1>1 DEF Counted, Cut, ExcludedGone, Sorted, Replaced
<1> QED BY <1>5, <1>6, <1>7, <1>8, <1>9, <1>10, <1>11 DEF IInv, Basics

\* A refusal that goes on is a customer's, all of whose records are its own or
\* could not be found, or cites no scoped record.
LEMMA OwnersKeeps ==
    ASSUME IInv, Owners
    PROVE  IInv'
<1>1. PICK id \in Answers, seen \in SUBSET CitedScoped :
          /\ identity' = id
          /\ denied' = \/ IsCustomer(id) /\ \E r \in seen : OwnerOf[r] # id.user
                       \/ IsGuest(id) /\ CitedScoped # {}
          /\ unowned' = IF IsCustomer(id) THEN CitedScoped \ seen ELSE {}
  BY DEF Owners
<1>2. /\ pc = "owners" /\ rows' = rows /\ pc' = IF denied' THEN "normalize" ELSE "identify"
      /\ UNCHANGED <<req, unread, excluded, refs>> /\ denied' \in BOOLEAN
      /\ Shape /\ ~ denied
  BY <1>1 DEF Owners, IInv, Basics, Shape
<1>3. Answers' = Answers /\ CitedRows' = CitedRows
  BY <1>2 DEF Answers, CitedRows
<1>4. CitedScoped' = CitedScoped /\ CitedProducts' = CitedProducts /\ LinkedToCited' = LinkedToCited
  BY <1>3 DEF CitedScoped, CitedProducts, LinkedToCited
<1>5. Shape'
  BY <1>1, <1>2, <1>3 DEF Shape, Stages, CitedScoped
<1>6. ScopedRows' /\ ShortRows' /\ CountRows'
  BY <1>2, <1>4 DEF IInv, Basics, ScopedRows, ShortRows, CountRows
<1>7. Survivors'
  BY <1>2, <1>3 DEF IInv, Basics, Survivors, Lasting
<1>8. Submitted'
  BY <1>2 DEF Submitted
<1>9. RefusalSound'
  <2> SUFFICES ASSUME ~ denied', CustomerFacing(req.who)
               PROVE  \/ CitedScoped = {}
                      \/ /\ IsCustomer(req.who)
                         /\ \A r \in CitedScoped : OwnerOf[r] = req.who.user \/ r \in unowned'
    BY <1>2, <1>4 DEF RefusalSound
  <2>1. CASE IsCustomer(id)
    <3>1. id = req.who
      BY <2>1, KindsApart DEF Answers, Unknown, IsCustomer
    <3> QED BY <1>1, <2>1, <3>1
  <2>2. CASE ~ IsCustomer(id)
    <3>1. IsGuest(id)
      BY <2>2 DEF Answers, Unknown, IsGuest, CustomerFacing
    <3> QED BY <1>1, <3>1
  <2> QED BY <2>1, <2>2
<1>10. InFront'
  BY <1>2, <1>3 DEF IInv, InFront
<1>11. Counted' /\ ExcludedGone' /\ Replaced'
  BY <1>2 DEF Counted, Cut, ExcludedGone, Sorted, Replaced
<1> QED BY <1>5, <1>6, <1>7, <1>8, <1>9, <1>10, <1>11 DEF IInv, Basics

\* The last look at the runtime submits documents and rows, and changes neither.
LEMMA NormalizeKeeps ==
    ASSUME IInv, Normalize
    PROVE  IInv'
<1>1. /\ pc = "normalize" /\ pc' = "done"
      /\ UNCHANGED <<req, identity, denied, rows, unread, unowned, excluded>>
      /\ refs' \subseteq Docs \cup (IF denied THEN {} ELSE Recs(rows))
      /\ Shape
  BY DEF Normalize, IInv, Basics
<1>2. Answers' = Answers /\ CitedRows' = CitedRows
  BY <1>1 DEF Answers, CitedRows
<1>3. CitedScoped' = CitedScoped /\ CitedProducts' = CitedProducts /\ LinkedToCited' = LinkedToCited
  BY <1>2 DEF CitedScoped, CitedProducts, LinkedToCited
<1>4. Recs(rows) \subseteq Records
  BY <1>1, RowRecs DEF Shape
<1>5. Shape'
  BY <1>1, <1>2, <1>4 DEF Shape, Stages
<1>6. ScopedRows' /\ ShortRows' /\ CountRows'
  BY <1>1, <1>3 DEF IInv, Basics, ScopedRows, ShortRows, CountRows
<1>7. Survivors'
  BY <1>1, <1>2 DEF IInv, Basics, Survivors, Lasting
<1>8. RefusalSound'
  BY <1>1, <1>3 DEF IInv, Basics, RefusalSound
<1>9. Submitted' /\ InFront' /\ Replaced'
  BY <1>1 DEF IInv, Submitted, InFront, Replaced
<1>10. Counted'
  <2>1. Counting' = Counting /\ Cut' = Cut
    BY <1>1 DEF Counting, Cut
  <2>2. pc \in Cut
    BY <1>1 DEF Cut
  <2> QED BY <1>1, <1>3, <2>1, <2>2 DEF IInv, Counted, Bounded
<1>11. ExcludedGone'
  BY <1>1 DEF IInv, ExcludedGone, Gone, Sorted
<1> QED BY <1>5, <1>6, <1>7, <1>8, <1>9, <1>10, <1>11 DEF IInv, Basics

-----------------------------------------------------------------------------
(* The steps between keep the invariant.                                     *)

\* Which records may be added and lost.
LEMMA Harmless ==
    ASSUME Basics
    PROVE  /\ Products \subseteq Records /\ Scoped \subseteq Records /\ Stores \subseteq Records
           /\ Payments \cup Employees \subseteq Records
           /\ Products \cap Scoped = {} /\ Stores \cap Scoped = {} /\ Stores \cap Products = {}
           /\ Scoped \cap Products = {} /\ (Payments \cup Employees) \cap Products = {}
           /\ Products \cap Lasting = {} /\ Employees \cap Lasting = {}
           /\ (Products \cup (Baskets \ req.baskets)) \cap Lasting = {}
<1>1. req.baskets \subseteq Baskets
  BY RequestParts DEF Basics, Shape
<1>2. /\ Products \subseteq Records /\ Scoped \subseteq Records /\ Stores \subseteq Records
      /\ Payments \cup Employees \subseteq Records
  BY DEF Records, Scoped
<1>3. Products \cap Lasting = {}
  BY <1>1, KindsApart DEF Lasting, Scoped
<1>4. Employees \cap Lasting = {}
  BY <1>1, KindsApart DEF Lasting, Scoped
<1>5. (Baskets \ req.baskets) \cap Lasting = {}
  BY KindsApart DEF Lasting
<1>6. /\ Products \cap Scoped = {} /\ Stores \cap Scoped = {} /\ Stores \cap Products = {}
      /\ Scoped \cap Products = {} /\ (Payments \cup Employees) \cap Products = {}
  BY KindsApart DEF Scoped
<1> QED BY <1>2, <1>3, <1>4, <1>5, <1>6

\* The products cited stay in front.
LEMMA FrontKept ==
    ASSUME Basics, InFront, NEW new, NEW lost, Revises(new, lost),
           ~ req.crosslist => Leads(rows, rows'),
           pc \in {"identify", "targets", "skus", "uploads"}
    PROVE  InFront'
<1>1. /\ req' = req /\ denied' = denied /\ CitedRows' = CitedRows /\ rows' \in Seq(RowRefs)
  BY DEF Revises, CitedRows
<1> SUFFICES ASSUME req.type = "availability_count", ~ denied, ~ req.crosslist
             PROVE  Leads(Extend(<<>>, CitedRows), rows')
  BY <1>1 DEF InFront
<1>2. Leads(Extend(<<>>, CitedRows), rows) /\ Leads(rows, rows')
  BY DEF InFront
<1>3. Extend(<<>>, CitedRows) \in Seq(RowRefs) /\ rows \in Seq(RowRefs)
  BY FrontRows DEF Basics, Shape
<1> QED BY <1>1, <1>2, <1>3, LeadsOn

\* The steps before the products are cut to the number in the answer.
LEMMA EarlyKeeps ==
    ASSUME IInv, Identify \/ Targets \/ Skus \/ ReadUpload
    PROVE  IInv'
<1>1. Basics /\ InFront /\ Counted /\ ExcludedGone
  BY DEF IInv
<1>2. PICK new \in SUBSET (Products \cup Scoped), lost \in SUBSET Records :
          /\ Revises(new, lost)
          /\ \A r \in new \cap Scoped : MayCite(req.who, OwnerOf[r])
          /\ req.type = "count" => new \cap Products = {}
          /\ ~ req.crosslist => lost = {} /\ Leads(rows, rows')
          /\ pc \in {"identify", "targets", "skus", "uploads"}
          /\ pc' \in {"targets", "skus", "uploads"}
             \/ (pc' = "clarify" /\ req.type # "availability_count")
          /\ req.type # "count" \/ pc # "uploads"
  <2>1. CASE Identify
    <3>1. /\ Revises({}, IF req.crosslist THEN Records ELSE {}) /\ pc' = "targets"
          /\ pc = "identify" /\ (~ req.crosslist => rows' = rows)
      BY <1>1, <2>1, IdentifyRevises
    <3>2. ~ req.crosslist => Leads(rows, rows')
      BY <1>1, <3>1 DEF Leads, Basics, Shape
    <3> QED BY <3>1, <3>2
  <2>2. CASE Targets
    <3>1. PICK new \in SUBSET Scoped :
              /\ Revises(new, {}) /\ pc' = "skus" /\ pc = "targets"
              /\ \A r \in new : MayCite(req.who, OwnerOf[r])
              /\ Leads(rows, rows')
      BY <1>1, <2>2, TargetsRevises
    <3>2. new \cap Products = {}
      BY <1>1, Harmless
    <3> QED BY <3>1, <3>2
  <2>3. CASE Skus
    <3>1. PICK new \in SUBSET Products :
              /\ Revises(new, {}) /\ pc = "skus" /\ Leads(rows, rows')
              /\ \/ pc' = "uploads" /\ req.type # "count"
                 \/ pc' = "clarify" /\ new = {} /\ req.type # "availability_count"
      BY <1>1, <2>3, SkusRevises
    <3>2. new \cap Scoped = {}
      BY <1>1, Harmless
    <3> QED BY <3>1, <3>2
  <2>4. CASE ReadUpload
    <3>1. PICK new \in SUBSET Products :
              /\ Revises(new, {}) /\ pc = "uploads" /\ pc' = "uploads" /\ Leads(rows, rows')
      BY <1>1, <2>4, ReadUploadRevises
    <3>2. new \cap Scoped = {}
      BY <1>1, Harmless
    <3>3. req.type # "count"
      BY <1>1, <3>1 DEF Basics, Shape
    <3> QED BY <3>1, <3>2, <3>3
  <2> QED BY <2>1, <2>2, <2>3, <2>4
<1>3. new \in SUBSET Records
  BY <1>1, Harmless
<1>4. ~ req.crosslist => lost \cap Lasting = {}
  BY <1>2
<1>5. Basics' /\ ~ denied
  BY <1>1, <1>2, <1>3, <1>4, ReviseKeeps
<1>6. InFront'
  BY <1>1, <1>2, FrontKept
<1>7. Counted'
  <2>1. pc \notin Cut
    BY <1>2 DEF Cut
  <2>2. Counting => pc' \notin Cut
    BY <1>2 DEF Cut, Counting
  <2> QED BY <1>1, <1>2, <2>1, <2>2, ReviseKeepsBound
<1>8. ExcludedGone'
  <2>1. pc \notin Sorted /\ pc' \notin Sorted
    BY <1>2 DEF Sorted
  <2> QED BY <1>1, <1>2, <2>1, ReviseKeepsGone
<1>9. Replaced'
  BY <1>2 DEF Replaced
<1> QED BY <1>5, <1>6, <1>7, <1>8, <1>9 DEF IInv

\* An availability count is cut to the number in the answer.
LEMMA AlignKeeps ==
    ASSUME IInv, AlignAvailability
    PROVE  IInv'
<1>1. Basics /\ InFront /\ Counted /\ ExcludedGone
  BY DEF IInv
<1>2. PICK new \in SUBSET Products :
          /\ Revises(new, Products) /\ pc = "uploads" /\ pc' = "clarify"
          /\ \E longer \in Seq(RowRefs) :
                /\ Leads(rows, longer) /\ Recs(rows) \subseteq Recs(longer)
                /\ rows' = IF req.type = "availability_count" /\ req.form = "yes_n"
                           THEN FirstProducts(longer, req.n) ELSE longer
  BY <1>1, AlignRevises
<1>3. req.type # "count" /\ req' = req /\ CitedRows' = CitedRows /\ CitedProducts' = CitedProducts
  BY <1>1, <1>2 DEF Basics, Shape, Revises, CitedRows, CitedProducts
<1>4. Basics' /\ ~ denied
  BY <1>1, <1>2, <1>3, Harmless, ReviseKeeps
<1>5. ASSUME Counting PROVE Bounded'
  <2>1. PICK longer \in Seq(RowRefs) :
            /\ Leads(rows, longer)
            /\ rows' = IF req.type = "availability_count" /\ req.form = "yes_n"
                       THEN FirstProducts(longer, req.n) ELSE longer
    BY <1>2
  <2>2. rows' = FirstProducts(longer, req.n) /\ req.type = "availability_count"
    BY <1>3, <1>5, <2>1 DEF Counting
  <2>3. req.n \in Nat /\ req \in Requests /\ rows \in Seq(RowRefs)
    BY <1>1, RequestParts DEF Basics, Shape
  <2> DEFINE kept == Recs(FirstProducts(longer, req.n)) \cap Products
             front == Extend(<<>>, CitedRows)
  <2>4. IsFiniteSet(kept) /\ Cardinality(kept) <= req.n
    BY <2>3, FirstBounded
  <2>5. ASSUME Cardinality(CitedProducts) >= req.n, ~ req.crosslist
        PROVE  kept \subseteq CitedProducts
    <3>1. Leads(front, rows)
      BY <1>1, <1>2, <1>4, <2>2, <2>5 DEF InFront
    <3>2. front \in Seq(RowRefs) /\ Recs(front) = Recs(CitedRows)
      BY <2>3, FrontRows
    <3> HIDE DEF front
    <3>3. Leads(front, longer)
      BY <2>1, <2>3, <3>1, <3>2, LeadsOn
    <3>4. Cardinality(Recs(front) \cap Products) >= req.n
      BY <2>5, <3>2 DEF CitedProducts
    <3>5. kept \subseteq Recs(front)
      BY <2>3, <3>2, <3>3, <3>4, FirstInFront
    <3> QED BY <3>2, <3>5 DEF CitedProducts
  <2> HIDE DEF kept
  <2>6. (Recs(rows) \cap Products)' = kept
    BY <2>2 DEF kept, Recs
  <2> QED BY <1>3, <2>4, <2>5, <2>6 DEF Bounded
<1>6. Counted'
  <2>1. Counting' = Counting
    BY <1>3 DEF Counting
  <2> QED BY <1>5, <2>1 DEF Counted
<1>7. InFront' /\ Replaced'
  BY <1>2 DEF InFront, Replaced
<1>8. ExcludedGone'
  <2>1. pc \notin Sorted /\ pc' \notin Sorted
    BY <1>2 DEF Sorted
  <2> QED BY <1>1, <1>2, <2>1, ReviseKeepsGone
<1> QED BY <1>4, <1>6, <1>7, <1>8 DEF IInv

\* A count leaves out what is excluded and is cut to its number.
LEMMA CountKeeps ==
    ASSUME IInv, Count
    PROVE  IInv'
<1>1. Basics /\ InFront /\ Counted /\ ExcludedGone
  BY DEF IInv
<1>2. PICK new \in SUBSET Products :
          /\ Revises(new, Products) /\ pc = "count" /\ pc' = "pin"
          /\ req.type # "count" => new = {} /\ excluded' = excluded
          /\ req.type = "count" =>
                /\ ~ req.inventory => new = {}
                /\ \A p \in excluded' : Path(p) \notin ToSet(rows')
                /\ req.form = "integer" /\ ~ req.inventory =>
                      \E kept \in Seq(RowRefs) : rows' = FirstProducts(kept, req.n)
  BY <1>1, CountRevises
<1>3. req' = req /\ CitedRows' = CitedRows /\ CitedProducts' = CitedProducts
  BY <1>2 DEF Revises, CitedRows, CitedProducts
<1>4. Basics' /\ ~ denied
  BY <1>1, <1>2, Harmless, ReviseKeeps
<1>5. Counted'
  <2>1. CASE req.type # "count"
    <3>1. pc \in Cut
      BY <1>2, <2>1 DEF Cut
    <3> QED BY <1>1, <1>2, <2>1, <3>1, ReviseKeepsBound
  <2>2. CASE req.type = "count"
    <3> SUFFICES ASSUME Counting PROVE Bounded'
      BY <1>3 DEF Counted, Counting
    <3>1. req.form = "integer" /\ ~ req.inventory
      BY <2>2 DEF Counting
    <3>2. PICK kept \in Seq(RowRefs) : rows' = FirstProducts(kept, req.n)
      BY <1>2, <2>2, <3>1
    <3>3. req.n \in Nat
      BY <1>1, RequestParts DEF Basics, Shape
    <3>4. /\ IsFiniteSet(Recs(FirstProducts(kept, req.n)) \cap Products)
          /\ Cardinality(Recs(FirstProducts(kept, req.n)) \cap Products) <= req.n
      BY <3>3, FirstBounded
    <3>5. (Recs(rows) \cap Products)' = Recs(FirstProducts(kept, req.n)) \cap Products
      BY <3>2 DEF Recs
    <3>6. Recs(rows)' \cap Products \subseteq CitedProducts
      BY <1>3, <1>4, <2>2, <3>1 DEF Basics, CountRows
    <3> QED BY <1>3, <3>4, <3>5, <3>6 DEF Bounded
  <2> QED BY <2>1, <2>2
<1>6. InFront' /\ Replaced'
  BY <1>2 DEF InFront, Replaced
<1>7. ExcludedGone'
  <2>1. CASE req.type # "count"
    <3>1. pc' \notin Sorted /\ pc \notin Sorted
      BY <1>2, <2>1 DEF Sorted
    <3> QED BY <1>1, <1>2, <3>1, ReviseKeepsGone
  <2>2. CASE req.type = "count"
    BY <1>2, <1>3, <2>2 DEF ExcludedGone, Gone
  <2> QED BY <2>1, <2>2
<1> QED BY <1>4, <1>5, <1>6, <1>7 DEF IInv

\* The steps after that: a question's products, the message's, what is
\* excluded, related records and employees.
LEMMA LateKeeps ==
    ASSUME IInv, Clarify \/ Pin \/ Exclude \/ Relate \/ Replace
    PROVE  IInv'
<1>1. Basics /\ InFront /\ Counted /\ ExcludedGone
  BY DEF IInv
<1>2. PICK new \in SUBSET Records, lost \in SUBSET Records :
          /\ Revises(new, lost) /\ lost \cap Lasting = {}
          /\ \A r \in new \cap Scoped :
                MayCite(req.who, OwnerOf[r]) \/ (req.type = "refund" /\ r \in LinkedToCited)
          /\ req.type = "count" \/ (Counting /\ pc \in Cut) \/ pc \in Sorted => new \cap Products = {}
          /\ pc \in Sorted => excluded' = excluded
          /\ Counting => (pc \in Cut \/ pc' \notin Cut)
          /\ pc \notin Sorted /\ pc' \in Sorted =>
                req.type # "count" /\ (req.type = "availability_count" => Gone')
          /\ pc' \notin {"owners", "identify", "targets", "skus", "uploads"}
          /\ pc' = "normalize" /\ CustomerFacing(identity') => Recs(rows') \cap Employees = {}
          /\ pc' # "done"
  <2>1. CASE Clarify
    <3>1. PICK new \in SUBSET Products :
              /\ Revises(new, Products)
              /\ excluded' = excluded /\ pc = "clarify" /\ pc' = "count"
              /\ (req.outcome # "NONE_CLARIFICATION" \/ req.type = "count") => new = {}
      BY <1>1, <2>1, ClarifyRevises
    <3>2. pc \notin Sorted /\ pc' \notin Sorted
      BY <3>1 DEF Sorted
    <3>3. Counting => req.outcome # "NONE_CLARIFICATION" \/ req.type = "count"
      BY DEF Counting
    <3>4. Counting => pc \in Cut \/ pc' \notin Cut
      BY <3>1 DEF Counting, Cut
    <3> QED BY <1>1, <3>1, <3>2, <3>3, <3>4, Harmless
  <2>2. CASE Pin
    <3>1. PICK new \in SUBSET Products :
              /\ Revises(new, Products \cup (Baskets \ req.baskets))
              /\ excluded' = excluded /\ pc = "pin" /\ pc' = "exclude"
              /\ req.type = "count" \/ req.form # "text" => new = {}
      BY <1>1, <2>2, PinRevises
    <3>2. Counting => req.form # "text" /\ pc \in Cut
      BY <3>1 DEF Counting, Cut
    <3>3. IF req.type = "count" THEN pc \in Sorted /\ pc' \in Sorted
          ELSE pc \notin Sorted /\ pc' \notin Sorted
      BY <3>1 DEF Sorted
    <3>4. Products \cup (Baskets \ req.baskets) \in SUBSET Records
      BY DEF Records, Scoped
    <3>5. /\ new \in SUBSET Records /\ new \cap Scoped = {}
          /\ (Products \cup (Baskets \ req.baskets)) \cap Lasting = {}
      BY <1>1, Harmless
    <3>6. /\ pc' # "normalize" /\ pc' # "done"
          /\ pc' \notin {"owners", "identify", "targets", "skus", "uploads"}
      BY <3>1
    <3>7. req.type = "count" \/ (Counting /\ pc \in Cut) \/ pc \in Sorted => new \cap Products = {}
      BY <3>1, <3>2, <3>3
    <3> DEFINE lost == Products \cup (Baskets \ req.baskets)
    <3>8. Revises(new, lost) /\ lost \in SUBSET Records /\ lost \cap Lasting = {}
      BY <3>1, <3>4, <3>5
    <3> HIDE DEF lost
    <3> QED BY <3>1, <3>2, <3>3, <3>5, <3>6, <3>7, <3>8
  <2>3. CASE Exclude
    <3>1. /\ Revises({}, Products) /\ pc = "exclude" /\ pc' = "relate"
          /\ req.type # "availability_count" => excluded' = excluded
          /\ req.type = "availability_count" => Gone'
      BY <1>1, <2>3, ExcludeRevises
    <3>2. Counting => pc \in Cut
      BY <3>1 DEF Counting, Cut
    <3>3. req.type = "count" => pc \in Sorted
      BY <3>1 DEF Sorted
    <3>4. req.type # "count" => pc \notin Sorted
      BY <3>1 DEF Sorted
    <3> QED BY <1>1, <3>1, <3>2, <3>3, <3>4, Harmless
  <2>4. CASE Relate
    <3>1. PICK new \in SUBSET (Payments \cup Employees) :
              /\ Revises(new, {}) /\ pc = "relate" /\ pc' = "replace"
              /\ excluded' = excluded
              /\ \A r \in new \cap Scoped :
                    MayCite(req.who, OwnerOf[r]) \/ (req.type = "refund" /\ r \in LinkedToCited)
      BY <1>1, <2>4, RelateRevises
    <3>2. pc \in Sorted /\ pc \in Cut
      BY <3>1 DEF Sorted, Cut
    <3>3. new \cap Products = {} /\ new \subseteq Records
      BY <1>1, Harmless
    <3> QED BY <3>1, <3>2, <3>3
  <2>5. CASE Replace
    <3>1. PICK new \in SUBSET Stores :
              /\ Revises(new, Employees) /\ pc = "replace" /\ pc' = "normalize"
              /\ excluded' = excluded /\ identity' = identity
              /\ CustomerFacing(identity) => Recs(rows') \cap Employees = {}
      BY <1>1, <2>5, ReplaceRevises
    <3>2. pc \in Sorted /\ pc \in Cut
      BY <3>1 DEF Sorted, Cut
    <3>3. /\ new \cap Products = {} /\ new \cap Scoped = {} /\ new \subseteq Records
          /\ Employees \cap Lasting = {} /\ Employees \in SUBSET Records
      BY <1>1, Harmless
    <3> QED BY <3>1, <3>2, <3>3
  <2> QED BY <2>1, <2>2, <2>3, <2>4, <2>5
<1>3. Basics' /\ ~ denied
  BY <1>1, <1>2, ReviseKeeps
<1>4. InFront'
  BY <1>2 DEF InFront
<1>5. Counted'
  BY <1>1, <1>2, ReviseKeepsBound
<1>6. ExcludedGone'
  <2>1. CASE pc \in Sorted \/ pc' \notin Sorted
    BY <1>1, <1>2, <2>1, ReviseKeepsGone
  <2>2. CASE pc \notin Sorted /\ pc' \in Sorted
    <3>1. req' = req
      BY <1>2 DEF Revises
    <3> QED BY <1>2, <2>2, <3>1 DEF ExcludedGone
  <2> QED BY <2>1, <2>2
<1>7. Replaced'
  BY <1>2 DEF Replaced
<1> QED BY <1>3, <1>4, <1>5, <1>6, <1>7 DEF IInv

-----------------------------------------------------------------------------
(* The theorems.                                                             *)

\* The invariant is inductive.
LEMMA Initially == Init => IInv
<1> SUFFICES ASSUME Init PROVE IInv
  OBVIOUS
<1>1. /\ req \in Requests /\ pc = "start" /\ identity = Unknown /\ denied = FALSE
      /\ rows = <<>> /\ unread = <<>> /\ unowned = {} /\ excluded = {} /\ refs = {}
  BY DEF Init
<1>2. rows \in Seq(RowRefs) /\ unread \in Seq(Uploads) /\ Distinct(rows)
  BY <1>1 DEF Distinct
<1>3. ToSet(rows) = {} /\ Recs(rows) = {}
  BY <1>1 DEF ToSet, Recs
<1>4. Shape
  BY <1>1, <1>2 DEF Shape, Stages, Answers
<1>5. ScopedRows /\ ShortRows /\ CountRows
  BY <1>3 DEF ScopedRows, ShortRows, CountRows
<1>6. Survivors /\ RefusalSound /\ Submitted /\ InFront /\ Replaced
  BY <1>1 DEF Survivors, RefusalSound, Submitted, InFront, Replaced
<1>7. Counted /\ ExcludedGone
  BY <1>1 DEF Counted, Cut, ExcludedGone, Sorted
<1> QED BY <1>4, <1>5, <1>6, <1>7 DEF IInv, Basics

\* One case for each step.
LEMMA Preserved == IInv /\ [Next]_vars => IInv'
<1> SUFFICES ASSUME IInv, [Next]_vars PROVE IInv'
  OBVIOUS
<1>1. CASE Start
  BY <1>1, StartKeeps
<1>2. CASE Owners
  BY <1>2, OwnersKeeps
<1>3. CASE Identify \/ Targets \/ Skus \/ ReadUpload
  BY <1>3, EarlyKeeps
<1>4. CASE AlignAvailability
  BY <1>4, AlignKeeps
<1>5. CASE Count
  BY <1>5, CountKeeps
<1>6. CASE Clarify \/ Pin \/ Exclude \/ Relate \/ Replace
  BY <1>6, LateKeeps
<1>7. CASE Normalize
  BY <1>7, NormalizeKeeps
<1>8. CASE UNCHANGED vars
  <2>1. UNCHANGED <<req, pc, identity, denied, rows, unread, unowned, excluded, refs>>
    BY <1>8 DEF vars
  <2>2. Answers' = Answers /\ CitedRows' = CitedRows /\ Counting' = Counting
    BY <2>1 DEF Answers, CitedRows, Counting
  <2>3. CitedScoped' = CitedScoped /\ CitedProducts' = CitedProducts
    BY <2>2 DEF CitedScoped, CitedProducts
  <2>4. /\ Shape' /\ Submitted' /\ Replaced'
    BY <2>1, <2>2 DEF IInv, Basics, Shape, Submitted, Replaced
  <2>5. ScopedRows' /\ ShortRows' /\ RefusalSound' /\ CountRows'
    BY <2>1, <2>3 DEF IInv, Basics, ScopedRows, ShortRows, RefusalSound, CountRows, LinkedToCited
  <2>6. Survivors' /\ InFront' /\ Counted' /\ ExcludedGone'
    BY <2>1, <2>2, <2>3 DEF IInv, Basics, Survivors, Lasting, InFront, Counted, Cut, Bounded,
                            ExcludedGone, Sorted, Gone
  <2> QED BY <2>4, <2>5, <2>6 DEF IInv, Basics
<1> QED BY <1>1, <1>2, <1>3, <1>4, <1>5, <1>6, <1>7, <1>8 DEF Next

\* The invariant, for any records, owners and requests.
THEOREM Invariant == Spec => []IInv
<1> QED BY Initially, Preserved, PTL DEF Spec

\* What is kept are references of the kinds there are, in a list without
\* duplicates after every step (submission_refs.py:159-168).
THEOREM TypeCorrect == Spec => []TypeOK
<1>1. IInv => TypeOK
  <2> SUFFICES ASSUME Shape PROVE TypeOK
    BY DEF IInv, Basics
  <2>1. \A r \in ToSet(rows) : r \in Refs /\ IsRow(r)
    BY RowRecs DEF Shape, RowRefs
  <2>2. ToSet(unread) \subseteq Uploads
    BY Members DEF Shape
  <2> QED BY <2>1, <2>2 DEF Shape, Stages, TypeOK, Distinct
<1> QED BY <1>1, Invariant, PTL

\* Who may cite, for one who faces the public: the customer its own.
LEMMA PublicCites ==
    ASSUME req \in Requests, CustomerFacing(req.who), NEW owner, MayCite(req.who, owner)
    PROVE  IsCustomer(req.who) /\ owner = req.who.user
<1>1. req.who.user = "guest" => req.who.roles \subseteq {"guest"}
  BY RequestParts
<1> QED BY <1>1, KindsApart DEF CustomerFacing, MayCite, IsCustomer

\* A security refusal to a customer or guest submits no foreign record, whichever
\* look-ups of identity and owner fail, except one whose owner could not be found
\* and in a refund its payment (submission_refs.py:650-722, 1252-1275).
THEOREM RefusalsCiteNoForeign == Spec => []RefusalCitesNoForeign
<1>1. IInv => RefusalCitesNoForeign
  <2> SUFFICES ASSUME Basics, Done, req.outcome = "DENIED_SECURITY", CustomerFacing(req.who),
                      NEW r \in refs \cap Scoped
               PROVE  /\ IsCustomer(req.who)
                      /\ \/ OwnerOf[r] = req.who.user \/ r \in unowned
                         \/ r \in {PaymentOf[x] : x \in unowned \cap Returns}
    BY DEF IInv, RefusalCitesNoForeign
  <2>1. req \in Requests /\ pc = "done"
    BY DEF Basics, Shape, Done
  <2>2. ~ denied /\ r \in Recs(rows) \cap Scoped
    BY <2>1, KindsApart DEF Basics, Submitted
  <2>3. \/ CitedScoped = {}
        \/ /\ IsCustomer(req.who)
           /\ \A x \in CitedScoped : OwnerOf[x] = req.who.user \/ x \in unowned
    BY <2>1, <2>2 DEF Basics, RefusalSound
  <2>4. CASE r \in CitedScoped
    BY <2>3, <2>4
  <2>5. CASE MayCite(req.who, OwnerOf[r])
    BY <2>1, <2>5, PublicCites
  <2>6. CASE r \in LinkedToCited
    <3>1. PICK x \in CitedScoped \cap Returns : r = PaymentOf[x]
      BY <2>6 DEF LinkedToCited
    <3>2. OwnerOf[r] = OwnerOf[x]
      BY <3>1, RefsAssumption
    <3> QED BY <2>3, <3>1, <3>2
  <2> QED BY <2>2, <2>4, <2>5, <2>6 DEF Basics, ScopedRows
<1> QED BY <1>1, Invariant, PTL

\* A scoped record the model did not cite is added only if the one who asks may
\* cite it or as the payment of a cited return, and no employee is shown to a
\* customer or guest whose identity is known (submission_refs.py:635-647, 967-990).
THEOREM OnlyCitableSubmitted == Spec => []OnlyCitable
<1>1. IInv => OnlyCitable
  <2> SUFFICES ASSUME IInv, Done PROVE OnlyCitable
    BY DEF OnlyCitable
  <2>1. Basics /\ req \in Requests /\ pc = "done" /\ identity \in Answers
    BY DEF IInv, Basics, Shape, Done
  <2>2. refs \subseteq Docs \cup (IF denied THEN {} ELSE Recs(rows))
    BY <2>1 DEF Basics, Submitted
  <2>3. ASSUME NEW r \in (refs \cap Scoped) \ CitedScoped
        PROVE  \/ ~ CustomerFacing(req.who) \/ OwnerOf[r] = req.who.user
               \/ req.type = "refund" /\ r \in {PaymentOf[x] : x \in CitedScoped \cap Returns}
    <3>1. r \in Recs(rows) \cap Scoped
      BY <2>2, KindsApart
    <3>2. MayCite(req.who, OwnerOf[r]) \/ (req.type = "refund" /\ r \in LinkedToCited)
      BY <2>1, <2>3, <3>1 DEF Basics, ScopedRows
    <3> QED BY <2>1, <3>2, PublicCites DEF LinkedToCited
  <2>4. ASSUME CustomerFacing(req.who), identity # Unknown PROVE refs \cap Employees = {}
    <3>1. identity = req.who
      BY <2>1, <2>4 DEF Answers
    <3>2. denied \/ Recs(rows) \cap Employees = {}
      BY <2>1, <2>4, <3>1 DEF IInv, Replaced
    <3> QED BY <2>2, <3>2, KindsApart
  <2> QED BY <2>3, <2>4 DEF OnlyCitable
<1> QED BY <1>1, Invariant, PTL

\* An answer that counts products cites at most as many as it says, and only
\* products that were cited if there are enough of those
\* (submission_refs.py:1118-1175).
THEOREM CountsGrounded == Spec => []CountIsGrounded
<1>1. IInv => CountIsGrounded
  <2> SUFFICES ASSUME IInv, Done, Counting PROVE CountIsGrounded
    BY DEF CountIsGrounded
  <2>1. Basics /\ pc = "done" /\ pc \in Cut
    BY DEF IInv, Done, Cut
  <2>2. req.n \in Nat
    BY <2>1, RequestParts DEF Basics, Shape
  <2>3. refs \subseteq Docs \cup (IF denied THEN {} ELSE Recs(rows))
    BY <2>1 DEF Basics, Submitted
  <2> DEFINE kept == refs \cap Products
             all == Recs(rows) \cap Products
  <2>4. CASE denied
    <3>1. kept = {}
      BY <2>3, <2>4, KindsApart
    <3>2. Cardinality(kept) = 0
      BY <3>1, FS_EmptySet
    <3> QED BY <2>2, <3>1, <3>2 DEF CountIsGrounded
  <2>5. CASE ~ denied
    <3>1. kept \subseteq all
      BY <2>3, <2>5, KindsApart
    <3>2. /\ IsFiniteSet(all) /\ Cardinality(all) <= req.n
          /\ Cardinality(CitedProducts) >= req.n /\ ~ req.crosslist => all \subseteq CitedProducts
      BY <2>1, <2>5 DEF IInv, Counted, Bounded
    <3> HIDE DEF all, kept
    <3>3. IsFiniteSet(kept) /\ Cardinality(kept) <= Cardinality(all)
      BY <3>1, <3>2, FS_Subset
    <3>4. Cardinality(kept) \in Nat /\ Cardinality(all) \in Nat
      BY <3>2, <3>3, FS_CardinalityType
    <3>5. Cardinality(kept) <= req.n
      BY <2>2, <3>2, <3>3, <3>4
    <3> QED BY <3>1, <3>2, <3>5 DEF CountIsGrounded, kept
  <2> QED BY <2>4, <2>5
<1> QED BY <1>1, Invariant, PTL

\* A product the task excludes is not submitted with a count, and with an
\* availability count only if nothing else is, unless the model cited it by the
\* short path of its SKU (submission_refs.py:1199-1224, 1360-1368).
THEOREM ExcludedStayAway == Spec => []ExcludedStayOut
<1>1. IInv => ExcludedStayOut
  <2> SUFFICES ASSUME IInv, Excludes, NEW p \in (refs \cap Products) \cap excluded
               PROVE  \/ [rec |-> p, form |-> "short"] \in ToSet(req.cited)
                      \/ req.type = "availability_count" /\ refs \cap Products \subseteq excluded
    BY DEF ExcludedStayOut
  <2>1. /\ Basics /\ pc = "done" /\ pc \in Sorted /\ ~ denied /\ rows \in Seq(RowRefs)
        /\ req.type \in {"count", "availability_count"}
    BY DEF IInv, Basics, Shape, Excludes, Done, Sorted
  <2>2. refs \cap Products \subseteq Recs(rows)
    BY <2>1, KindsApart DEF Basics, Submitted
  <2>3. CASE req.type = "availability_count" /\ Recs(rows) \cap Products \subseteq excluded
    BY <2>2, <2>3
  <2>4. CASE \A q \in excluded : Path(q) \notin ToSet(rows)
    <3>1. PICK r \in ToSet(rows) : r.rec = p
      BY <2>2 DEF Recs
    <3>2. r \in Refs
      BY <2>1, RowRecs DEF RowRefs
    <3>3. r.form = "short" /\ r = [rec |-> p, form |-> "short"]
      BY <2>4, <3>1, <3>2 DEF Path, Refs
    <3> QED BY <2>1, <3>3 DEF Basics, ShortRows
  <2> QED BY <2>1, <2>3, <2>4 DEF IInv, ExcludedGone, Gone
<1> QED BY <1>1, Invariant, PTL

\* No step before the last look at the runtime loses a cited store, upload,
\* payment or return, nor a basket the message names, unless the answer is a
\* refusal or a crosslist report (submission_refs.py:1066-1100, 1275-1414).
THEOREM CitedRowsKept == Spec => []CitedRowsSurvive
<1>1. IInv => CitedRowsSurvive
  BY DEF IInv, Basics, Survivors, Lasting, CitedRowsSurvive
<1> QED BY <1>1, Invariant, PTL
=============================================================================
