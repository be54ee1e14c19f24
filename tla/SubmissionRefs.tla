---------------------------- MODULE SubmissionRefs ----------------------------
(***************************************************************************)
(* submission_refs.py: from the references a completion cites to those     *)
(* that are submitted with it.  submission_refs adds and removes rows in a *)
(* fixed order; between the pure steps it asks the runtime for the         *)
(* identity, for owners, for products and for linked records, and any of   *)
(* these calls may fail.  A lookup that fails looks like a record that     *)
(* does not exist, so a lookup of a set of records yields any subset.      *)
(*                                                                         *)
(* A reference is a record with the form in which it is written: products  *)
(* may be cited by the short path of their SKU, everything the code adds   *)
(* has the canonical path.  What a text says is a field of the request.    *)
(***************************************************************************)
EXTENDS Lists, FiniteSets, SequencesExt

CONSTANTS Products, Uploads, Baskets, Payments, Returns, Accounts,
          Employees, Stores, Archive,  \* records, by kind
          Docs,        \* documents, below /proc and /run excepted
          Readmes,     \* README.md files below /proc and /run
          Customers,
          OwnerOf,     \* the customer of each basket, payment, return and account
          PaymentOf,   \* the payment of each return
          StoreOf,     \* the store of each employee
          ItemsOn,     \* the products on each uploaded receipt, in order
          Requests     \* completions, with what is asked and who asks

Scoped == Baskets \cup Payments \cup Returns \cup Accounts
Records == Products \cup Uploads \cup Scoped \cup Employees \cup Stores \cup Archive
Refs == [rec : Records \cup Docs \cup Readmes, form : {"path", "short"}]

Types == {"count", "availability_count", "availability_lookup", "catalog_lookup",
          "receipt_price_check", "checkout", "refund", "discount", "other"}
Outcomes == {"OK", "DENIED_SECURITY", "NONE_CLARIFICATION", "NONE_UNSUPPORTED"}
Identities == [user : Customers \cup Employees \cup {"none", "guest"},
               roles : SUBSET {"guest", "customer", "staff"}]

Completions ==
    [type : Types, outcome : Outcomes,
     protected : BOOLEAN,     \* protected_record_denial
     cited : Seq(Refs),       \* grounding_doc_refs, grounding_row_refs
     form : {"text", "integer", "yes", "yes_n", "no"},  \* of the message
     n : Nat,                 \* the number in it
     named : Seq(Products),   \* SKUs in it
     baskets : SUBSET Baskets, \* baskets in it
     foreign : BOOLEAN,       \* it speaks of another customer's record
     steps : Seq(Products),   \* SKUs in the completed steps
     asked : Seq(Products),   \* SKUs in the task text
     negated : SUBSET Products, \* those among them after "but not", "except"
     targets : Seq(Scoped),   \* records the task text names by id
     crosslist : BOOLEAN, primary : BOOLEAN, inventory : BOOLEAN,
     who : Identities]        \* what /bin/id says when it answers

\* Records of different kinds, documents and README.md files lie at different paths.
Kinds == <<Products, Uploads, Baskets, Payments, Returns, Accounts, Employees, Stores,
           Archive, Docs, Readmes>>

ASSUME RefsAssumption ==
    /\ \A i, j \in DOMAIN Kinds : i # j => Kinds[i] \cap Kinds[j] = {}
    /\ Customers \cap {"none", "guest"} = {}
    /\ OwnerOf \in [Scoped -> Customers]
    /\ PaymentOf \in [Returns -> Payments]
    /\ \A r \in Returns : OwnerOf[PaymentOf[r]] = OwnerOf[r]
    /\ StoreOf \in [Employees -> Stores]
    /\ ItemsOn \in [Uploads -> Seq(Products)]
    /\ Requests \subseteq Completions
    /\ \A c \in Requests : /\ c.form # "text" => c.named = <<>> /\ c.baskets = {}
                           /\ c.negated \subseteq ToSet(c.asked)
                           \* A guest has no role but that of a guest.
                           /\ c.who.user = "guest" => c.who.roles \subseteq {"guest"}

VARIABLES
    req,       \* the completion and its task, fixed
    pc,        \* where submission_refs is
    identity,  \* user_id and roles
    denied,    \* protected_record_denial
    rows,      \* row_refs
    unread,    \* uploads still to be read for their products
    unowned,   \* history: cited records whose owner could not be found
    excluded,  \* history: what the last look-up of negated products found
    refs       \* the records and documents submitted

vars == <<req, pc, identity, denied, rows, unread, unowned, excluded, refs>>

-----------------------------------------------------------------------------
Unknown == [user |-> "none", roles |-> {}]

IsCustomer(id) == id.user \in Customers
IsGuest(id) == id.user = "guest" \/ id.roles \subseteq {"guest"}
CustomerFacing(id) == \/ IsCustomer(id) \/ id.user = "guest"
                      \/ id.roles = {"guest"}

\* What a call of /bin/id may give: the identity, or nothing when it fails.
Answers == {req.who, Unknown}

\* Faulty variant: whoever is known may cite every record.
MayCiteAny(id, owner) == id.user # "none"

\* can_auto_cite_customer_scoped_record
MayCite(id, owner) == /\ id.user # "none"
                      /\ IF IsCustomer(id) THEN owner = id.user
                                           ELSE ~(id.roles \subseteq {"guest"})

Path(r) == [rec |-> r, form |-> "path"]
IsRow(r) == r.rec \in Records
IsProduct(r) == r.rec \in Products
Recs(s) == {r.rec : r \in ToSet(s)}

\* The canonical references of those members of s that were found.
Found(s, found) == LET kept == Kept(s, {i \in DOMAIN s : s[i] \in found})
                   IN  [i \in DOMAIN kept |-> Path(kept[i])]

OfKind(s, records) == Kept(s, {i \in DOMAIN s : s[i].rec \in records})

\* Faulty variant: duplicates stay.
ExtendPlain(s, t) == s \o t

\* dedupe_refs([*s, *t])
Extend(s, t) ==
    LET both == s \o t
    IN  Kept(both, {i \in DOMAIN both : \A j \in 1 .. i - 1 : both[j] # both[i]})

Without(s, records) == Kept(s, {i \in DOMAIN s : s[i] \notin {Path(x) : x \in records}})

\* The products among the first i rows.
ProductsUpTo(s, i) == {j \in 1 .. i : IsProduct(s[j])}

\* Faulty variant: one product too many is kept.
FirstProductsOff(s, n) ==
    Kept(s, {i \in DOMAIN s : IsProduct(s[i]) => Cardinality(ProductsUpTo(s, i)) <= n + 1})

\* The first n products and all other rows.
FirstProducts(s, n) ==
    Kept(s, {i \in DOMAIN s : IsProduct(s[i]) => Cardinality(ProductsUpTo(s, i)) <= n})

Positive == req.form \in {"yes", "yes_n"}

\* should_preserve_negated_availability_refs
PreservesNegated == /\ req.type = "availability_count"
                    /\ ~req.primary
                    /\ req.outcome = "NONE_CLARIFICATION" \/ ~Positive

TypeOK ==
    /\ req \in Requests
    /\ pc \in {"start", "owners", "identify", "targets", "skus", "uploads", "clarify",
               "count", "pin", "exclude", "relate", "replace", "normalize", "done"}
    /\ identity \in Answers
    /\ denied \in BOOLEAN
    /\ \A r \in ToSet(rows) : r \in Refs /\ IsRow(r)
    /\ \A i, j \in DOMAIN rows : rows[i] = rows[j] => i = j
    /\ ToSet(unread) \subseteq Uploads
    /\ unowned \subseteq Scoped /\ excluded \subseteq Products
    /\ refs \subseteq Records \cup Docs

Init == /\ req \in Requests
        /\ pc = "start"
        /\ identity = Unknown /\ denied = FALSE
        /\ rows = <<>> /\ unread = <<>>
        /\ unowned = {} /\ excluded = {} /\ refs = {}

-----------------------------------------------------------------------------
(* Refusals and the identity.                                              *)

CitedRows == Kept(req.cited, {i \in DOMAIN req.cited : IsRow(req.cited[i])})
CitedScoped == Recs(CitedRows) \cap Scoped

Start ==
    /\ pc = "start"
    /\ rows' = Extend(<<>>, CitedRows)
    /\ denied' = \/ req.protected
                 \/ req.outcome = "DENIED_SECURITY" /\ req.foreign /\ CitedScoped # {}
    /\ pc' = IF denied' THEN "normalize"
             ELSE IF req.outcome = "DENIED_SECURITY" THEN "owners" ELSE "identify"
    /\ UNCHANGED <<req, identity, unread, unowned, excluded, refs>>

\* Faulty variant: only a customer's refusal is checked.
OwnersOfCustomers ==
    /\ pc = "owners"
    /\ \E id \in Answers, seen \in SUBSET CitedScoped :
          /\ identity' = id
          /\ denied' = (IsCustomer(id) /\ \E r \in seen : OwnerOf[r] # id.user)
          /\ unowned' = IF IsCustomer(id) THEN CitedScoped \ seen ELSE {}
    /\ pc' = IF denied' THEN "normalize" ELSE "identify"
    /\ UNCHANGED <<req, rows, unread, excluded, refs>>

\* A security refusal: a customer's is compared with the owners that can be
\* found, a guest's (which is what a failed identity looks like) cites nothing.
Owners ==
    /\ pc = "owners"
    /\ \E id \in Answers, seen \in SUBSET CitedScoped :
          /\ identity' = id
          /\ denied' = \/ IsCustomer(id) /\ \E r \in seen : OwnerOf[r] # id.user
                       \/ IsGuest(id) /\ CitedScoped # {}
          /\ unowned' = IF IsCustomer(id) THEN CitedScoped \ seen ELSE {}
    /\ pc' = IF denied' THEN "normalize" ELSE "identify"
    /\ UNCHANGED <<req, rows, unread, excluded, refs>>

\* The identity, unless a refusal has found it already; a crosslist report
\* keeps its uploads only.
Identify ==
    /\ pc = "identify"
    /\ identity' \in (IF identity = Unknown THEN Answers ELSE {identity})
    /\ rows' = IF req.crosslist THEN OfKind(rows, Uploads) ELSE rows
    /\ pc' = "targets"
    /\ UNCHANGED <<req, denied, unread, unowned, excluded, refs>>

\* explicit_target_refs_from_task asks for an unknown identity once more, and
\* keeps the answer to itself.
Targets ==
    /\ pc = "targets"
    /\ IF req.type = "count" \/ req.targets = <<>> THEN UNCHANGED rows
       ELSE \E id \in (IF identity = Unknown THEN Answers ELSE {identity}),
               found \in SUBSET ToSet(req.targets) :
                 rows' = Extend(rows, Found(req.targets,
                                  {r \in found : MayCite(id, OwnerOf[r])}))
    /\ pc' = "skus"
    /\ UNCHANGED <<req, identity, denied, unread, unowned, excluded, refs>>

-----------------------------------------------------------------------------
(* Products.                                                               *)

\* Products named in the task and in the steps.
Skus ==
    /\ pc = "skus"
    /\ IF req.type \notin {"availability_count", "availability_lookup",
                           "receipt_price_check", "checkout"}
       THEN /\ pc' = "clarify"
            /\ UNCHANGED <<rows, unread>>
       ELSE /\ \E found \in SUBSET ToSet(req.asked), negated \in SUBSET req.negated,
                  done \in SUBSET ToSet(req.steps) :
                  LET narrowed == /\ req.type = "availability_count"
                                  /\ Recs(rows) \cap Products # {}
                                  /\ ~Positive \/ req.primary
                  IN  rows' = Extend(rows,
                                Found(req.asked, IF narrowed THEN found \ negated ELSE found)
                                  \o Found(req.steps, done))
            /\ unread' = [i \in DOMAIN OfKind(rows, Uploads) |-> OfKind(rows, Uploads)[i].rec]
            /\ pc' = "uploads"
    /\ UNCHANGED <<req, identity, denied, unowned, excluded, refs>>

\* upload_receipt_sku_refs reads an upload by vm.read, not by runtime_call:
\* this call has no deadline.
ReadUpload ==
    /\ pc = "uploads" /\ unread # <<>>
    /\ unread' = Tail(unread)
    /\ \E found \in SUBSET ToSet(ItemsOn[Head(unread)]) :
          rows' = Extend(rows, Found(ItemsOn[Head(unread)], found))
    /\ UNCHANGED <<req, pc, identity, denied, unowned, excluded, refs>>

AlignAvailability ==
    /\ pc = "uploads" /\ unread = <<>>
    /\ \E negated \in SUBSET req.negated :
          LET extended == IF PreservesNegated THEN Extend(rows, Found(req.asked, negated))
                          ELSE rows
          IN  rows' = IF req.type = "availability_count" /\ req.form = "yes_n"
                      THEN FirstProducts(extended, req.n) ELSE extended
    /\ pc' = "clarify"
    /\ UNCHANGED <<req, identity, denied, unread, unowned, excluded, refs>>

\* A question about products cites those it names.
Clarify ==
    /\ pc = "clarify"
    /\ IF \/ req.outcome # "NONE_CLARIFICATION"
          \/ req.type \notin {"availability_count", "availability_lookup", "catalog_lookup"}
       THEN UNCHANGED rows
       ELSE \E found \in SUBSET ToSet(req.named), negated \in SUBSET req.negated :
              LET options == {Path(p) : p \in found}
                  aligned == IF found = {} THEN rows
                             ELSE Kept(rows, {i \in DOMAIN rows :
                                               IsProduct(rows[i]) => rows[i] \in options})
              IN  rows' = IF PreservesNegated THEN Extend(aligned, Found(req.asked, negated))
                          ELSE aligned
    /\ pc' = "count"
    /\ UNCHANGED <<req, identity, denied, unread, unowned, excluded, refs>>

Count ==
    /\ pc = "count"
    /\ IF req.type # "count" THEN UNCHANGED <<rows, excluded>>
       ELSE \E found \in SUBSET ToSet(req.asked), negated \in SUBSET req.negated :
              LET extended == IF req.inventory THEN Extend(rows, Found(req.asked, found))
                              ELSE rows
                  kept == Without(extended, negated)
              IN  /\ rows' = IF req.form # "integer" \/ req.inventory THEN kept
                             ELSE FirstProducts(kept, req.n)
                  /\ excluded' = negated
    /\ pc' = "pin"
    /\ UNCHANGED <<req, identity, denied, unread, unowned, refs>>

\* Faulty variant: a message that names baskets keeps no other record.
KeepNamedOnly(s) ==
    IF Cardinality(Recs(s) \cap Baskets \cap req.baskets) # 1 THEN s
    ELSE Kept(s, {i \in DOMAIN s : s[i].rec \in Scoped => s[i].rec \in req.baskets})

\* filter_extra_basket_refs_named_in_message
KeepNamedBasket(s) ==
    LET baskets == Recs(s) \cap Baskets IN
    IF Cardinality(baskets) <= 1 \/ Cardinality(baskets \cap req.baskets) # 1 THEN s
    ELSE Kept(s, {i \in DOMAIN s : s[i].rec \in Baskets => s[i].rec \in req.baskets})

\* "No" cites no product; every product the message names is cited, as far
\* as one query for all of them is answered.
Pin ==
    /\ pc = "pin"
    /\ \E answered \in BOOLEAN :
          LET denying == req.type = "catalog_lookup" /\ req.form = "no"
              kept == KeepNamedBasket(IF denying THEN OfKind(rows, Records \ Products) ELSE rows)
          IN  rows' = IF req.type # "count" /\ answered
                      THEN Extend(kept, Found(req.named, ToSet(req.named))) ELSE kept
    /\ pc' = "exclude"
    /\ UNCHANGED <<req, identity, denied, unread, unowned, excluded, refs>>

\* Faulty variant: the filter fires only when the answer is not positive.
ExcludeUnlessPositive ==
    /\ pc = "exclude"
    /\ IF req.type # "availability_count" THEN UNCHANGED <<rows, excluded>>
       ELSE \E negated \in SUBSET req.negated :
              /\ excluded' = negated
              /\ rows' = IF Positive \/ \A r \in ToSet(rows) :
                               IsProduct(r) => r \in {Path(p) : p \in negated}
                         THEN rows ELSE Without(rows, negated)
    /\ pc' = "relate"
    /\ UNCHANGED <<req, identity, denied, unread, unowned, refs>>

\* filter_negated_availability_refs: unless nothing else is cited.
Exclude ==
    /\ pc = "exclude"
    /\ IF req.type # "availability_count" THEN UNCHANGED <<rows, excluded>>
       ELSE \E negated \in SUBSET req.negated :
              /\ excluded' = negated
              /\ rows' = IF \A r \in ToSet(rows) :
                               IsProduct(r) => r \in {Path(p) : p \in negated}
                         THEN rows ELSE Without(rows, negated)
    /\ pc' = "relate"
    /\ UNCHANGED <<req, identity, denied, unread, unowned, refs>>

-----------------------------------------------------------------------------
(* Related records, employees and the final look at the runtime.           *)

\* linked_payment_refs_for_returns: the returns that cannot be read are asked
\* for by SQL only when no payment was found for the others.
LinkedPayments(returns, readable, resolved, answered) ==
    IF resolved # {} THEN {PaymentOf[r] : r \in resolved}
    ELSE IF answered THEN {PaymentOf[r] : r \in returns \ readable} ELSE {}

\* A refund cites the payments of its returns, a discount decision the
\* employee who makes it.
Relate ==
    /\ pc = "relate"
    /\ LET returns == OfKind(rows, Returns) IN
       \/ /\ req.type = "refund"
          /\ \E readable \in SUBSET Recs(returns) :
             \E resolved \in SUBSET readable, answered \in BOOLEAN :
                rows' = Extend(rows, Found([i \in DOMAIN returns |-> PaymentOf[returns[i].rec]],
                                 LinkedPayments(Recs(returns), readable, resolved, answered)))
       \/ /\ req.type = "discount" /\ identity.user \in Employees
          /\ \/ rows' = Extend(rows, <<Path(identity.user)>>)
             \/ UNCHANGED rows
       \/ /\ req.type # "refund"
          /\ req.type = "discount" => identity.user \notin Employees
          /\ UNCHANGED rows
    /\ pc' = "replace"
    /\ UNCHANGED <<req, identity, denied, unread, unowned, excluded, refs>>

\* replace_customer_facing_employee_refs: by their stores, or by nothing
\* when the store is not found.
Replace ==
    /\ pc = "replace"
    /\ \E found \in SUBSET (Recs(rows) \cap Employees) :
          rows' = IF ~CustomerFacing(identity) THEN rows
                  ELSE Extend(<<>>, OfKind([i \in DOMAIN rows |->
                                              IF rows[i].rec \in found
                                              THEN Path(StoreOf[rows[i].rec]) ELSE rows[i]],
                                            Records \ Employees))
    /\ pc' = "normalize"
    /\ UNCHANGED <<req, identity, denied, unread, unowned, excluded, refs>>

\* normalize_submission_refs: documents and archive rows are taken as they
\* are; every other row is brought to its canonical path, which a stat has
\* to confirm.
Normalize ==
    /\ pc = "normalize"
    /\ \E confirmed \in SUBSET (Recs(rows) \ Archive) :
          LET kept == confirmed \cup (Recs(rows) \cap Archive)
          IN  refs' = (Recs(req.cited) \cap Docs) \cup (IF denied THEN {} ELSE kept)
    /\ pc' = "done"
    /\ UNCHANGED <<req, identity, denied, rows, unread, unowned, excluded>>

-----------------------------------------------------------------------------
Next == \/ Start \/ Owners \/ Identify \/ Targets \/ Skus \/ ReadUpload
        \/ AlignAvailability \/ Clarify \/ Count \/ Pin \/ Exclude
        \/ Relate \/ Replace \/ Normalize

Spec == Init /\ [][Next]_vars

-----------------------------------------------------------------------------
(* Properties.                                                             *)

Done == pc = "done"
CitedProducts == Recs(CitedRows) \cap Products

\* A security refusal to a customer cites no other customer's record, and
\* one to a guest cites no customer's record at all, whichever of the
\* identity and owner lookups fail: only a record whose owner could not be
\* found stays (submission_refs.py:718), and in a refund its payment.  This is
\* what holds of RefusalCitesOnlyDocs, below.
RefusalCitesNoForeign ==
    (Done /\ req.outcome = "DENIED_SECURITY" /\ CustomerFacing(req.who)) =>
      LET doubtful == unowned \cup {PaymentOf[r] : r \in unowned \cap Returns}
      IN  \A r \in refs \cap Scoped :
             IsCustomer(req.who) /\ (OwnerOf[r] = req.who.user \/ r \in doubtful)

\* A basket, payment, return or account that the model did not cite is added only if
\* the one who asks may cite it, or it is the payment of a cited return; and
\* an answer to a customer or guest shows an employee record only if /bin/id
\* failed (ARCHITECTURE.md:267, submission_refs.py:982-985).
OnlyCitable ==
    Done =>
      /\ \A r \in (refs \cap Scoped) \ CitedScoped :
            \/ ~CustomerFacing(req.who) \/ OwnerOf[r] = req.who.user
            \/ req.type = "refund" /\ r \in {PaymentOf[x] : x \in CitedScoped \cap Returns}
      /\ CustomerFacing(req.who) /\ identity # Unknown => refs \cap Employees = {}

Counting ==
    \/ req.type = "count" /\ req.form = "integer" /\ ~req.inventory
    \/ /\ req.type = "availability_count" /\ req.form = "yes_n"
       /\ req.outcome # "NONE_CLARIFICATION"

\* An answer that counts products cites at most as many, and takes them from
\* the products the model or the ledger cited before any it found itself; a
\* crosslist report has dropped the products cited (submission_refs.py:1056-1063).
CountIsGrounded ==
    Done /\ Counting =>
      LET kept == refs \cap Products IN
      /\ Cardinality(kept) <= req.n
      /\ Cardinality(CitedProducts) >= req.n /\ ~req.crosslist => kept \subseteq CitedProducts

Excludes == Done /\ ~denied /\ req.type \in {"count", "availability_count"}

\* A product the task excludes is not cited in a count, and in an
\* availability count only when nothing else is, whoever added it (model,
\* task text, steps, receipt, message) and although earlier steps preserve
\* it; provided the model cited it by its path, if at all.
ExcludedStayOut ==
    Excludes =>
      LET kept == refs \cap Products IN
      \A p \in (kept \cap excluded) :
         \/ [rec |-> p, form |-> "short"] \in ToSet(req.cited)
         \/ req.type = "availability_count" /\ kept \subseteq excluded

\* The steps before the last look at the runtime lose no cited store,
\* upload, payment or return, and no basket the message names, unless the
\* answer is a refusal or a crosslist report.
CitedRowsSurvive ==
    (pc = "normalize" /\ ~denied /\ ~req.crosslist) =>
      Recs(CitedRows) \cap (Stores \cup Uploads \cup Payments \cup Returns \cup req.baskets)
        \subseteq Recs(rows)

-----------------------------------------------------------------------------
(* A statement of the docs that the code does not keep.                    *)

\* ARCHITECTURE.md: a security refusal collapses the evidence down to
\* documents only.  The code does so only for a refusal of a record that is
\* known to be another's; others keep their rows, those whose owner could not
\* be found among them (submission_refs.py:718, submission_refs.py:1275).
RefusalCitesOnlyDocs == Done /\ req.outcome = "DENIED_SECURITY" => refs \subseteq Docs
=============================================================================
