------------------------------ MODULE Preflights ------------------------------
(* The preflights that look at the records and files of the runtime before   *)
(* the model is asked, in the order run_agent tries them: the refusals of    *)
(* security_preflight.py, the questions of refund_preflight.py, the deletion *)
(* of tmp_cleanup.py, the count of staff_tools.py and the baskets of         *)
(* checkout_preflight.py.  Each asks /bin/id for itself and reads records    *)
(* for itself (runtime_state.py); every call may fail, and what fails is     *)
(* taken as an unknown identity or as a record that is not there.            *)
EXTENDS Naturals, FiniteSets

CONSTANT Cases   \* [task, who, records, files] that may meet

(* task    : [marks, basket, payment, return, amount, selector, manager,     *)
(*            role, store]; "none" or 0 is what the task does not name       *)
(* who     : what /bin/id answers, [user, roles]                             *)
(* records : baskets, payments and returns have an owner, or "none"; home    *)
(*           says whether they lie in the directory of their owner.          *)
(*           Employees have a store and roles.                               *)
(* files   : [name, under, suffix], numbered in the order of their paths     *)
Owned == {"basket", "payment", "return"}
Guests == {"guest"}

ASSUME CaseAssumption ==
    \A it \in Cases :
        /\ IsFiniteSet(it.records)
        \* A record has an id of its own (checkout_preflight.py:64).
        /\ \A r \in it.records : r.id # "none"
        /\ \A r, s \in it.records : r.id = s.id => r = s
        \* The records of one kind are laid out in one way.
        /\ \A r, s \in it.records : r.kind \in Owned /\ r.kind = s.kind => r.home = s.home
        \* Dates tell the baskets and the returns of a customer apart.
        /\ \A r \in it.records : r.kind \in {"basket", "return"} => r.at \in Nat
        /\ \A r, s \in it.records :
              r.kind \in {"basket", "return"} /\ r.kind = s.kind /\ r.owner = s.owner
                /\ r.at = s.at => r = s
        /\ \A f, g \in it.files : f.name = g.name => f = g

VARIABLES
    case,
    pc,        \* the preflight to try next, or how they ended
    missed,    \* a call failed
    answer,    \* what closed the trial
    chosen,    \* selected_basket_preflight: the basket put into the context
    files,     \* the files there are
    targets,   \* tmp_cleanup: files to delete
    listed     \* deleted_paths

vars == <<case, pc, missed, answer, chosen, files, targets, listed>>

task == case.task
who == case.who

Stages == <<"override", "contact", "foreign", "discount", "amount", "rejected",
            "cleanup", "count", "ambiguous", "selector">>
Following(stage) ==
    IF stage = "selector" THEN "model"
    ELSE Stages[1 + CHOOSE i \in DOMAIN Stages : Stages[i] = stage]

NoAnswer == [kind |-> "none", refs |-> {}, protected |-> FALSE, count |-> 0]
Answer(kind, refs) == [NoAnswer EXCEPT !.kind = kind, !.refs = refs]

\* Faulty variant: the refusal cites the basket the task names.
ProtectedCiting(kind) == [Answer(kind, {task.basket}) EXCEPT !.protected = TRUE]

Protected(kind) == [NoAnswer EXCEPT !.kind = kind, !.protected = TRUE]

Close(a) == pc' = "answered" /\ answer' = a
Pass == pc' = Following(pc) /\ UNCHANGED answer
Missed(calls) == missed' = (missed \/ \E call \in calls : call.missed)
cleanup == <<files, targets, listed>>

-------------------------------------------------------------------------------
(* Calls.  A call is what its caller makes of it and whether it failed.       *)

Unknown == [user |-> "none", roles |-> {}]
Identity == {[id |-> who, missed |-> FALSE], [id |-> Unknown, missed |-> TRUE]}
IsCustomer(id) == id.user \notin {"none", "employee"} \cup Guests

Kind(kind) == {r \in case.records : r.kind = kind}

\* iter_json_records: what cannot be listed or read is left out.
Readings(all) ==
    {[got |-> all, missed |-> FALSE]} \cup {[got |-> R, missed |-> TRUE] : R \in SUBSET all}

\* Faulty variant: every record is taken for the customer's.
AnyonesRecords(kind, customer) == Readings(Kind(kind))

\* records_for_customer: the directories of the customer, and if they gave
\* nothing, be it because the reads failed, all records by their owner.
RecordsForCustomer(kind, customer) ==
    LET own == {r \in Kind(kind) : r.owner = customer}
        home == {r \in own : r.home}
    IN  {[got |-> IF home # {} THEN home ELSE own, missed |-> FALSE]} \cup
        {[got |-> R, missed |-> TRUE] : R \in SUBSET own}

Ids(R) == {r.id : r \in R}

\* Faulty variant: baskets already checked out are offered again.
AnyState(R) == R

Active(R) == {b \in R : b.active}

-------------------------------------------------------------------------------
(* verify_store_manager for the manager the task names.                       *)

\* Faulty variant: only a customer is kept from the profile.
CustomersOnly(id) == IsCustomer(id)

\* manager_verification._is_customer_or_guest
FacesPublic(id) ==
    \/ IsCustomer(id) \/ id.user \in Guests
    \/ id.roles # {} /\ id.roles \subseteq {"guest"}

\* staff_tools._is_customer_or_guest
FacesPublicByFiles(id) ==
    FacesPublic(id) \/ (id.roles # {} /\ id.roles \subseteq {"guest", "customer"})

\* The records the check returns.  It asks SQL and, when that fails, the
\* files, of which both join the employee to the record of the store; it asks
\* for the identity again, and one that cannot be told is taken for that of an
\* employee.
ManagerRefs ==
    LET named == {e \in Kind("employee") : e.id = task.manager /\ e.store \in Ids(Kind("store"))}
        Cited(e, public) == IF public THEN {e.store} ELSE {e.id, e.store}
    IN  {[refs |-> {}, missed |-> task.manager # "none"]} \cup
        IF named = {} THEN {[refs |-> {}, missed |-> FALSE]}
        ELSE UNION {
            {[refs |-> Cited(e, FacesPublic(seen.id)), missed |-> seen.missed],
             [refs |-> Cited(e, FacesPublicByFiles(seen.id)), missed |-> TRUE]} :
                e \in named, seen \in Identity}

-------------------------------------------------------------------------------
Init ==
    /\ case \in Cases
    /\ pc = "override"
    /\ missed = FALSE
    /\ answer = NoAnswer
    /\ chosen = "none"
    /\ files = case.files /\ targets = {} /\ listed = {}

\* system_override_security_preflight
Override ==
    /\ pc = "override"
    /\ IF "override" \in task.marks THEN Close(Protected("override")) ELSE Pass
    /\ UNCHANGED <<case, missed, chosen, cleanup>>

\* employee_contact_security_preflight
Contact ==
    /\ pc = "contact"
    /\ \E seen \in Identity, manager \in ManagerRefs :
          LET Internal == \/ seen.id.user # "none" /\ ~ IsCustomer(seen.id)
                          \/ ~ seen.id.roles \subseteq {"guest", "customer"}
          IN  CASE "contact" \notin task.marks -> Pass /\ UNCHANGED missed
                [] "contact" \in task.marks /\ Internal -> Pass /\ Missed({seen})
                [] OTHER -> /\ Close(Answer("contact", manager.refs))
                            /\ Missed({seen, manager})
    /\ UNCHANGED <<case, chosen, cleanup>>

\* checkout_foreign_basket_security_preflight
Foreign ==
    /\ pc = "foreign"
    /\ \E seen \in Identity, baskets \in Readings(Kind("basket")) :
          LET named == {b \in baskets.got : b.id = task.basket} IN
          CASE "checkout" \notin task.marks \/ task.basket = "none" ->
                  Pass /\ UNCHANGED missed
            [] OTHER ->
                  /\ IF /\ IsCustomer(seen.id)
                        /\ \E b \in named : b.owner \notin {"none", seen.id.user}
                       THEN Close(Protected("foreign")) ELSE Pass
                  /\ Missed({seen} \cup IF IsCustomer(seen.id) THEN {baskets} ELSE {})
    /\ UNCHANGED <<case, chosen, cleanup>>

\* _customer_basket_ref: the named basket, looked for among the customer's.
NamedBasket(customer) ==
    IF task.basket = "none" THEN {[got |-> {}, missed |-> FALSE]}
    ELSE {[baskets EXCEPT !.got = {b \in @ : b.id = task.basket}] :
             baskets \in RecordsForCustomer("basket", customer)}

\* customer_discount_security_preflight
Discount ==
    /\ pc = "discount"
    /\ \E seen \in Identity : \E baskets \in NamedBasket(seen.id.user), manager \in ManagerRefs :
          CASE "claims" \notin task.marks -> Pass /\ UNCHANGED missed
            [] "claims" \in task.marks /\ ~ IsCustomer(seen.id) -> Pass /\ Missed({seen})
            [] OTHER ->
                  /\ Close(Answer("discount", Ids(baskets.got) \cup manager.refs))
                  /\ Missed({seen, baskets, manager})
    /\ UNCHANGED <<case, chosen, cleanup>>

-------------------------------------------------------------------------------
(* Questions about refunds.                                                   *)

RefundCustomer(id) == IsCustomer(id) /\ "customer" \in id.roles
OfAmount(R, amount) == {p \in R : p.amount = amount /\ amount # 0}
AmountOnly == /\ "refund" \in task.marks /\ task.amount # 0
              /\ task.payment = "none" /\ task.return = "none"

\* amount_refund_clarification_preflight
Amount ==
    /\ pc = "amount"
    /\ \E seen \in Identity : \E payments \in RecordsForCustomer("payment", seen.id.user) :
          LET same == OfAmount(payments.got, task.amount) IN
          CASE ~ AmountOnly -> Pass /\ UNCHANGED missed
            [] AmountOnly /\ ~ RefundCustomer(seen.id) -> Pass /\ Missed({seen})
            [] OTHER -> /\ IF Cardinality(same) > 1 THEN Close(Answer("refund", Ids(same)))
                                                   ELSE Pass
                        /\ Missed({seen, payments})
    /\ UNCHANGED <<case, chosen, cleanup>>

\* _target_refund_rows: the payments meant, each with its returns.  By amount
\* the returns are read anew for every payment.
TargetRows(customer) ==
    LET Meant(R) == IF task.payment # "none" THEN {p \in R : p.id = task.payment}
                    ELSE OfAmount(R, task.amount)
        Returns == RecordsForCustomer("return", customer)
        Payments == RecordsForCustomer("payment", customer)
        Row(p, R) == [payment |-> p, returns |-> {r \in R : r.payment = p.id}]
    IN  IF task.payment = "none" /\ task.return # "none"
          THEN {[rows |-> {row \in {Row(p, {r \in returns.got : r.id = task.return}) :
                                      p \in payments.got} : row.returns # {}},
                 missed |-> payments.missed \/ returns.missed] :
                    payments \in Payments, returns \in Returns}
          ELSE UNION {{[rows |-> {Row(p, of[p].got) : p \in Meant(payments.got)},
                        missed |-> \/ payments.missed
                                   \/ \E p \in Meant(payments.got) : of[p].missed] :
                           of \in [Meant(payments.got) -> Returns]} : payments \in Payments}

\* rejected_return_clarification_preflight: the latest rejected return of the
\* one payment meant, and the payments of its amount in a second reading.
Rejected ==
    /\ pc = "rejected"
    /\ \E seen \in Identity :
          \/ "refund" \notin task.marks /\ Pass /\ UNCHANGED missed
          \/ "refund" \in task.marks /\ ~ RefundCustomer(seen.id) /\ Pass /\ Missed({seen})
          \/ /\ "refund" \in task.marks /\ RefundCustomer(seen.id)
             /\ \E target \in TargetRows(seen.id.user),
                   again \in RecordsForCustomer("payment", seen.id.user) :
                  LET rejected == {r \in UNION {row.returns : row \in target.rows} : r.rejected}
                      latest == CHOOSE r \in rejected : \A q \in rejected : q.at <= r.at
                      amount == (CHOOSE row \in target.rows : TRUE).payment.amount
                      same == OfAmount(again.got, amount)
                  IN  IF Cardinality(target.rows) # 1 \/ rejected = {}
                        THEN Pass /\ Missed({seen, target})
                        ELSE /\ IF Cardinality(same) > 1
                                  THEN Close(Answer("refund", Ids(same) \cup {latest.id}))
                                  ELSE Pass
                             /\ Missed({seen, target, again})
    /\ UNCHANGED <<case, chosen, cleanup>>

-------------------------------------------------------------------------------
(* tmp_cleanup_preflight.                                                     *)

Under(F) == {f \in F : f.under}
Wanted(F) == {f \in Under(F) : "only_tmp" \in task.marks => f.suffix}

\* The listings, which must succeed, show every file; what find shows is among them.
Inspect ==
    /\ pc = "cleanup"
    /\ \/ "cleanup" \notin task.marks /\ Pass /\ UNCHANGED <<missed, targets>>
       \/ "cleanup" \in task.marks /\ Pass /\ missed' = TRUE /\ UNCHANGED targets
       \/ /\ "cleanup" \in task.marks
          /\ targets' = Wanted(files)
          /\ pc' = "deleting"
          /\ UNCHANGED <<missed, answer>>
    /\ UNCHANGED <<case, chosen, files, listed>>

\* A deletion is made at least once when it returns; the second attempt of one
\* whose first took effect unseen answers NOT_FOUND.
Deletions == {[gone |-> TRUE, reply |-> "ok"], [gone |-> TRUE, reply |-> "not_found"],
              [gone |-> TRUE, reply |-> "error"], [gone |-> FALSE, reply |-> "error"]}

\* Faulty variant: every error is passed over.
GoOn(reply) == "deleting"

AfterDelete(reply) == IF reply = "error" THEN "raised" ELSE "deleting"

Delete ==
    /\ pc = "deleting"
    /\ \E f \in targets, deletion \in Deletions :
          /\ \A g \in targets : f.name <= g.name
          /\ targets' = targets \ {f}
          /\ files' = IF deletion.gone THEN files \ {f} ELSE files
          /\ listed' = IF deletion.reply = "ok" THEN listed \cup {f} ELSE listed
          /\ missed' = (missed \/ deletion.reply # "ok")
          /\ pc' = AfterDelete(deletion.reply)
    /\ UNCHANGED <<case, answer, chosen>>

ReportDeleted ==
    /\ pc = "deleting" /\ targets = {}
    /\ Close(Answer("cleanup", {}))
    /\ UNCHANGED <<case, missed, chosen, cleanup>>

-------------------------------------------------------------------------------
(* Staff and baskets.                                                         *)

\* staff_role_count_preflight
Count ==
    /\ pc = "count"
    /\ \/ task.role = "none" /\ Pass /\ UNCHANGED missed
       \/ task.role # "none" /\ Pass /\ missed' = TRUE
       \/ /\ task.role # "none"
          /\ \E staff \in Readings(Kind("employee")), stores \in Readings(Kind("store")) :
                LET counted == {e \in staff.got : /\ task.role \in e.roles
                                                 /\ task.store \in {"none", e.store}}
                    store == Ids(stores.got) \cap {task.store}
                IN  IF task.store # "none" /\ store = {}
                      THEN Pass /\ Missed({staff, stores})
                      ELSE /\ Close([Answer("count", Ids(counted) \cup store)
                                       EXCEPT !.count = Cardinality(counted)])
                           /\ Missed({staff} \cup IF store = {} THEN {} ELSE {stores})
    /\ UNCHANGED <<case, chosen, cleanup>>

CheckoutWith(selectors) ==
    "checkout" \in task.marks /\ task.basket = "none" /\ task.selector \in selectors

\* ambiguous_checkout_preflight
Ambiguous ==
    /\ pc = "ambiguous"
    /\ \E seen \in Identity : \E baskets \in RecordsForCustomer("basket", seen.id.user) :
          LET active == Active(baskets.got) IN
          CASE ~ CheckoutWith({"none"}) -> Pass /\ UNCHANGED missed
            [] CheckoutWith({"none"}) /\ ~ IsCustomer(seen.id) -> Pass /\ Missed({seen})
            [] OTHER -> /\ IF Cardinality(active) > 1 THEN Close(Answer("checkout", Ids(active)))
                                                     ELSE Pass
                        /\ Missed({seen, baskets})
    /\ UNCHANGED <<case, chosen, cleanup>>

\* selected_basket_preflight
Extreme(R) ==
    CHOOSE b \in R : \A c \in R : IF task.selector = "newest" THEN b.at >= c.at ELSE b.at <= c.at

Selector ==
    /\ pc = "selector"
    /\ \E seen \in Identity : \E baskets \in RecordsForCustomer("basket", seen.id.user) :
          LET active == Active(baskets.got) IN
          CASE ~ CheckoutWith({"newest", "oldest"}) -> UNCHANGED <<missed, chosen>>
            [] CheckoutWith({"newest", "oldest"}) /\ ~ IsCustomer(seen.id) ->
                  UNCHANGED chosen /\ Missed({seen})
            [] OTHER -> /\ chosen' = IF active = {} THEN chosen ELSE Extreme(active).id
                        /\ Missed({seen, baskets})
    /\ Pass
    /\ UNCHANGED <<case, cleanup>>

Next == \/ Override \/ Contact \/ Foreign \/ Discount \/ Amount \/ Rejected
        \/ Inspect \/ Delete \/ ReportDeleted \/ Count \/ Ambiguous \/ Selector

Spec == Init /\ [][Next]_vars

-------------------------------------------------------------------------------
(* Properties.                                                                *)

Refusals == {"override", "contact", "foreign", "discount"}
Questions == {"refund", "checkout"}

\* Answers and deletions are of the kinds the preflights know; only refusals
\* that look at a foreign record are protected (agent.py:1614-1673).
TypeOK ==
    /\ case \in Cases
    /\ pc \in {Stages[i] : i \in DOMAIN Stages} \cup {"deleting", "answered", "raised", "model"}
    /\ missed \in BOOLEAN
    /\ answer.kind \in Refusals \cup Questions \cup {"none", "cleanup", "count"}
    /\ answer.refs \cup ({chosen} \ {"none"}) \subseteq Ids(case.records)
    /\ answer.protected => answer.kind \in {"override", "foreign"} /\ answer.refs = {}
    /\ answer.kind = "none" <=> pc # "answered"
    /\ files \subseteq case.files /\ targets \subseteq case.files /\ listed \subseteq case.files

\* What a preflight cites of baskets, payments and returns, and the basket it
\* chooses, belongs to the customer /bin/id names
\* (security_preflight.py:77-85, runtime_state.py:119-139).
OnlyOwnRecords ==
    \A r \in case.records :
        r.kind \in Owned /\ r.id \in answer.refs \cup {chosen} => r.owner = who.user

\* A refusal cites an employee's profile only if a call failed: the check of the
\* manager asks for the identity again and takes an unknown one for an
\* employee's; so it takes one without a user that has other roles than a guest's
\* (security_preflight.py:87-90, manager_verification.py:129-137).
ProfilesStayInside ==
    /\ answer.kind \in Refusals /\ ~ missed
    /\ who.user = "none" => who.roles = {"guest"}
    => answer.refs \cap Ids(Kind("employee")) = {}

\* A question offers a real choice: two active baskets, or two payments of one
\* amount.  When no call failed, a request with such a choice is not left to
\* the model, the selector gets the first or last of all active baskets, and
\* everyone who has the role is counted and cited (checkout_preflight.py:80-152,
\* refund_preflight.py:84-201, staff_tools.py:44-88).
DecisionsFitRecords ==
    LET mine(kind) == {r \in Kind(kind) : r.owner = who.user}
        open == {b \in mine("basket") : b.active}
    IN  /\ answer.kind \in Questions =>
              \E r, s \in case.records :
                  /\ {r.id, s.id} \subseteq answer.refs /\ r # s /\ r.kind = s.kind
                  /\ IF answer.kind = "checkout" THEN r.active /\ s.active
                                                 ELSE r.amount = s.amount
        /\ pc = "model" /\ ~ missed =>
              /\ CheckoutWith({"none"}) /\ IsCustomer(who) => Cardinality(open) <= 1
              /\ AmountOnly /\ RefundCustomer(who) =>
                    Cardinality(OfAmount(mine("payment"), task.amount)) <= 1
              /\ CheckoutWith({"newest", "oldest"}) /\ IsCustomer(who) /\ open # {} =>
                    chosen = Extreme(open).id
        /\ answer.kind = "count" =>
              LET staff == {e \in Kind("employee") : /\ task.role \in e.roles
                                                     /\ task.store \in {"none", e.store}}
              IN  /\ Cardinality(answer.refs \cap Ids(staff)) = answer.count
                  /\ ~ missed => Ids(staff) \subseteq answer.refs

\* Only wanted files are deleted.  A cleanup that answers has deleted them all
\* and lists what it deleted, except after an attempt that took effect unseen
\* (tmp_cleanup.py:44-63).
CleanupIsExact ==
    LET gone == case.files \ files IN
    /\ gone \subseteq Wanted(case.files)
    /\ answer.kind = "cleanup" =>
          /\ gone = Wanted(case.files)
          /\ listed \subseteq gone /\ (~ missed => listed = gone)
===============================================================================
