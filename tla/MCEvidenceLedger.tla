--------------------------- MODULE MCEvidenceLedger ---------------------------
(* Two products, two stores, a payment and an employee record; two recovery   *)
(* policies, of which one states a retry time.  Between the results and the  *)
(* reports every rewrite applies.                                            *)
EXTENDS EvidenceLedger

CONSTANTS p1, p2, shop, otherShop, pay, emp, window, notice

MCIntents == [d \in Docs |->
    {"payment_recovery"} \cup (IF d = notice THEN {"fraud_review", "discount"} ELSE {})]

MCPrompts == {{"amount", "archive"}, {"table"}, {"payment"}}

Catalogue(store, count, matched, note) ==
    [tool |-> "catalog", store |-> store, count |-> count, matched |-> matched,
     note |-> note]
Helper(tool, found, speaks) == [tool |-> tool, refs |-> found, text |-> speaks]

MCResults == {
    Catalogue({shop}, {p1}, {p1, p2}, {}),
    Catalogue({}, {}, {p2}, {p2}),
    Helper("manager", {emp, shop}, FALSE),
    Helper("fraud", {pay}, TRUE),
    Helper("receipt", {p1}, TRUE),
    Helper("city", {p2, otherShop}, TRUE)}

Completion(type, outcome, docs, rows, claims, steps) ==
    [type |-> type, outcome |-> outcome, docs |-> docs, rows |-> rows, steps |-> steps,
     message |-> [by |-> "model", call |-> 0, says |-> claims]]

MCReports ==
    {Completion(t, "OK", {notice}, {p2, otherShop}, {}, {}) :
        t \in {"availability_count", "availability_lookup", "catalog_lookup",
               "receipt_price_check", "fraud_review"}} \cup
    {Completion("payment_recovery", o, {}, {}, {}, steps) :
        o \in {"OK", "NONE_CLARIFICATION", "NONE_UNSUPPORTED"},
        steps \in {{}, {"closed", "retry"}, {"closed", "date", "started"}}} \cup
    {Completion("payment_recovery", "NONE_UNSUPPORTED", {}, {}, {"date"}, {"payment"})} \cup
    {Completion("discount", "NONE_UNSUPPORTED", {}, {}, {"token"}, {"cap"}),
     Completion("catalog_lookup", "NONE_CLARIFICATION", {}, {p1}, {"token"}, {})}

MCRewrites == {{}, {"closed", "retry"}, {"date"}}
=============================================================================
