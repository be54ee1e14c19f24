--------------------------- MODULE MCSubmissionRefs ---------------------------
(* Two customers with a return and its payment each, the first with two       *)
(* baskets; the account of the second; three products, an upload, an employee *)
(* and a store.  Every kind of completion is asked for by a customer, a guest *)
(* or the employee.                                                           *)
EXTENDS SubmissionRefs, TLC

CONSTANTS p1, p2, p3, scan, b1, b2, pay1, pay2, ret1, ret2, acct2, emp, shop, row,
          guide, readme, ann, bob

MCOwnerOf == b1 :> ann @@ b2 :> ann @@ pay1 :> ann @@ pay2 :> bob @@ ret1 :> ann @@ ret2 :> bob
             @@ acct2 :> bob
MCPaymentOf == ret1 :> pay1 @@ ret2 :> pay2
MCStoreOf == emp :> shop
MCItemsOn == scan :> <<p2, p3>>

Short(r) == [rec |-> r, form |-> "short"]
Paths(s) == [i \in DOMAIN s |-> Path(s[i])]

Customer == [user |-> ann, roles |-> {"customer"}]
Guest == [user |-> "none", roles |-> {"guest"}]
Staff == [user |-> emp, roles |-> {"staff"}]

Base == [type |-> "other", outcome |-> "OK", protected |-> FALSE, cited |-> <<>>,
         form |-> "text", n |-> 0, named |-> <<>>, baskets |-> {}, foreign |-> FALSE,
         steps |-> <<>>, asked |-> <<>>, negated |-> {}, targets |-> <<>>,
         crosslist |-> FALSE, primary |-> FALSE, inventory |-> FALSE, who |-> Customer]

Refusals == {[Base EXCEPT !.outcome = "DENIED_SECURITY", !.type = type, !.who = who,
                          !.protected = flag, !.foreign = says, !.targets = <<b1, acct2>>,
                          !.cited = Paths(<<guide, readme, b1, ret2, row>>)] :
                type \in {"other", "refund"}, who \in {Customer, Guest, Staff},
                flag \in BOOLEAN, says \in BOOLEAN}

Lookups == {[Base EXCEPT !.type = type, !.who = who, !.targets = <<b1, b2, pay2>>,
                         !.baskets = {b2}, !.crosslist = report, !.steps = <<p2>>,
                         !.cited = Paths(<<guide, emp, b1, ret1, ret2>> \o
                                        IF type = "checkout" THEN <<scan>> ELSE <<>>)] :
                type \in {"checkout", "refund", "discount"},
                who \in {Customer, Guest, Staff}, report \in BOOLEAN}

Counts == {[Base EXCEPT !.type = type, !.outcome = outcome, !.form = form, !.n = 1,
                        !.asked = <<p3, p2>>, !.negated = {p2}, !.primary = primary,
                        !.inventory = inventory, !.steps = <<p3>>,
                        !.named = IF form = "text" THEN <<p2, p3>> ELSE <<>>,
                        !.cited = cited] :
                type \in {"count", "availability_count", "catalog_lookup"},
                outcome \in {"OK", "NONE_CLARIFICATION"},
                form \in {"text", "integer", "yes", "yes_n", "no"},
                primary \in BOOLEAN, inventory \in BOOLEAN,
                cited \in {Paths(<<shop, p1>>), <<Path(shop), Path(p1), Short(p2)>>,
                           Paths(<<shop, p2>>)}}

MCRequests == Refusals \cup Lookups \cup Counts
=============================================================================
