---------------------------- MODULE MCPreflights ----------------------------
(* Tasks of every kind, each on runtimes where it is decided one way or the   *)
(* other: own, foreign and ownerless baskets, payments of one amount with     *)
(* rejected returns, files inside and outside the directory, staff of two     *)
(* stores.                                                                    *)
EXTENDS Preflights

NoTask == [marks |-> {}, basket |-> "none", payment |-> "none", return |-> "none", amount |-> 0,
           selector |-> "none", manager |-> "none", role |-> "none", store |-> "none"]
Task(marks) == [NoTask EXCEPT !.marks = marks]

User(user, roles) == [user |-> user, roles |-> roles]
Me == User("me", {"customer"})
Guest == User("none", {"guest"})
NamedGuest == User("guest", {"guest"})
Staff == User("employee", {"employee"})
Users == {Me, Guest, NamedGuest, Staff}

Basket(id, owner, at, active, home) ==
    [kind |-> "basket", id |-> id, owner |-> owner, at |-> at, active |-> active, home |-> home]
Payment(id, owner, amount) ==
    [kind |-> "payment", id |-> id, owner |-> owner, amount |-> amount, home |-> TRUE]
Return(id, payment, at, rejected) ==
    [kind |-> "return", id |-> id, owner |-> "me", payment |-> payment, at |-> at,
     rejected |-> rejected, home |-> FALSE]
Employee(id, store, roles) == [kind |-> "employee", id |-> id, store |-> store, roles |-> roles]
Store(id) == [kind |-> "store", id |-> id]

Company == {Store("s1"), Store("s2"), Employee("e1", "s1", {"store_manager"}),
            Employee("e2", "s1", {"clerk"}), Employee("e3", "s2", {"clerk"})}

Case(tasks, users, records, fs) ==
    [task : tasks, who : users, records : records, files : fs]

Refused ==
    Case({Task({"override", "cleanup"})} \cup
         {[Task({"contact"}) EXCEPT !.manager = m] : m \in {"none", "e1", "nobody"}} \cup
         {[Task({"claims"}) EXCEPT !.manager = m, !.basket = b] :
             m \in {"none", "e1"}, b \in {"none", "b1", "b2", "b9"}},
         Users, {Company \cup {Basket("b1", "me", 1, TRUE, home), Basket("b2", "you", 2, TRUE, home)} :
                    home \in BOOLEAN}, {{}})

Checkouts ==
    Case({[Task({"checkout"}) EXCEPT !.basket = b] : b \in {"b1", "b3", "b5", "b9"}} \cup
         {[Task({"checkout"}) EXCEPT !.selector = s] : s \in {"none", "newest", "oldest"}},
         Users,
         {{Basket("b1", "me", 2, one, home), Basket("b2", "me", 1, two, home),
           Basket("b3", "you", 3, TRUE, home), Basket("b4", "me", 3, two, home),
           Basket("b5", "none", 4, TRUE, home)} :
              one \in BOOLEAN, two \in BOOLEAN, home \in BOOLEAN}, {{}})

Refunds ==
    Case({[Task({"refund"}) EXCEPT !.payment = t[1], !.return = t[2], !.amount = t[3]] :
             t \in {"none", "p1", "p9"} \X {"none", "r1"} \X {0, 5}},
         {Me, User("me", {}), Staff},
         {{Payment("p1", "me", 5), Payment("p2", "me", amount), Payment("p3", "you", 5),
           Return("r1", "p1", 1, one), Return("r2", "p1", 2, ~ one)} :
              amount \in {0, 5}, one \in BOOLEAN}, {{}})

Files == {[name |-> 1, under |-> TRUE, suffix |-> TRUE], [name |-> 2, under |-> TRUE, suffix |-> FALSE],
          [name |-> 3, under |-> FALSE, suffix |-> TRUE], [name |-> 4, under |-> TRUE, suffix |-> TRUE]}

Cleanups ==
    Case({Task({"cleanup"}), Task({"cleanup", "only_tmp"})}, {Staff}, {{}}, SUBSET Files)

Counts ==
    Case({[NoTask EXCEPT !.role = r, !.store = s] :
             r \in {"clerk", "driver"}, s \in {"none", "s1", "s9"}}, {Me, Staff}, {Company}, {{}})

MCCases == Refused \cup Checkouts \cup Refunds \cup Cleanups \cup Counts
===============================================================================
