-------------------------- MODULE MCDispatchPlanner --------------------------
(* Two to three packages on a diamond of stores with a short cut and a cross  *)
(* lane, where all routes fit, on parallel lanes, where five routes compete   *)
(* for the four places, and on a chain of as many lanes as a route may have   *)
(* and one more; and files with spoilt rows and repeated ids.                 *)
EXTENDS DispatchPlanner

CONSTANTS n1, n2, n3, n4, n5, n6, n7

Parcel(id, from, to, due, margin) ==
    [usable |-> TRUE, id |-> id, from |-> from, to |-> to, due |-> due, margin |-> margin]
Lane(id, from, to, capacity, eta, cost) ==
    [usable |-> TRUE, id |-> id, from |-> from, to |-> to, capacity |-> capacity,
     eta |-> eta, cost |-> cost]
Spoilt(row) == [row EXCEPT !.usable = FALSE]

Diamond(capacity, slow, dear) ==
    <<Lane(1, n1, n2, capacity, 1, 1), Lane(2, n2, n4, 1, slow, 1),
      Lane(3, n1, n3, 2, 1, dear), Lane(4, n3, n4, capacity, 2, dear),
      Lane(5, n1, n4, 0, slow + 2, 2), Lane(6, n2, n3, 1, 0, 0)>>

\* Two lanes each way and a direct one: five routes; in the second variant the
\* two first lanes carry one id.
Parallel(other, cheap) ==
    <<Lane(1, n1, n2, 1, 1, 2), Lane(other, n1, n2, 1, 2, cheap), Lane(3, n2, n4, 1, 1, 2),
      Lane(4, n2, n4, 1, 2, cheap), Lane(5, n1, n4, 1, 4, 1)>>

Chain ==
    <<Lane(1, n1, n2, 1, 1, 1), Lane(2, n2, n3, 1, 1, 1), Lane(3, n3, n4, 1, 1, 1),
      Lane(4, n4, n5, 1, 1, 1), Lane(5, n5, n6, 1, 1, 1), Lane(6, n6, n7, 1, 1, 1)>>

Consignments(due) ==
    {<<Parcel(1, n1, n4, due, 5), Parcel(2, n1, n4, due, 7)>>,
     <<Parcel(1, n1, n4, due, 5), Parcel(2, n1, n2, 1, 1), Parcel(3, n2, n4, due, 5)>>,
     <<Parcel(3, n1, n4, 9, 5), Parcel(1, n1, n4, due, 5), Parcel(2, n1, n4, 9, 5)>>}

MCWaves ==
    [packages : UNION {Consignments(due) : due \in {2, 4, 6}},
     lanes : {Diamond(capacity, slow, dear) :
                 capacity \in {1, 2}, slow \in 1 .. 3, dear \in {1, 2, 4}} \cup
             {Parallel(other, cheap) : other \in {1, 2}, cheap \in {0, 1, 3}}] \cup
    [packages : {<<Parcel(1, n1, n4, 3, 5), Parcel(2, n4, n4, 3, 5)>>,
                 <<Parcel(1, n1, n4, 3, 5), Parcel(2, n4, n1, 3, 5)>>,
                 <<Spoilt(Parcel(1, n1, n4, 3, 5))>>,
                 <<Parcel(1, n1, n4, 2, 5), Spoilt(Parcel(2, n4, n1, 3, 5))>>,
                 <<Parcel(1, n1, n4, 2, 5), Parcel(1, n2, n4, 3, 5)>>,
                 <<Parcel(1, n1, n4, 3, 5), Parcel(1, n1, n4, 3, 5)>>},
     lanes : {Diamond(1, 1, 1), Parallel(2, 1),
              <<Lane(1, n1, n2, 1, 1, 1), Spoilt(Lane(2, n2, n4, 1, 1, 1))>>}] \cup
    [packages : {<<Parcel(1, n1, n6, 9, 5), Parcel(2, n2, n7, 6, 5)>>,
                 <<Parcel(1, n1, n7, 9, 5)>>},
     lanes : {Chain}]
===============================================================================
