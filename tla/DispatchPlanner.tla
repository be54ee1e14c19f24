--------------------------- MODULE DispatchPlanner ---------------------------
(* dispatch_planner.py: the packages and lanes of a dispatch wave are read,   *)
(* the routes of each package are listed and the best few kept, and every     *)
(* combination of them is tried.  A package or lane is a row of its file; a   *)
(* route is a sequence of lanes given by their positions in the file, and a   *)
(* choice gives each package one of its candidates by number.                 *)
EXTENDS Lists, FiniteSets, SequencesExt

CONSTANT Waves    \* pairs of package rows and lane rows a manifest may name

\* usable is FALSE for a row with a number that does not parse or without an id;
\* ids are numbers that are ordered as the strings are.
ASSUME WaveAssumption ==
    \A wave \in Waves :
        /\ wave.packages \in Seq(ToSet(wave.packages))
        /\ \A p \in ToSet(wave.packages) : {p.id, p.due, p.margin} \subseteq Int
        /\ wave.lanes \in Seq(ToSet(wave.lanes))
        /\ \A l \in ToSet(wave.lanes) : {l.id, l.capacity, l.eta, l.cost} \subseteq Int

VARIABLES
    wave,        \* the files of the wave the task names
    phase,
    packages,    \* parsed rows
    lanes,
    priority,    \* positions of the packages, the most urgent first
    candidates,  \* the routes kept for each package
    choice,      \* the combination to try next
    best,        \* the best one so far, as a sequence of at most one
    plan         \* what the preflight got: <<>> or the assignments

plannerVars == <<wave, phase, packages, lanes, priority, candidates, choice, best, plan>>

MaxHops == 5      \* _route_candidates: len(path) > 5
MaxRoutes == 4    \* _route_candidates: len(result) >= 4

-------------------------------------------------------------------------------
(* Order.                                                                     *)

\* a < b for tuples of numbers as Python compares them.
Less(a, b) ==
    \/ \E k \in DOMAIN a \cap DOMAIN b :
          a[k] < b[k] /\ \A j \in 1 .. k - 1 : a[j] = b[j]
    \/ IsStrictPrefix(a, b)

\* The things that have keys by their keys, no two of which are equal.
Sorted(key) ==
    [k \in 1 .. Cardinality(DOMAIN key) |->
        CHOOSE x \in DOMAIN key :
            Cardinality({y \in DOMAIN key : Less(key[y], key[x])}) = k - 1]

\* A faulty variant: the margin before the due time.
MarginFirst(i) == <<- packages[i].margin, packages[i].due, packages[i].id, i>>

PriorityKey(i) == <<packages[i].due, - packages[i].margin, packages[i].id, i>>

\* The last package of an id in the order of priority.
LastOf(id) ==
    CHOOSE k \in DOMAIN priority :
        /\ packages[priority[k]].id = id
        /\ \A j \in k + 1 .. Len(priority) : packages[priority[j]].id # id

\* A dictionary built from rows keeps the last row of an id.
LastWith(rows, id) ==
    CHOOSE i \in DOMAIN rows : rows[i].id = id /\ \A j \in DOMAIN rows : rows[j].id = id => j <= i

-------------------------------------------------------------------------------
(* The routes of a package.                                                   *)

Eta(route) == SumFunction([k \in DOMAIN route |-> lanes[route[k]].eta])
Cost(route) == SumFunction([k \in DOMAIN route |-> lanes[route[k]].cost])
LaneIds(route) == [k \in DOMAIN route |-> lanes[route[k]].id]
End(p, route) == IF route = <<>> THEN p.from ELSE lanes[Last(route)].to
Visited(p, route) == {p.from} \cup {lanes[l].to : l \in ToSet(route)}

\* visit: a path grows until it reaches the destination and never returns to a
\* node it has seen.
Paths(p) ==
    LET Grown(P) ==
            {Append(r, l) : r \in {q \in P : q = <<>> \/ End(p, q) # p.to}, l \in DOMAIN lanes}
        Legal(r) == LET front == Front(r)
                        lane == lanes[Last(r)]
                    IN  lane.from = End(p, front) /\ lane.to \notin Visited(p, front)
        of[n \in 0 .. MaxHops] ==
            IF n = 0 THEN {<<>>} ELSE {r \in Grown(of[n - 1]) : Legal(r)}
    IN  UNION {of[n] : n \in 1 .. MaxHops}

RoutesOf(p) == {r \in Paths(p) : End(p, r) = p.to}

Lateness(p, time) == IF time > p.due THEN time - p.due ELSE 0

\* Sorting is stable, so routes of one key stay in the order of the search.
RouteKey(p, r) == <<Lateness(p, Eta(r)), Cost(r), Eta(r), Len(r)>> \o r

\* A faulty variant: the first four found.
FirstFound(p) ==
    LET found == Sorted([r \in RoutesOf(p) |-> r])
    IN  [k \in {k \in DOMAIN found : k <= MaxRoutes} |-> found[k]]

Candidates(p) ==
    LET routes == RoutesOf(p)
        Better(r, s) == Less(RouteKey(p, r), RouteKey(p, s))
        distinct == {r \in routes :
                       ~ \E s \in routes : LaneIds(s) = LaneIds(r) /\ Better(s, r)}
        sorted == Sorted([r \in distinct |-> RouteKey(p, r)])
    IN  [k \in {k \in DOMAIN sorted : k <= MaxRoutes} |-> sorted[k]]

-------------------------------------------------------------------------------
(* What an assignment of routes costs.  routes gives each package position     *)
(* its route; packages with one id travel on the route of the last of them.   *)

Travels(routes, i) == routes[LastWith(packages, packages[i].id)]

\* How often the lane was used before package i takes its h-th hop: by packages
\* of higher priority and by its own earlier hops.
Used(routes, i, h) ==
    LET place == CHOOSE k \in DOMAIN priority : priority[k] = i
        Route(k) == Travels(routes, priority[k])
        lane == lanes[Route(place)[h]].id
        before == {u \in (1 .. place) \X (1 .. MaxHops) : u[1] = place => u[2] < h}
    IN  Cardinality({u \in before : LET r == Route(u[1]) IN
                        u[2] \in DOMAIN r /\ lanes[r[u[2]]].id = lane})

\* A lane carries capacity packages at a time; each full convoy ahead costs one
\* more trip.
Trip(routes, i, h) ==
    LET lane == lanes[LastWith(lanes, LaneIds(Travels(routes, i))[h])]
        convoy == IF lane.capacity > 1 THEN lane.capacity ELSE 1
    IN  (Used(routes, i, h) \div convoy + 1) * lane.eta

Arrival(routes, i) ==
    SumFunction([h \in DOMAIN Travels(routes, i) |-> Trip(routes, i, h)])

\* Of packages with one id the last one's arrival counts.
Arrives(routes, i) == Arrival(routes, priority[LastOf(packages[i].id)])

Score(routes) ==
    LET late == [i \in DOMAIN packages |-> Lateness(packages[i], Arrives(routes, i))]
    IN  <<Cardinality({i \in DOMAIN packages : late[i] > 0}), SumFunction(late),
          SumFunction([i \in DOMAIN packages |-> Cost(routes[i])]),
          SumFunction([i \in DOMAIN packages |-> Eta(routes[i])])>>

-------------------------------------------------------------------------------
Chosen(ch) == [i \in DOMAIN packages |-> candidates[i][ch[i]]]

\* itertools.product: the choice of the last package varies fastest.
Turning(ch) == {i \in DOMAIN ch : ch[i] < Len(candidates[i])}
NextChoice(ch) ==
    LET turn == CHOOSE i \in Turning(ch) : \A j \in Turning(ch) : j <= i
    IN  [i \in DOMAIN ch |-> IF i < turn THEN ch[i] ELSE IF i = turn THEN ch[i] + 1 ELSE 1]

Assignments(ch) ==
    [k \in DOMAIN priority |->
        LET id == packages[priority[k]].id
        IN  [package |-> id, route |-> LaneIds(Travels(Chosen(ch), priority[k])),
             priority |-> LastOf(id)]]

Usable(rows) == Kept(rows, {i \in DOMAIN rows : rows[i].usable})

PlannerInit ==
    /\ wave \in Waves
    /\ phase = "manifest"
    /\ packages = <<>> /\ lanes = <<>> /\ priority = <<>> /\ candidates = <<>>
    /\ choice = <<>> /\ best = <<>> /\ plan = <<>>

searching == <<priority, candidates, choice, best, plan>>

ReadManifest ==
    /\ phase = "manifest"
    /\ phase' = "packages"
    /\ UNCHANGED <<wave, packages, lanes, searching>>

\* The manifest cannot be read or names no files.
ReadManifestFails ==
    /\ phase = "manifest"
    /\ phase' = "done"
    /\ UNCHANGED <<wave, packages, lanes, searching>>

\* A read that fails gives an empty text.
ReadPackages ==
    /\ phase = "packages"
    /\ packages' \in {Usable(wave.packages), <<>>}
    /\ phase' = "lanes"
    /\ UNCHANGED <<wave, lanes, searching>>

ReadLanes ==
    /\ phase = "lanes"
    /\ lanes' \in {Usable(wave.lanes), <<>>}
    /\ phase' = "routes"
    /\ UNCHANGED <<wave, packages, searching>>

\* Without rows, or with a package that has no route, there is no plan.
NoPlan ==
    /\ phase = "routes"
    /\ packages = <<>> \/ lanes = <<>> \/ \E p \in ToSet(packages) : RoutesOf(p) = {}
    /\ phase' = "done"
    /\ UNCHANGED <<wave, packages, lanes, searching>>

BeginSearch ==
    /\ phase = "routes"
    /\ packages # <<>> /\ lanes # <<>> /\ \A p \in ToSet(packages) : RoutesOf(p) # {}
    /\ priority' = Sorted([i \in DOMAIN packages |-> PriorityKey(i)])
    /\ candidates' = [i \in DOMAIN packages |-> Candidates(packages[i])]
    /\ choice' = [i \in DOMAIN packages |-> 1]
    /\ phase' = "search"
    /\ UNCHANGED <<wave, packages, lanes, best, plan>>

\* Only a strictly better combination replaces the best.
Improves == best = <<>> \/ Less(Score(Chosen(choice)), Score(Chosen(best[1])))

TryCombination ==
    /\ phase = "search"
    /\ best' = IF Improves THEN <<choice>> ELSE best
    /\ IF Turning(choice) # {}
         THEN choice' = NextChoice(choice) /\ UNCHANGED <<phase, plan>>
         ELSE /\ plan' = Assignments(best'[1])
              /\ phase' = "done"
              /\ UNCHANGED choice
    /\ UNCHANGED <<wave, packages, lanes, priority, candidates>>

PlannerNext ==
    \/ ReadManifest \/ ReadManifestFails \/ ReadPackages \/ ReadLanes
    \/ NoPlan \/ BeginSearch \/ TryCombination

PlannerSpec == PlannerInit /\ [][PlannerNext]_plannerVars

-------------------------------------------------------------------------------
(* Properties.                                                                *)

\* Every way to travel from the origin of p to its destination in at most
\* MaxHops lanes that enters no node twice.
AllRoutes(p) ==
    {r \in UNION {[1 .. n -> DOMAIN lanes] : n \in 1 .. MaxHops} :
        /\ lanes[r[1]].from = p.from
        /\ \A k \in 2 .. Len(r) : lanes[r[k]].from = lanes[r[k - 1]].to
        /\ lanes[Last(r)].to = p.to
        /\ \A k \in DOMAIN r :
              lanes[r[k]].to \notin {p.from} \cup {lanes[r[j]].to : j \in 1 .. k - 1}}

\* The search finds the best assignment of all routes there are: fewest late
\* packages, then least lateness, cost and time.  Only for a package with more
\* than MaxRoutes routes the comparison is with the route best for it alone
\* (dispatch_planner.py:110-132, 182-200).
Rivals(p) ==
    LET all == AllRoutes(p)
    IN  {r \in all : \/ Cardinality(all) <= MaxRoutes
                     \/ \A s \in all : ~ Less(RouteKey(p, s), RouteKey(p, r))}
OneLanePerId == IsInjective(LaneIds([l \in DOMAIN lanes |-> l]))
PlanIsBest ==
    plan # <<>> /\ OneLanePerId =>
        LET rivals == UNION {{i} \X Rivals(packages[i]) : i \in DOMAIN packages}
            mine == Score(Chosen(best[1]))
        IN  \A routes \in [DOMAIN packages -> {rival[2] : rival \in rivals}] :
                (\A i \in DOMAIN packages : <<i, routes[i]>> \in rivals)
                    => ~ Less(Score(routes), mine)

\* There is a plan exactly if every package can travel, and it sends every
\* package to its destination, the sooner due first (dispatch_planner.py:90-101,
\* 141-148).
PlanServesAll ==
    phase = "done" =>
        LET ways == UNION {{i} \X AllRoutes(packages[i]) : i \in DOMAIN packages} IN
        /\ plan # <<>> <=> packages # <<>> /\ {way[1] : way \in ways} = DOMAIN packages
        /\ plan # <<>> /\ IsInjective([i \in DOMAIN packages |-> packages[i].id]) =>
              /\ Len(plan) = Len(packages)
              /\ \A i \in DOMAIN packages : \E k \in DOMAIN plan :
                    /\ plan[k].package = packages[i].id
                    /\ plan[k].route \in {LaneIds(way[2]) : way \in {w \in ways : w[1] = i}}
              /\ \A i, j \in DOMAIN packages : packages[i].due < packages[j].due =>
                    \E k, m \in DOMAIN plan :
                        /\ plan[k].package = packages[i].id
                        /\ plan[m].package = packages[j].id
                        /\ plan[k].priority < plan[m].priority
===============================================================================
