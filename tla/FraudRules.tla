------------------------------ MODULE FraudRules ------------------------------
(* fraud_rules.py: which payment rows form an incident, how strong it is and  *)
(* which incidents are kept.  A row is a record with its position in the      *)
(* source (index), its id, time in minutes, customer, city, amount, the       *)
(* fingerprints of payment method and device, and the channel; Blank is an    *)
(* absent value.  Amounts count units of 5 000 cents, so that every threshold *)
(* of the code is a whole number.  An incident is a rule and the set of rows  *)
(* (positions in the sequence given) it covers; the code tells rows apart by  *)
(* their ids, which are taken to be unique within a source.                   *)
EXTENDS Integers, Sequences, FiniteSets, FiniteSetsExt

CONSTANT Blank

Hundred == 2    \* EUR 100 (10 000 cents) in units of amount

RuleOf(name, key, window, minRows, minCities, minTotal) ==
    [name |-> name, key |-> key, window |-> window, minRows |-> minRows,
     minCities |-> minCities, minTotal |-> minTotal]

\* In the order of the code, which decides between incidents of equal score.
Rules == <<
    RuleOf("rapid_customer_multicity", "customer", 5, 6, 3, 0),
    RuleOf("rapid_device_multicity", "device", 5, 5, 4, 0),
    RuleOf("rapid_payment_multicity", "payment", 5, 5, 4, 0),
    RuleOf("high_value_customer_multicity", "customer", 60, 3, 3, 15 * Hundred),
    RuleOf("high_value_device_multicity", "device", 60, 3, 3, 15 * Hundred),
    RuleOf("high_value_payment_multicity", "payment", 60, 3, 3, 15 * Hundred)>>

Weight == [rapid_customer_multicity |-> 50, rapid_device_multicity |-> 70,
           rapid_payment_multicity |-> 70, high_value_customer_multicity |-> 35,
           high_value_device_multicity |-> 65, high_value_payment_multicity |-> 65]

\* Every rule name of the three files in the order of strings.
ByName == <<"archive_customer_city_hop", "archive_high_value_customer_twocity",
            "archive_high_value_device_twocity", "archive_high_value_payment_twocity",
            "archive_signal_city_hop", "high_value_customer_multicity",
            "high_value_device_multicity", "high_value_payment_multicity",
            "live_customer_city_hop", "rapid_customer_multicity",
            "rapid_device_multicity", "rapid_payment_multicity">>

\* The order in which the callers list the candidates of different rules.
Listed == [i \in 1 .. Len(Rules) |-> Rules[i].name] \o
          <<"archive_high_value_customer_twocity", "archive_high_value_payment_twocity",
            "archive_high_value_device_twocity", "live_customer_city_hop",
            "archive_customer_city_hop", "archive_signal_city_hop">>

Place(names, name) == CHOOSE i \in DOMAIN names : names[i] = name

CustomerOwned == {"customer_terminal", "mobile_app", "web"}

Incident(name, W) == [rule |-> name, rows |-> W]

-------------------------------------------------------------------------------
(* Sums and properties of a set W of rows.                                    *)

Each(rows, W, field) == {rows[i][field] : i \in W}
Total(rows, W) == MapThenSumSet(LAMBDA i : rows[i].amount, W)
Owned(rows, W) == {i \in W : rows[i].channel \in CustomerOwned}
MinIndex(rows, W) == Min(Each(rows, W, "index"))

\* i comes before j in a group sorted by time and position.
Before(rows, i, j) ==
    rows[i].time < rows[j].time \/ (rows[i].time = rows[j].time /\ i < j)

\* The rows of group G from row i on, for as long as the window lasts.
WindowFrom(rows, Earlier(_, _, _), G, i, length) ==
    {j \in G : ~ Earlier(rows, j, i) /\ rows[j].time - rows[i].time <= length}

\* Faulty variant: rows without a value form a group as well.
GroupsWithBlank(rows, W, key) ==
    {{i \in W : rows[i][key] = v} : v \in Each(rows, W, key)}

Groups(rows, W, key) ==
    {{i \in W : rows[i][key] = v} : v \in Each(rows, W, key) \ {Blank}}

\* A customer reference alone accuses nobody on a shared channel: a payment
\* method or a customer's own device must repeat.
IndependentSignal(rows, W) ==
    LET devices == {i \in Owned(rows, W) : rows[i].device # Blank}
    IN  \/ Owned(rows, W) = W
        \/ Cardinality(Each(rows, W, "payment")) < Cardinality(W)
        \/ Cardinality(Each(rows, devices, "device")) < Cardinality(devices)

Matches(rows, rule, W) ==
    /\ Cardinality(W) >= rule.minRows
    /\ Cardinality(Each(rows, W, "city")) >= rule.minCities
    /\ rule.key = "device" => Owned(rows, W) = W
    /\ rule.key = "customer" => IndependentSignal(rows, W)
    /\ Total(rows, W) >= rule.minTotal

CandidatesOf(rows, rule) ==
    UNION {{Incident(rule.name, W) :
                W \in {X \in {WindowFrom(rows, Before, G, i, rule.window) : i \in G} :
                          Matches(rows, rule, X)}} :
           G \in Groups(rows, DOMAIN rows, rule.key)}

StrongCandidates(rows) == UNION {CandidatesOf(rows, Rules[k]) : k \in DOMAIN Rules}

-------------------------------------------------------------------------------
(* Strength.  The score is a fraction: density and dominance are quotients.   *)

Span(rows, W) == Max(Each(rows, W, "index")) - MinIndex(rows, W) + 1

Dominant(rows, W) ==
    Max({Cardinality({i \in W : rows[i].channel = ch}) : ch \in Each(rows, W, "channel")})

Score(rows, incident) ==
    LET W == incident.rows
        n == Cardinality(W)
        span == Span(rows, W)
        base == (IF incident.rule \in DOMAIN Weight THEN Weight[incident.rule] ELSE 0)
                + 12 * n + 8 * Cardinality(Each(rows, W, "city"))
    IN  [num |-> base * span * n * Hundred + 40 * n * n * Hundred
                 + 10 * Dominant(rows, W) * span * Hundred
                 + Min({Total(rows, W), 50 * Hundred}) * span * n,
         den |-> span * n * Hundred]

Stronger(rows, a, b) ==
    LET s == Score(rows, a)
        t == Score(rows, b)
    IN  s.num * t.den > t.num * s.den

-------------------------------------------------------------------------------
(* Which incidents are kept.                                                  *)

\* Faulty variant: an incident is dropped for any other it is part of, itself
\* under another rule included.
DropAllContained(rows, incidents) ==
    {a \in incidents : ~ \E b \in incidents : a.rows \subseteq b.rows /\ a # b}

\* Of the incidents with the same rows the strongest, of equal ones the first
\* listed; and none whose rows are a proper part of another's.
DropSubsets(rows, incidents) ==
    LET Beats(b, a) == \/ Stronger(rows, b, a)
                       \/ /\ ~ Stronger(rows, a, b)
                          /\ Place(Listed, b.rule) < Place(Listed, a.rule)
        unique == {a \in incidents :
                     ~ \E b \in incidents : b.rows = a.rows /\ Beats(b, a)}
    IN  {a \in unique : ~ \E b \in unique : a.rows \subseteq b.rows /\ a.rows # b.rows}

\* Faulty variant: the weakest incident first, as a sort without the sign gives.
AheadWeakest(rows, a, b) == Stronger(rows, b, a)

\* a is looked at before b when incidents are selected.
Ahead(rows, a, b) ==
    \/ Stronger(rows, a, b)
    \/ /\ ~ Stronger(rows, b, a)
       /\ \/ MinIndex(rows, a.rows) < MinIndex(rows, b.rows)
          \/ /\ MinIndex(rows, a.rows) = MinIndex(rows, b.rows)
             /\ \/ Place(ByName, a.rule) < Place(ByName, b.rule)
                \/ a.rule = b.rule /\ Cardinality(a.rows) > Cardinality(b.rows)

Overlap(a, b) == a.rows \cap b.rows # {}
===============================================================================
