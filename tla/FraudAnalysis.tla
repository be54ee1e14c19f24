---------------------------- MODULE FraudAnalysis ----------------------------
(* payment_fraud.py and archive_fraud.py: the live payment history, fetched   *)
(* page by page from /bin/sql, or an archived export, read in one piece, is    *)
(* searched for fraud incidents; the rows of those selected are the answer.   *)
(* The history serves a preflight of run_agent, which closes the trial with   *)
(* the answer (agent.py), or a call of the model, which sees the payload.     *)
(* Times are minutes, amounts units of 5 000 cents (FraudRules).              *)
EXTENDS FraudRules, Lists

CONSTANTS
    Histories,    \* tables payment_transactions a trial may meet
    Exports,      \* contents of an archive export
    PageSize,     \* PAYMENT_FRAUD_PAGE_SIZE
    MaxOffset     \* the offsets of the pages stay below it (100 000)

\* A source is a sequence of rows; "row" is well formed, "malformed" does not
\* parse and "unnamed" has no id.
ASSUME SourceAssumption ==
    \A source \in Histories \cup Exports :
      /\ source \in Seq({source[i] : i \in DOMAIN source})
      /\ \A i \in DOMAIN source :
        /\ source[i].form \in {"row", "malformed", "unnamed"}
        /\ source[i].index = i
        /\ source[i].time \in Nat /\ source[i].amount \in Nat /\ source[i].id \in Nat
        /\ \A j \in DOMAIN source : source[j].id = source[i].id => i = j
ASSUME PageAssumption == PageSize \in Nat \ {0} /\ MaxOffset \in Nat

VARIABLES
    asker,        \* who wants the analysis: "preflight", "call" or "export"
    source,       \* the table or file as it is stored
    pc,
    offset,       \* of the next page
    rows,         \* rows parsed so far
    skipped,      \* some row was malformed
    warning,      \* the fetch result carries a warning
    remaining,    \* candidate incidents not looked at yet
    candidates, selected,
    answer        \* the payload that was reported, if one was, as a sequence

fetchVars == <<offset, rows, skipped, warning>>
detectVars == <<remaining, candidates, selected>>
vars == <<asker, source, pc, fetchVars, detectVars, answer>>

-------------------------------------------------------------------------------
(* City hops: payments of one group in several cities too quickly to travel.  *)

HopWindow == 10
HopAlone == 4             \* rows from which a hop stands for itself
HopBatch == 3             \* short hops that make a campaign
BatchWindow == [history |-> 180, export |-> 90]
PairGap == 10             \* between the starts of two customer pairs
ShortMinTotal == Hundred
CustomerMinTotal == 1     \* EUR 50
SignalAloneTotal == 10 * Hundred

\* The order of (created_at, row_id).
BeforeById(rs, i, j) ==
    \/ rs[i].time < rs[j].time
    \/ /\ rs[i].time = rs[j].time
       /\ rs[i].id < rs[j].id

\* A group falls into chains where the gap to the row before exceeds the window.
Heads(rs, G) ==
    {i \in G : ~ \E j \in G : BeforeById(rs, j, i) /\ rs[i].time - rs[j].time <= HopWindow}

Chain(rs, G, head) ==
    {j \in G : /\ ~ BeforeById(rs, j, head)
               /\ ~ \E h \in Heads(rs, G) \ {head} :
                     BeforeById(rs, head, h) /\ ~ BeforeById(rs, j, h)}

IsHop(rs, W) == Cardinality(W) >= 2 /\ Cardinality(Each(rs, W, "city")) >= 2

Hops(name, rs, windows) == {Incident(name, W) : W \in {X \in windows : IsHop(rs, X)}}

ChainHops(name, rs, groups) ==
    UNION {Hops(name, rs, {Chain(rs, G, h) : h \in Heads(rs, G)}) : G \in groups}

\* _live_city_hop_incidents: one customer with one payment method or device.
LiveHops(rs) ==
    ChainHops("live_customer_city_hop", rs,
        UNION {Groups(rs, G, "payment") \cup Groups(rs, G, "device") :
                  G \in Groups(rs, DOMAIN rs, "customer")})

\* _archive_city_hop_incidents: one customer on channels of its own.
CustomerHops(rs) ==
    ChainHops("archive_customer_city_hop", rs, Groups(rs, Owned(rs, DOMAIN rs), "customer"))

\* _archive_signal_city_hop_incidents: one payment method or device.
SignalHops(rs) ==
    UNION {Hops("archive_signal_city_hop", rs,
                {WindowFrom(rs, BeforeById, G, i, HopWindow) : i \in G}) :
           G \in Groups(rs, Owned(rs, DOMAIN rs), "payment")
                 \cup Groups(rs, Owned(rs, DOMAIN rs), "device")}

\* _archive_high_value_two_city_incidents
TwoCityOf(name, rs, groups) ==
    {Incident(name, W) :
        W \in {X \in UNION {{WindowFrom(rs, BeforeById, G, i, 60) : i \in G} : G \in groups} :
                  /\ Cardinality(X) >= 3
                  /\ Cardinality(Each(rs, X, "city")) >= 2
                  /\ Total(rs, X) >= 15 * Hundred}}

TwoCity(rs) ==
    TwoCityOf("archive_high_value_customer_twocity", rs,
              Groups(rs, Owned(rs, DOMAIN rs), "customer"))
    \cup TwoCityOf("archive_high_value_payment_twocity", rs,
                   Groups(rs, DOMAIN rs, "payment"))
    \cup TwoCityOf("archive_high_value_device_twocity", rs,
                   Groups(rs, Owned(rs, DOMAIN rs), "device"))

Start(rs, incident) == Min(Each(rs, incident.rows, "time"))

\* _batched_short_city_hop_incidents: the short hops of some dense batch.
Batched(rs, short, window) ==
    LET From(g) == {h \in short : Start(rs, h) - Start(rs, g) \in 0 .. window}
    IN  UNION {B \in {From(g) : g \in short} : Cardinality(B) >= HopBatch}

Uncovered(rs, hops, strong) ==
    {h \in hops : ~ \E s \in strong : h.rows \subseteq s.rows}

\* _filter_live_city_hop_incidents
KeptLive(rs, strong) ==
    LET hops == Uncovered(rs, LiveHops(rs), strong)
        large == {h \in hops : Cardinality(h.rows) >= HopAlone}
    IN  large \cup Batched(rs, hops \ large, BatchWindow.history)

\* _prune_nearby_customer_city_hop_pairs: of customer pairs whose starts are
\* close the earlier is kept.  The pairs of one start come in the order in which
\* their customers first appear.
Pruned(rs, hops) ==
    LET pairs == {h \in hops : h.rule = "archive_customer_city_hop"
                               /\ Cardinality(h.rows) = 2}
        First(h) == LET c == rs[Min(h.rows)].customer
                    IN  Min({i \in Owned(rs, DOMAIN rs) : rs[i].customer = c})
        Sooner(g, h) == \/ Start(rs, g) < Start(rs, h)
                        \/ Start(rs, g) = Start(rs, h) /\ First(g) < First(h)
        kept == CHOOSE K \in SUBSET pairs : \A h \in pairs :
                    h \in K <=> ~ \E g \in K :
                        Sooner(g, h) /\ Start(rs, h) - Start(rs, g) < PairGap
    IN  hops \ (pairs \ kept)

\* _filter_archive_city_hop_incidents; of two hops with the same rows the
\* customer's is the one that counts.
KeptArchive(rs, strong) ==
    LET customers == CustomerHops(rs)
        signals == {h \in SignalHops(rs) : ~ \E c \in customers : c.rows = h.rows}
        hops == Uncovered(rs, Pruned(rs, customers \cup signals), strong)
        large == {h \in hops :
                    \/ Cardinality(h.rows) >= HopAlone
                    \/ h \in signals /\ Total(rs, h.rows) >= SignalAloneTotal}
        short == {h \in hops \ large :
                    Total(rs, h.rows) >= IF h \in signals THEN ShortMinTotal
                                                          ELSE CustomerMinTotal}
    IN  large \cup Batched(rs, short, BatchWindow.export)

Strong(rs) == StrongCandidates(rs) \cup (IF asker = "export" THEN TwoCity(rs) ELSE {})

Candidates(rs) ==
    LET strong == Strong(rs)
    IN  DropSubsets(rs, strong \cup (IF asker = "export" THEN KeptArchive(rs, strong)
                                                         ELSE KeptLive(rs, strong)))

-------------------------------------------------------------------------------
Init ==
    /\ \/ asker \in {"preflight", "call"} /\ source \in Histories /\ pc = "probe"
       \/ asker = "export" /\ source \in Exports /\ pc = "read"
    /\ offset = 0 /\ rows = <<>> /\ skipped = FALSE /\ warning = FALSE
    /\ remaining = {} /\ candidates = {} /\ selected = {}
    /\ answer = <<>>

\* The schema has both tables.
Probe ==
    /\ pc = "probe"
    /\ pc' = "page"
    /\ UNCHANGED <<asker, source, fetchVars, detectVars, answer>>

\* The probe fails or finds a table missing, or the query of a page fails: the
\* rows fetched so far are analysed.
FetchFails ==
    /\ pc \in {"probe", "page"}
    /\ warning' = TRUE
    /\ pc' = "detect"
    /\ UNCHANGED <<asker, source, offset, rows, skipped, detectVars, answer>>

PageAt(from) == SubSeq(source, from + 1, Min({from + PageSize, Len(source)}))

WellFormed(r) == r.form = "row"

\* Faulty variant: a full page ends the history.
LastPageOrFull(page) == Len(page) <= PageSize

\* A page shorter than the page size is the last one, as is the one at the
\* last offset of the range.
LastPage(page) == Len(page) < PageSize \/ offset + PageSize >= MaxOffset

\* Rows that do not parse are counted for the warning.
FetchPage ==
    LET page == PageAt(offset)
        bad == \E i \in DOMAIN page : page[i].form = "malformed"
    IN  /\ pc = "page"
        /\ rows' = rows \o Kept(page, {i \in DOMAIN page : WellFormed(page[i])})
        /\ skipped' = (skipped \/ bad)
        /\ offset' = offset + PageSize
        /\ IF LastPage(page)
             THEN warning' = skipped' /\ pc' = "detect"
             ELSE UNCHANGED <<warning, pc>>
        /\ UNCHANGED <<asker, source, detectVars, answer>>

\* Faulty variant: bad rows of an export are taken as they are.
ReadExportLenient ==
    /\ pc = "read"
    /\ rows' = source
    /\ pc' = "detect"
    /\ UNCHANGED <<asker, source, offset, skipped, warning, detectVars, answer>>

\* One bad row spoils an export: the helper raises instead of guessing.
ReadExport ==
    /\ pc = "read"
    /\ \A i \in DOMAIN source : WellFormed(source[i])
    /\ rows' = source
    /\ pc' = "detect"
    /\ UNCHANGED <<asker, source, offset, skipped, warning, detectVars, answer>>

\* The read fails or is truncated, or a row is bad.
ReadExportFails ==
    /\ pc = "read"
    /\ pc' = "done"
    /\ UNCHANGED <<asker, source, fetchVars, detectVars, answer>>

Detect ==
    /\ pc = "detect"
    /\ candidates' = Candidates(rows)
    /\ remaining' = candidates'
    /\ pc' = "select"
    /\ UNCHANGED <<asker, source, fetchVars, selected, answer>>

\* select_non_overlapping_incidents takes the candidates by falling score.
NextInLine(c) == c \in remaining /\ ~ \E d \in remaining : Ahead(rows, d, c)

Meets(c) == \E s \in selected : Overlap(s, c)

Select(c) ==
    /\ pc = "select"
    /\ NextInLine(c)
    /\ remaining' = remaining \ {c}
    /\ selected' = IF Meets(c) THEN selected ELSE selected \cup {c}
    /\ UNCHANGED <<asker, source, pc, fetchVars, candidates, answer>>

Flagged == UNION {s.rows : s \in selected}

\* The payload; without rows the history states no total.
Payload == [ids |-> Each(rows, Flagged, "id"), total |-> Total(rows, Flagged),
            states |-> asker = "export" \/ Flagged # {}, warned |-> warning]

\* A preflight without references leaves the task to the model; with them it
\* closes the trial whether or not the payload carries a warning.
Report ==
    /\ pc = "select" /\ remaining = {}
    /\ answer' = IF asker = "preflight" /\ Flagged = {} THEN <<>> ELSE <<Payload>>
    /\ pc' = "done"
    /\ UNCHANGED <<asker, source, fetchVars, detectVars>>

Next == \/ Probe \/ FetchFails \/ FetchPage \/ ReadExport \/ ReadExportFails
        \/ Detect \/ (\E c \in remaining : Select(c)) \/ Report

Spec == Init /\ [][Next]_vars
-------------------------------------------------------------------------------
(* Properties.                                                                *)

\* The analysis works on rows of its source, each parsed once, and on incidents
\* over these rows (payment_fraud.py:90-93, fraud_rules.py:40-45).
TypeOK ==
    /\ pc \in {"probe", "page", "read", "detect", "select", "done"}
    /\ offset \in Nat /\ {skipped, warning} \subseteq BOOLEAN
    /\ \A i \in DOMAIN rows : rows[i] = source[rows[i].index] /\ WellFormed(rows[i])
    /\ \A i, j \in DOMAIN rows : i < j => rows[i].index < rows[j].index
    /\ selected \cup remaining \subseteq candidates
    /\ \A c \in candidates : c.rows \subseteq DOMAIN rows /\ c.rows # {}

\* An answer without a warning rests on every payment the pages can reach: no
\* failed page, no row that did not parse and no page cut off early went
\* unnoticed (payment_fraud.py:187-237).
Reach == ((MaxOffset + PageSize - 1) \div PageSize) * PageSize
UnwarnedIsComplete ==
    pc = "done" /\ answer # <<>> /\ ~ answer[1].warned =>
        \A i \in DOMAIN source : asker = "export" \/ i <= Reach =>
            \/ source[i].form = "unnamed"
            \/ \E k \in DOMAIN rows : rows[k] = source[i]

\* Dropping repeated and contained incidents drops no suspicion: every window
\* that matches a rule lies within a candidate (drop_subset_incidents).
MatchesAreCandidates ==
    pc \in {"select", "done"} =>
        \A m \in Strong(rows) : \E c \in candidates : m.rows \subseteq c.rows

\* No payment is counted twice and none is lost to a weaker incident: selected
\* incidents share no row, and a candidate passed over meets a selected one that
\* is not weaker (select_non_overlapping_incidents).
SelectionIsMaximal ==
    /\ \A s, t \in selected : s # t => ~ Overlap(s, t)
    /\ \A c \in candidates \ (remaining \cup selected) :
          \E s \in selected : Overlap(s, c) /\ ~ Stronger(rows, c, s)

\* A flagged payment is never accused on account of missing data or of one city:
\* another flagged payment of the same customer, method or device was made in
\* another city (fraud_rules.py:238-241, payment_fraud.py:262-266).
FlaggedHavePartner ==
    pc = "done" => \A i \in Flagged : \E j \in Flagged :
        /\ rows[i].city # rows[j].city
        /\ \E key \in {"customer", "payment", "device"} :
              rows[i][key] = rows[j][key] /\ rows[i][key] # Blank

\* What payment_fraud.py:29 says of the helper: "always scans the full payment
\* history".  With what it found the preflight answers the task.
FullScan ==
    asker = "preflight" /\ answer # <<>> => Len(rows) = Len(source)
===============================================================================
