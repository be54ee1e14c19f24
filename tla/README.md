# A verification project for the ecom exoskeleton agent

The repository is a Python agent for a shop benchmark. A process (`main.py`)
starts a benchmark run, works through its trials in batches of threads, and for
each trial calls `run_agent` (`agent.py`). A trial is one task in natural
language and one remote *runtime*: a file tree, a few commands and a SQL
database behind an RPC interface. `run_agent` talks to that runtime and to
language models, and must submit exactly one *completion*: a message, an
outcome, and references to the documents and records that support them.
Most of the code is deterministic scaffolding around the model: preflights that
answer or deny before the model is asked, helpers with typed results, a ledger
that carries their evidence into the completion, and rewrites of the completion.

This directory holds TLA+ modules of that scaffolding, TLC configurations that
check them on small instances, and TLAPS proofs of all their safety properties,
for every value of the constants. `PROJECT.json` maps each definition to its source
lines.

## 1. Inventory

| Component | State | Operations | What is hard about it | What makes it correct |
|---|---|---|---|---|
| runtime calls, `runtime_calls.py` | attempts of the open call | `runtime_call` and its typed wrappers: default timeout, one retry | abandoned requests execute later; a retry repeats a write, a deletion, an answer | a result stands for an execution; at most two executions; what a result says is all that happens, but for a first attempt given up; a timed call returns |
| classifier, `task_classifier.py`; guard, `runtime_mutation_guard.py` | none (one result per trial) | `classify_task`, `_normalize_classification`, `raw_file_mutation_allowed` | runs in a thread beside the startup tools; its failure looks like an innocent task | an override attempt is denied before anything is changed |
| trial, `agent.py` (`run_agent`) | message history, seen and loaded documents, synthetic call counter, step, result | startup tools, tree follow-ups, ten preflights, tool dispatch, completion, fallback | every call may fail; calls after a completion in the same response; malformed calls; a preflight that deletes in the middle of a cascade that denies | one answer, nothing after it, a history the API accepts, termination |
| ledger and completion pipeline, `evidence_ledger.py`, `agent.py`, `payment_recovery*.py`, `doc_autocite.py`, `answer_formatter.py` | reference and message buckets, loaded documents, the completion | `merge_*`, nine rewrites, review, closed-retry rewrite, retry time, discount cap, formatter | several calls of one helper; a rewrite that undoes an earlier one; model calls and reads that fail in the middle | evidence reaches the answer; an answer to a lockout never claims success and states the retry time unless its draft bears another |
| submission references, `submission_refs.py` | the rows while they are computed (twice per completion) | extension from task, steps, uploads and message; alignment with the answer; ownership, privacy and exclusion filters; normalization | lookups of identity, owner and product that fail one by one; a filter undone by a later extension; an unbounded read | a refusal cites no foreign record; none is added automatically; a count cites no more than it says; exclusions hold; evidence is not lost |
| benchmark run, `main.py` | trial plan, outputs, artifact | planning, batches, interrupt, submission, artifact | interrupts while threads run; filters applied before or after the start | every trial that was worked on is ended once before the run is submitted; the artifact shows what each agent returned under its own trial |
| preflight helpers, `security_preflight.py`, `refund_preflight.py`, `checkout_preflight.py`, `staff_tools.py` | none (what each reads of identity, records and files) | one function each, in the order of the cascade | each asks `/bin/id` and reads records anew; every call may fail, and a failed one looks like a record that is not there | no foreign record and no employee profile is cited; a question is asked only where there is a choice, and is asked then |
| tmp cleanup, `tmp_cleanup.py` | files of the runtime | list, find, delete | a deletion that fails midway, or that takes effect although its call timed out | only matching files are deleted; an answer means all are, and lists what was deleted |
| runtime records, `runtime_state.py` | none | listing and lookup of JSON records over alternative roots | unreadable records are skipped | the record found is the one asked for |
| catalogue and receipt helpers, `catalog_tools.py`, `receipt_price.py` | none | parsing of constraints, matching, availability, OCR arithmetic | model output as input | qualification of products, totals |
| fraud analysis, `fraud_rules.py`, `payment_fraud.py`, `archive_fraud.py` | rows fetched, candidate and selected incidents | probe, paging, parsing; window rules and city hops; dropping and selection; payload | a page that fails midway; incidents that contain or overlap each other; rows without a fingerprint | an answer without a warning rests on all rows; no suspicion is dropped for a weaker one; nobody is accused without a partner |
| dispatch planner, `dispatch_planner.py` | candidates, best combination so far | reading of the wave, route search, joint assignment | packages share lanes, convoys cost extra trips, only four routes per package are considered | the plan is the best of all assignments and serves every package |
| manager verification, `manager_verification.py` | none | SQL lookup, file system fallback | asks for the identity a second time | a profile is cited to staff only |
| configuration, scripts | none | environment, reports | little | - |

How they interact. `main` starts threads, each runs one trial; trials share
nothing. `run_agent` starts the classifier thread and waits for it after the
startup tools; the classification steers the preflights and the guard of
write and delete. Every runtime access goes through `runtime_call`. Helpers
called by the model return results that `run_agent` merges into the trial's
ledger; a reported completion passes through the ledger's rewrites, then
through `submission_refs`, and is dispatched as one `answer` call.

## 2. Modules

| Module | Models | Composes |
|---|---|---|
| `AtLeastOnceCall` | abstract: what a caller of `runtime_call` may rely on | - |
| `RuntimeCalls` | `runtime_calls.py` over a network that loses and delays | implements `AtLeastOnceCall` |
| `TaskClassifier` | normalization of the classification, guard of raw mutations | - |
| `TrialOutcome` | abstract: what `main` may rely on when it calls `run_agent` | - |
| `AgentRun` | `run_agent` | extends `TaskClassifier`; its runtime calls are `AtLeastOnceCall` in one step; implements `TrialOutcome` |
| `EvidenceLedger` | the ledger and all rewrites of a completion | the inside of `AgentRun`'s `Completion` |
| `SubmissionRefs` | `submission_refs.py`, from the references of a completion to those submitted | what `AgentRun`'s `Submit` dispatches, after `EvidenceLedger` |
| `Preflights` | the preflights that look at identity, records and files: `security_preflight.py`, `refund_preflight.py`, `tmp_cleanup.py`, `staff_tools.py`, `checkout_preflight.py`, `manager_verification.py`, over `runtime_state.py` | what `AgentRun`'s `Preflights` leaves open: how each decides |
| `FraudRules` | `fraud_rules.py`, as operators | - |
| `FraudAnalysis` | `payment_fraud.py`, `archive_fraud.py` and the preflight that calls them | extends `FraudRules`; its result is one of `EvidenceLedger`'s |
| `DispatchPlanner` | `dispatch_planner.py` | the first preflight of `AgentRun` |
| `Cascade` | `run_agent` from the planner to the model's turn | `DispatchPlanner`, then `Preflights` where there is no plan |
| `BenchmarkRun` | `main.py` | its `RunAgent` step is `TrialOutcome` |
| `Lists` | list comprehensions of Python, as a recursive function | - |
| `ListProofs` | what a comprehension returns, that sums are numbers, and induction over numbers, for the other proofs | extends `Lists` |
| `RuntimeCallsProofs`, `AgentRunProofs`, `BenchmarkRunProofs`, `EvidenceLedgerProofs`, `SubmissionRefsProofs`, `PreflightsProofs`, `FraudAnalysisProofs` | theorems | each extends the module it is named for; `PreflightsProofs` extends `Cascade`, hence also `DispatchPlanner` |
| `MC*` | instances for TLC | |

How state and actions correspond to the code:

* **RuntimeCalls.** `tries` and `outcome` are the local state of
  `runtime_call` (which attempt, what it returned or raised), `requests` and
  `replies` the network, `effects` what the runtime did. `Issue`, `Receive` and
  `Expire` are the client, `Disconnect` is a transport that fails while the
  request is on its way or executed, `Conclude` the `try`/`except`. A timeout
  of 0 is `None`. A reply may report a failure although the request took effect.
* **AgentRun.** The variables are the locals of `run_agent`. `StartupCall`,
  `StartupError`, `StartupFollowup` are one automatic call each;
  `ClassifierReturns` is the thread; `AwaitClassifier` is `future.result()`;
  `Preflights` is the order of the cascade, `Applies` what each preflight asks
  of task and classification before it looks at the runtime, and whether it then closes is open
  except for an override attempt, whose denial depends on nothing else; `FinalizePreflight` is the
  inner function of that name. `Ask` is a response with its function calls; one
  action per kind of call ends in `EndCall`, the append of its output;
  `Completion` drops the rest of the response; `ReadUpload` and `RereadUpload`
  are the reads without a deadline that `submission_refs` may make before the
  answer and, when the references are computed again, after it; `Fallback` is the
  end of the budget. Text and arguments of calls are abstracted to their kind.
* **EvidenceLedger.** `refs` and `text` are the buckets, `log` (history) the
  helper results in order. The nine `Apply*` operators are the nine rewrites of
  `apply_to_completion` in its order. `Review`, `ReadPolicy`, `StampMessage`,
  `CapMessage` and `Format` are the remaining steps, each with its failing
  branch. A text is the set of claims that the code's regular expressions look for;
  a timestamp in it is the retry time of the payment or any other, which the code
  does not tell apart. A review may come without a message, and a payment may be
  named by the task, a row or a step.
* **SubmissionRefs.** `rows` is `row_refs`, `denied` `protected_record_denial`,
  `identity` `user_id` and `roles`; `pc` walks through the function in the order
  of its statements, one action per `if` (or per call of a filter) between two
  lookups. A lookup of several records yields any subset of those that exist,
  as an unreadable record is skipped; `/bin/id` yields the identity or nothing at
  each of its calls. `unowned` and `excluded` are history. A reference is a record
  with its form: only references that the model cites can have the short form.
  What the regular expressions find in a text is a field of the request.
* **Preflights.** `pc` walks through `run_agent`'s cascade, one action per
  preflight and, for the cleanup, one per deletion. `Identity` is one call of
  `/bin/id`, `Readings` one listing of records: what cannot be read is left out.
  `RecordsForCustomer` is `records_for_customer` with its fallback from the
  customer's directories to the flat ones. `missed` (history) says whether a call
  failed. What the classifier made of the task is `task.marks` and its fields. A
  deletion has the outcomes that `RuntimeCalls` shows of a call with one retry.
  A basket may have no owner: the check of a named basket lets it pass.
* **FraudAnalysis.** `rows`, `skipped`, `warning` are the locals of
  `_fetch_payment_rows`, one action per page; an export is read in one. The rules
  are sets of windows: `Candidates` are the incidents after
  `drop_subset_incidents`, `Select` takes the next in the order of scores.
  Scores are exact fractions where the code has floats. Times are minutes and
  amounts units of EUR 50, in which all thresholds are whole numbers.
* **DispatchPlanner.** `candidates` is `candidate_sets`, one `TryCombination` is
  one turn of the `product` loop, `best` is `best_routes`. A route is a sequence
  of positions in the lanes file, so that lanes that share an id stay apart
  where the code keeps them apart. `Sorted` is a stable sort by a key: the position in
  the file (or the route itself) ends every key. `NextChoice` is the step of
  `itertools.product`.
* **Cascade.** `PlanFirst` is a step of the planner for a task that names a wave,
  `Others` one of the preflights, which are reached only without a plan. The relative date
  and the city availability, which lie between them, are in `AgentRun` only.
* **BenchmarkRun.** `mpc` and `tpc` are the program counters of the main thread
  and of the trial threads; `outputs` is `trial_outputs`; `artifact` the file. A
  case of the artifact is what it shows of the agent's result and whose error it
  has: for a trial that the harness lists it is the error of the harness, and the
  one the thread caught is dropped (`main.py:202`).

## 3. Runs

All runs finish within a minute or two on two workers.

| Run | Instance | What it shows |
|---|---|---|
| `runtime_calls` | three calls: default timeout, own timeout, method without timeout | results are real, at most two executions, nothing executed beyond what a result says, termination of timed calls, refinement of `AtLeastOnceCall` |
| `agent_run` | five tasks, two documents, one command, two responses of up to two calls | history, one answer, no change before a denial, termination, refinement of `TrialOutcome` |
| `agent_run_submission` | the same, one response | a trial that ends without a submission (section 6) |
| `benchmark_run` | three trials, batches of two, two filters, matching and short task lists | every trial ended before submission, filing of outputs, filter, termination |
| `benchmark_run_recorded` | the same | outputs lost after an interrupt (section 6) |
| `evidence_ledger` | two helper calls out of six results, sixteen completions, two policies | evidence reaches the submission, lockouts |
| `evidence_ledger_text` | the same | the text of the last call stands for all (section 6) |
| `submission_refs` | 24 refusals, 18 lookups and 360 counts of a customer, a guest or an employee, over three products, two baskets, payments and returns of two customers, an account, an upload, an employee and a store | what a refusal may cite, what may be added, counts, exclusions, no loss of evidence |
| `submission_refs_denied` | the same | a security refusal with records (section 6) |
| `before_the_model` | the planner on waves of up to three packages over seven nodes (shared lanes, convoys, ties, more than four routes, six hops, packages and lanes of one id, rows that do not parse); the preflights on 508 cases (tasks of each kind with what they name, asked by customers, employees and guests over records of two customers and of none, in either layout, and four files); a task that names a wave and files to delete | the plan against all assignments of all routes; citations, questions, counts, chosen baskets and deletions, whichever calls fail |
| `fraud_analysis` | histories and exports of up to seven rows built around each rule, pages of two rows below an offset of five | completeness of unwarned answers, dropped and selected incidents, flagged rows |
| `fraud_analysis_full` | the same, without a limit that is reached | an answer from half a history (section 6) |

Why the bounds are enough:

* Calls of a trial are sequential, so three calls show every overlap of an
  abandoned request with its successors; the retry bound is 2 in the code.
* In `AgentRun` two calls per response give a completion followed by a dropped
  call, and a malformed call beside a good one; two responses give the reminder,
  the second request with a history, and the last response of the budget. The
  tasks are chosen so that each preflight applies to some task and two tasks
  apply to an earlier and a later member of the cascade.
* In `BenchmarkRun` the second batch is not full, and two of three trials match
  the filter.
* In `EvidenceLedger` two calls show accumulation, replacement and both orders;
  the completions cover every type that any rewrite treats.

* In `SubmissionRefs` two products can be excluded, asked for and cited in either
  order around a count of one; a record of each owner is cited and named; the
  baskets are two because the basket filter acts on two. Every lookup is free to
  find any part of what it is asked for.

`CHECK_DEADLOCK FALSE` stands in every configuration: each of these systems ends.

* In `Preflights` two records of a kind per customer make a choice and one does
  not; three deletions show a failure between two others.
* In `FraudAnalysis` every rule has a history at its threshold, pages are full,
  part full and empty, and the last offset is reached. In `DispatchPlanner` every
  row of a wave is there for a branch of the code: a fifth route, a sixth hop, a full convoy.

Final states of `Preflights` (476, before the ownerless basket was added), `FraudAnalysis` (36 412) and `DispatchPlanner`
(233) were compared with what the Python functions return for the same input, the
runtime replaced by a stub: they agree.

**Fairness.** `RuntimeCalls` assumes only that the client's own timer runs out.
`AgentRun` assumes that the program gets to its next statement (`WF_vars(Timely)`)
where the call before it has a deadline: a runtime call has the default timeout and
returns by `RuntimeCalls!TimedCallsReturn` unless `AGENT_RUNTIME_TIMEOUT_MS` is 0, and
the model clients have a timeout of their own. The read of an upload inside
`submission_refs` has none, and no fairness: a trial may stay in it for ever.
`Terminates` therefore has both as its premises, a default timeout that is not 0
and a trial that does not stay in such a read (section 6). `BenchmarkRun` assumes that the main thread and
each trial thread are scheduled and that `run_agent` ends, which is
`AgentRun!Terminates` with its premises. The other modules have no liveness property and no
fairness: they are straight runs of steps, each of which may fail.

## 4. Proofs

Proved with TLAPS, for every value of the constants under the named assumptions:

* `RuntimeCallsProofs` (`TimeoutType`): type correctness, `ResultTookEffect`,
  `AtMostTwice`, `ResultIsFinal`, and that every step of `RuntimeCalls` is a
  step of `AtLeastOnceCall` or a stutter. The inductive invariant relates each
  request and reply to an attempt that was made and bounds the executions by
  the attempts that are no longer in the network; without it a reply could
  speak of an execution that never was.
* `AgentRunProofs` (`RunAssumption`): type correctness, `ContextWellFormed`,
  `AnsweredOnce`, `OverrideChangesNothing`, `ReadDocsAreLoaded`,
  `NothingAfterAnswer`, and the refinement of `TrialOutcome`. The inductive
  invariant is a conjunction of named parts: *Control* (an answer has been
  dispatched only where the program counter says so), *Guarded* (an override
  attempt never gets past the security preflight, and nothing was changed
  before it), *Reading* (what was read is seen), *History* (the history is
  paired except for the calls of the current response that are left to run,
  and ids are below their counters). `ContextWellFormed` alone is not inductive: it
  says nothing of the calls that still lack their output.

* `ListProofs`: for any list and any condition, `Kept` returns the elements at
  the chosen positions, each once and in order. `BenchmarkRun`, `FraudAnalysis`
  and `SubmissionRefs` are written with it instead of with folds.
* `BenchmarkRunProofs` (`BatchAssumption`, `OrderAssumption`): type correctness,
  `EndedBeforeSubmit`, `RecordedInFull`, `RequestedAreTried`, for any number of
  trials, batches, filters and lists of tasks. `EndedBeforeSubmit` is not
  inductive: it speaks of the end. The invariant ties every thread's program
  counter to what it has done (*Threads*), says that the plan has every trial asked
  for once (*Plans*), that exactly the trials of the batches so far have a thread and
  none runs between batches (*Batches*), that outputs are those of finished threads and
  none is missing after a batch that was not interrupted (*Collected*), that the cases
  of the artifact were made from these outputs (`RecordsOf`), and how far the
  main thread is (*Closing*). `OrderAssumption` is what the code relies on without checking: lists
  that are as long have the tasks in the order of the trials. Without it a filter tries
  other trials than those asked for.
* `EvidenceLedgerProofs` (`LedgerAssumption`): type correctness,
  `EvidenceIsSubmitted`, `LockedOutIsUnsupported`, `LockoutTimeIsStated`, for any
  references, documents, results and completions. The invariant says that the
  buckets hold what the calls so far gave (*Accumulated*), that a completion
  before its review has the outcome that was reported (*AsReported*), and how far the
  search for the retry time has come (*Searched*).
* `SubmissionRefsProofs` (`RefsAssumption`): type correctness and all five
  properties, for any requests, records and owners. The invariant has a part for
  each hazard that holds from the step that establishes it to the end: the
  rows of a customer's records are those cited or those that may be cited
  (*ScopedRows*), what a refusal keeps is the customer's own or of unknown owner
  (*RefusalSound*), what was cited stands before what the code found
  (*InFront*, on which the cut of a count rests), the cut holds through the later
  steps (*Counted*), excluded products stay away (*ExcludedGone*), employees were
  replaced (*Replaced*), and what was cited is still there (*Survivors*). Most
  steps are cases of one lemma about a step that adds the canonical references
  of some records and loses some.
* `PreflightsProofs` (`CaseAssumption`): all five properties, for any cases.
  `CleanupIsExact` is not inductive: it says what was deleted at the end, not
  what is left to do. Its invariant adds *Untouched* (no earlier preflight deletes),
  *Halfway* (the files that are gone and those still to delete make up what was wanted,
  and a file is missing from the list only after a failed call) and *Ended* (only
  the cleanup answers with a list of deletions). The other four follow from an
  invariant that splits `DecisionsFitRecords`: what an answer bears
  (*RealChoice*, *FullCount*) is a condition on the answer a preflight closes
  with, and *Settled* carries along the cascade that a preflight which was passed with no
  failed call had no choice to ask about.
* `PreflightsProofs`, second part (`WaveAssumption`, which says only that rows carry
  integers): `PlanIsBest` and `PlanServesAll`, for files of any length and
  any integers in them, negative ones included. `PlanIsBest` says nothing while the search
  runs, so its invariant *SearchInv* does: of the combinations that come before
  the next one in the order of the product, none is better than the best so
  far. It is kept because `NextChoice` goes to the very next combination
  (`NextIsNext`: whatever comes before the new one is the old one or came before it) and
  because, where no package can turn, all others have come before (`NothingLeft`); that
  the order of scores is transitive carries the comparison over to a new best.
  Under it lie three facts about the operators: keys are ordered strictly and totally, so
  that a sorted list has every thing once and the lesser first (`SortedInOrder`); the
  breadth-wise definition of the search finds exactly the routes that
  `AllRoutes` describes (`SearchIsComplete`); and each rival of the plan is
  a candidate (`RivalsAreCandidates`), as with one lane to an id no route is dropped as a
  repetition and the best of many is among the first four.
  `CascadeKeepsParts` says that the planner and the preflights behave in the cascade, which
  the run checks, as they do alone, so that all these invariants hold of it.
* `FraudAnalysisProofs` (`SourceAssumption`, `PageAssumption`): type correctness
  and all four properties, for any histories, exports and page size.
  `UnwarnedIsComplete` rests on an invariant that accounts for every
  position of the source below the offset: parsed, malformed or skipped with a
  page. `MatchesAreCandidates` needs that dropping repeated and contained incidents
  leaves one that covers what was dropped, by induction on a rank of
  incidents. For `SelectionIsMaximal` the invariant says that
  every candidate already looked at is selected or meets a selected one at least as
  strong, *and* that nothing still in line is stronger than what was selected.

Inductions over lists, finite sets and folds are done by hand: the library's
theorems take the predicate as a parameter, which the provers cannot instantiate,
so `ListProofs` proves that a set of numbers with 0 and every successor has all of them, and
each induction states its claim as membership in such a set.

What the proofs changed in the models, beyond their form:

* `CountIsGrounded` said that a count takes its products from those cited whenever
  enough were cited. A crosslist report has dropped the products cited before it
  counts; the property now excepts it.
* `OnlyCitable` and `RefusalCitesNoForeign` need that a guest has no role but a
  guest's and that an id is not a record of two kinds: both are now in `RefsAssumption`.
* `ProfilesStayInside` does not hold of an identity without a user that has the
  role of a customer or none at all (section 6): the property now says so.
* The check of a manager joins the employee to the record of the store; the
  model took any store an employee names.

* `DispatchPlanner` took due times, margins and costs as natural numbers, while `int()`
  accepts a sign: they are integers now, and nothing in the proofs needs more.

The assumptions are facts about the data of the runtime and about the
arguments of a run; TLC evaluates them for the instance of every run.

`NothingAfterAnswer` is proved and not a property of a run: it follows the
program counter that `AnsweredOnce` and `ImplementsOutcome` already check.

Only model-checked: the liveness properties (`TimedCallsReturn`, `Terminates`,
`RunEnds`), which are out of the prover's reach. Every safety property that a
passing run checks is also proved. TLC had checked `SearchInv` on the
instance of the run before it was proved.

## 5. What is not modelled

* What language models answer: an input, chosen freely.
* How the catalogue and receipt helpers decide (`catalog_tools.py`,
  `receipt_price.py`): parsing of constraints from free text, scoring of matches and
  arithmetic of OCR lines. What they give to the ledger is in `EvidenceLedger`.
* The preflights for relative dates and city availability: `AgentRun` has their
  place in the cascade, `catalog_tools.py` their decision.
* The tolerant lookup itself (`runtime_state.py`: variants of ids, alternative
  roots, merging of duplicates): a lookup finds its record or nothing. `Preflights`
  has one layout per kind of record; in a mixed one the flat directory is ignored. The second
  computation of the references, after the submission, is not compared with the first.
* Wording of messages, regular expressions, SQL text, logging, tracing.
* `config.py` (its values are constants), `scripts/` (offline reports).

## 6. Where the code and its documentation differ

1. `EndsWithSubmission`. `articles/ARCHITECTURE.md:95` says that every trial must
   end with a submission. A failing model call, a failing deletion in the
   cleanup preflight, or a failing catalogue parser leaves `run_agent` by an
   exception without one.
2. `StartedAreRecorded`. `main.py` says the artifact keeps the outputs of every
   started trial. An interrupt loses those of the current batch.
3. `TextCoversEvidence`. `evidence_ledger.py` says that each bucket merges
   across calls. The message buckets are overwritten, so that a request split over
   two calls is answered with the second text under both sets of references.
4. `FullScan`. `payment_fraud.py` says that its helper always scans the full
   payment history. When a page fails it returns what it has with a warning, and
   the preflight of `run_agent` closes the trial with it as a success.
5. `RefusalCitesOnlyDocs`. `articles/ARCHITECTURE.md:271` says that a security
   refusal collapses the evidence to documents and that a protected record must not be
   cited. The code does so when the refusal is marked as, or found to be, about another
   customer's record; any other keeps its rows, among them records whose owner could
   not be found (`submission_refs.py:718`, `submission_refs.py:1275`).
   `RefusalCitesNoForeign` states what does hold.

Differences without a run of their own:

* `articles/ARCHITECTURE.md:95` says that no trial may hang and line 133 that
  calls to the environment have a hard timeout with one retry.
  `upload_receipt_sku_refs` reads uploads by a direct `vm.read`
  (`submission_refs.py:482`), and the client is made without a timeout.
  `Terminates` states what does hold; without its premise about that read TLC
  finds a trial that stays in it.
* `articles/ARCHITECTURE.md:242` says that it is important to name the exact unlock
  time and that deterministic code substitutes it. A message that bears any timestamp
  stays as it is (`payment_recovery.py:61`), be it that of the failed attempt.
  `LockoutTimeIsStated` states what does hold; without its exception TLC finds a
  refusal with the other time.
* `tests/test_submission_refs.py:964` tests that an excluded product is removed
  although the model cites it; the filter compares paths before they are
  canonical, so that one cited as `/proc/catalog/<SKU>.json` comes back.
  `ExcludedStayOut` states what does hold.
* `doc_autocite.py:74` speaks of documents the trial actually read; one that a tree
  lists is registered before it is read, and stays so if the read fails.
* `task_classifier.py:318` says that the empty classification turns preflights
  into no-ops; five of them look at the task text and may still close the trial.

Observed while modelling, without a statement that contradicts it: the fraud
total replaces the message of a completion of any type and outcome when the task
asks for an amount; a city answer replaces all rows cited before it; a
completion turned into a refusal by the closed-retry rewrite has not been
reviewed, hence gets no retry time from the policies; the formatter may rewrite
any successful message; documents and archive rows are submitted as cited, without the
`stat` that the other records get; a trial that
the harness lists has the error of the harness in the artifact, and the one its thread
caught is lost (`main.py:202`); a skipped trial is started and never ended; a basket
without an owner is not refused as another's; the payment of a cited return is added to a refund whoever owns it; products
preserved for a negative availability answer are removed again by the last
filter when anything else is cited; employee records stay in a customer's
answer when `/bin/id` failed; an identity without a user but with the role
customer, or with no role, gets the employee profile from the SQL variant of the manager check and not from the
file system one; a named guest is not refused an employee's contact; when the
second `/bin/id` of a discount refusal fails, its references contain the manager's
profile (`ProfilesStayInside` is about refusals whose calls succeeded), which the
submission filter removes only if it gets an identity itself; packages that share an
id all travel on the route of the last; a package without a route voids the plan
for all; a cleanup that raises half way has deleted files and submits nothing;
above 100 080 payments the history is cut without a warning.

## 7. Plan

Done, in this order: `RuntimeCalls` and its proofs, `TaskClassifier`,
`AgentRun` and its proofs, `BenchmarkRun`, `EvidenceLedger`, `SubmissionRefs`,
`FraudRules`, `FraudAnalysis`, `DispatchPlanner`, `Preflights`, `Cascade`; then the proofs of
all safety properties of `BenchmarkRun`, `EvidenceLedger`, `FraudAnalysis`,
`SubmissionRefs`, `Preflights` and `DispatchPlanner`.

Next, modules: resolution of catalogue constraints (`catalog_tools.py`) and the
arithmetic of receipts (`receipt_price.py`) over small record sets; the second
computation of the references.
