---------------------------- MODULE EvidenceLedger ----------------------------
(***************************************************************************)
(* evidence_ledger.py and the completion pipeline of agent.py: the helpers *)
(* called during a trial leave references and answer texts in the buckets  *)
(* of the ledger; the completion the model reports then passes through the *)
(* ledger, the payment recovery review, the retry timestamp, the discount  *)
(* cap and the answer formatter before it is submitted.                    *)
(*                                                                         *)
(* A reference list is a set here (dedupe_refs removes duplicates; no step *)
(* of this module looks at the order).  A text is the set of claims the    *)
(* code searches for in it, with the number of the call that produced it.  *)
(***************************************************************************)
EXTENDS Naturals, Sequences

CONSTANTS Catalog, Stores, Payments, Records,  \* references, by kind
          Docs,         \* documents below /docs and /bin
          Intents,      \* task types a document grounds (DOC_INTENT_PATTERNS)
          Policies,     \* documents named 3ds, verification or lockout
          Stamped,      \* those that state a retry time for the payment
          Prompts,      \* what is asked: sets of Marks
          Results,      \* what helpers may return
          Reports,      \* completions the model may report
          Rewrites,     \* what a text written by a helper model may claim
          MaxCalls      \* bound on the helper calls of a trial

Refs == Catalog \cup Stores \cup Payments \cup Records

Types == {"availability_count", "availability_lookup", "catalog_lookup",
          "receipt_price_check", "fraud_review", "payment_recovery", "discount",
          "checkout", "count", "refund", "other"}
Outcomes == {"OK", "DENIED_SECURITY", "NONE_CLARIFICATION", "NONE_UNSUPPORTED",
             "ERR_INTERNAL"}

\* amount: _fraud_task_requires_amount_message; archive:
\* _task_has_explicit_archive_export; table: _task_requests_catalog_quote_table;
\* payment: a payment is named.
Marks == {"amount", "archive", "table", "payment"}

\* What the pipeline looks for in texts: a closed retry window, a started
\* recovery, a payment, an outcome token, a percentage, a stated cap, and
\* timestamps: the retry time of the payment or any other.
Timestamps == {"retry", "date"}
Claims == Timestamps \cup {"closed", "started", "payment", "token", "percent", "cap"}

Helpers == {"manager", "fraud", "receipt", "city"}
Buckets == Helpers \cup {"availability_count", "support_note",
                         "availability_lookup", "catalog_lookup"}
TextBuckets == {"fraud", "receipt", "city", "catalog_lookup"}

Messages == [by : TextBuckets \cup {"model", "closed", "review", "retry", "cap",
                                    "formatter"},
             call : Nat, says : SUBSET Claims]
Completions == [type : Types, outcome : Outcomes, docs : SUBSET Docs,
                rows : SUBSET Refs, message : Messages, steps : SUBSET Claims]
CatalogResults == [tool : {"catalog"}, store : SUBSET Stores,
                   count : SUBSET Catalog, matched : SUBSET Catalog,
                   note : SUBSET Catalog]
HelperResults == [tool : Helpers, refs : SUBSET Refs, text : BOOLEAN]

ASSUME LedgerAssumption ==
    /\ Stores \cap (Catalog \cup Payments \cup Records) = {}
    /\ Catalog \cap (Payments \cup Records) = {}
    /\ Intents \in [Docs -> SUBSET Types]
    /\ Stamped \subseteq Policies /\ Policies \subseteq Docs
    /\ Prompts \subseteq SUBSET Marks
    /\ Results \subseteq CatalogResults \cup HelperResults
    /\ Reports \subseteq Completions
    /\ Rewrites \subseteq SUBSET Claims /\ {} \in Rewrites
    /\ MaxCalls \in Nat

VARIABLES
    prompt,    \* the task text
    loaded,    \* tree_read_paths: documents read in this trial
    log,       \* the results of the helpers, in order
    refs,      \* the reference buckets of the ledger
    text,      \* its message buckets: the call whose message it holds, or 0
    stage,     \* how far run_agent is with the completion
    reported,  \* the completion as the model reported it
    cmd,       \* the completion as it is rewritten
    review,    \* the PaymentRecoveryReview
    unread,    \* policy documents the retry timestamp step has yet to read
    stamp,     \* a retry time is known
    failed     \* policy documents whose read failed

ledgerVars == <<log, refs, text>>
vars == <<prompt, loaded, ledgerVars, stage, reported, cmd, review, unread, stamp,
          failed>>

\* stamp: it gives a retry time; text: its message is not blank.
Reviews == {r \in [paid : BOOLEAN, lockout : BOOLEAN, stamp : BOOLEAN, text : BOOLEAN,
                   says : Rewrites] : r.text \/ r.says = {}}
NoReview == [paid |-> FALSE, lockout |-> FALSE, stamp |-> FALSE, text |-> FALSE,
             says |-> {}]
NoCompletion == [type |-> "other", outcome |-> "ERR_INTERNAL", docs |-> {}, rows |-> {},
                 message |-> [by |-> "model", call |-> 0, says |-> {}], steps |-> {}]

Init == /\ prompt \in Prompts
        /\ loaded = {}
        /\ log = <<>>
        /\ refs = [b \in Buckets |-> {}]
        /\ text = [b \in TextBuckets |-> 0]
        /\ stage = "loop"
        /\ reported = NoCompletion /\ cmd = NoCompletion
        /\ review = NoReview /\ unread = {} /\ stamp = FALSE /\ failed = {}

TypeOK ==
    /\ prompt \subseteq Marks
    /\ loaded \subseteq Docs
    /\ log \in Seq(Results)
    /\ refs \in [Buckets -> SUBSET Refs]
    /\ text \in [TextBuckets -> Nat]
    /\ stage \in {"loop", "review", "policy", "cap", "format", "done"}
    /\ reported \in Completions /\ cmd \in Completions
    /\ review \in Reviews
    /\ unread \subseteq Docs
    /\ stamp \in BOOLEAN
    /\ failed \subseteq Docs

-----------------------------------------------------------------------------
(* The loop: helpers return and documents are read.                        *)

\* What a result contributes to each bucket: the *_refs_from_catalog_result
\* functions of a catalogue resolution, refs_to_submit of the other helpers.
Gives(r) ==
    IF r.tool = "catalog"
    THEN [availability_count |-> r.store \cup r.count,
          support_note |-> r.note,
          availability_lookup |-> r.store \cup r.matched,
          catalog_lookup |-> r.store \cup r.matched]
    ELSE [b \in {r.tool} |-> r.refs]

\* The bucket in which the result leaves a message.
Speaks(r) == CASE r.tool = "catalog" -> {"catalog_lookup"}
               [] r.tool = "manager" -> {}
               [] OTHER -> IF r.text THEN {r.tool} ELSE {}

\* Faulty variant: a later call replaces the references of an earlier one.
MergeReplaces(r) ==
    refs' = [b \in Buckets |-> IF b \in DOMAIN Gives(r) THEN Gives(r)[b] ELSE refs[b]]

\* The merge_* methods: references accumulate.
Merge(r) ==
    refs' = [b \in Buckets |-> refs[b] \cup
                               (IF b \in DOMAIN Gives(r) THEN Gives(r)[b] ELSE {})]

\* A helper returns; one that raises leaves the ledger as it was.
HelperReturns(r) ==
    /\ stage = "loop"
    /\ Len(log) < MaxCalls
    /\ log' = Append(log, r)
    /\ Merge(r)
    /\ text' = [b \in TextBuckets |-> IF b \in Speaks(r) THEN Len(log) + 1 ELSE text[b]]
    /\ UNCHANGED <<prompt, loaded, stage, reported, cmd, review, unread, stamp, failed>>

\* read of a document, at startup or by the model
ReadDoc(d) ==
    /\ stage = "loop"
    /\ loaded' = loaded \cup {d}
    /\ UNCHANGED <<prompt, ledgerVars, stage, reported, cmd, review, unread, stamp, failed>>

-----------------------------------------------------------------------------
(* EvidenceLedger.apply_to_completion: the nine rewrites, in their order.  *)

AddRows(c, set) == [c EXCEPT !.rows = @ \cup set]
Text(b) == [by |-> b, call |-> text[b], says |-> {}]

ApplyCountRefs(c) ==
    LET found == refs["availability_count"] IN
    IF c.type # "availability_count" \/ found = {} THEN c
    ELSE [c EXCEPT !.rows = found \cup
             (@ \ (Catalog \cup (IF found \cap Stores # {} THEN Stores ELSE {})))]

ApplyNoteRefs(c) ==
    LET found == refs["support_note"] IN
    IF c.type # "catalog_lookup" \/ found = {} THEN c
    ELSE [c EXCEPT !.rows = (@ \ Catalog) \cup found]

ApplyManagerRefs(c) == AddRows(c, refs["manager"])

ApplyFraud(c) ==
    AddRows(IF text["fraud"] # 0 /\ "amount" \in prompt
            THEN [c EXCEPT !.message = Text("fraud")] ELSE c,
            refs["fraud"])

ExplicitArchive(c) == c.type = "fraud_review" /\ "archive" \in prompt

ApplyReceipt(c) ==
    IF c.type # "receipt_price_check" THEN c
    ELSE AddRows(IF text["receipt"] # 0 THEN [c EXCEPT !.message = Text("receipt")] ELSE c,
                 refs["receipt"])

\* The references of the helper replace every row cited so far.
ApplyCity(c) ==
    IF c.type # "availability_lookup" THEN c
    ELSE [c EXCEPT !.message = IF text["city"] # 0 THEN Text("city") ELSE @,
                   !.rows = IF refs["city"] # {} THEN refs["city"] ELSE @]

ApplyAvailabilityLookup(c) ==
    IF c.type = "availability_lookup" THEN AddRows(c, refs["availability_lookup"]) ELSE c

ApplyCatalogLookup(c) ==
    IF c.type # "catalog_lookup" \/ "table" \notin prompt THEN c
    ELSE AddRows(IF text["catalog_lookup"] # 0
                 THEN [c EXCEPT !.message = Text("catalog_lookup")] ELSE c,
                 refs["catalog_lookup"])

\* relevant_doc_refs_for_task_type
Relevant(type) == {d \in loaded : type \in Intents[d]}

ApplyDocs(c) == IF ExplicitArchive(c) THEN [c EXCEPT !.docs = {}]
                ELSE [c EXCEPT !.docs = @ \cup Relevant(c.type)]

ApplyToCompletion(c) ==
    LET evidence == ApplyFraud(ApplyManagerRefs(ApplyNoteRefs(ApplyCountRefs(c))))
        lookups == ApplyAvailabilityLookup(ApplyCity(ApplyReceipt(evidence)))
    IN  ApplyDocs(ApplyCatalogLookup(lookups))

\* The model reports a completion.
Report(c) ==
    /\ stage = "loop"
    /\ reported' = c
    /\ cmd' = ApplyToCompletion(c)
    /\ stage' = "review"
    /\ UNCHANGED <<prompt, loaded, ledgerVars, review, unread, stamp, failed>>

-----------------------------------------------------------------------------
(* The payment recovery steps.                                             *)

\* When review_payment_recovery_state asks the helper model.
Reviewed(c) == c.type = "payment_recovery"
               /\ c.outcome \in {"NONE_CLARIFICATION", "NONE_UNSUPPORTED"}

Evidence(c) == c.message.says \cup c.steps

\* Where a search for a timestamp may end: in the message, else in the steps.
Found(c) ==
    LET shown == IF c.message.says \cap Timestamps # {} THEN c.message.says ELSE c.steps
    IN  IF shown \cap Timestamps = {} THEN {{}} ELSE {{t} : t \in shown \cap Timestamps}

\* Faulty variant: an outcome that does not exist (model_copy checks nothing).
ClosedRetryMisspelt(c, time) ==
    IF \/ c.type # "payment_recovery" \/ c.outcome # "OK"
       \/ "closed" \notin Evidence(c) \/ "started" \in Evidence(c)
    THEN c
    ELSE [c EXCEPT !.outcome = "UNSUPPORTED"]

\* _apply_payment_recovery_closed_retry_outcome
ClosedRetry(c, time) ==
    IF \/ c.type # "payment_recovery" \/ c.outcome # "OK"
       \/ "closed" \notin Evidence(c) \/ "started" \in Evidence(c)
    THEN c
    ELSE [c EXCEPT !.outcome = "NONE_UNSUPPORTED",
                   !.message = [by |-> "closed", call |-> 0,
                                says |-> {"token", "closed"} \cup time]]

\* Faulty variant: the review changes the message but not the outcome.
ReviewMessageOnly(c, r) ==
    IF c.type # "payment_recovery" \/ ~(r.paid \/ r.lockout) THEN c
    ELSE [c EXCEPT !.message = [by |-> "review", call |-> 0, says |-> r.says]]

\* _apply_payment_recovery_review; a blank message of the review is replaced
\* by the one it was shown.
ApplyReview(c, r) ==
    IF c.type # "payment_recovery" \/ ~(r.paid \/ r.lockout) THEN c
    ELSE [c EXCEPT
            !.outcome = IF @ = "NONE_CLARIFICATION" THEN "NONE_UNSUPPORTED" ELSE @,
            !.message = IF r.text THEN [by |-> "review", call |-> 0, says |-> r.says]
                        ELSE @]

PaymentKnown(c) == \/ c.rows \cap Payments # {}
                   \/ "payment" \in prompt \/ "payment" \in c.steps

\* The guards of _apply_payment_recovery_retry_timestamp.
WantsStamp(c, r) == /\ c.type = "payment_recovery" /\ c.outcome = "NONE_UNSUPPORTED"
                    /\ r.lockout /\ PaymentKnown(c)

\* The review, by the helper model or (it is not asked, raises or gives no
\* parsed answer) the fallback, and the two rewrites that follow it.
Review(r) ==
    /\ stage = "review"
    /\ Reviewed(cmd) \/ r = NoReview
    /\ review' = r
    /\ \E time \in Found(cmd) : cmd' = ApplyReview(ClosedRetry(cmd, time), r)
    /\ IF WantsStamp(cmd', r)
       THEN /\ stage' = "policy" /\ stamp' = r.stamp
            /\ unread' = IF r.stamp THEN {} ELSE cmd.docs \cap Policies
       ELSE stage' = "cap" /\ UNCHANGED <<stamp, unread>>
    /\ UNCHANGED <<prompt, loaded, ledgerVars, reported, failed>>

\* Faulty variant: a document that cannot be read ends the search.
ReadStops(d, ok) ==
    /\ stage = "policy" /\ d \in unread
    /\ stamp' = (ok /\ d \in Stamped)
    /\ unread' = IF ok /\ d \notin Stamped THEN unread \ {d} ELSE {}
    /\ failed' = IF ok THEN failed ELSE failed \cup {d}
    /\ UNCHANGED <<prompt, loaded, ledgerVars, stage, reported, cmd, review>>

\* One policy document: it is read or the read raises ConnectError, and the
\* search stops at the first that states a retry time.
ReadPolicy(d, ok) ==
    /\ stage = "policy" /\ d \in unread
    /\ stamp' = (ok /\ d \in Stamped)
    /\ unread' = IF stamp' THEN {} ELSE unread \ {d}
    /\ failed' = IF ok THEN failed ELSE failed \cup {d}
    /\ UNCHANGED <<prompt, loaded, ledgerVars, stage, reported, cmd, review>>

\* payment_recovery_message_with_retry_timestamp: a message that bears any
\* timestamp already stays as it is.
StampMessage ==
    /\ stage = "policy" /\ unread = {}
    /\ stage' = "cap"
    /\ cmd' = IF ~stamp \/ cmd.message.says \cap Timestamps # {} THEN cmd
              ELSE [cmd EXCEPT !.message.by = "retry",
                               !.message.says = @ \cup {"retry", "closed"},
                               !.steps = @ \cup {"retry", "closed"}]
    /\ UNCHANGED <<prompt, loaded, ledgerVars, reported, review, unread, stamp, failed>>

-----------------------------------------------------------------------------
(* The last rewrites.                                                      *)

\* _apply_discount_cap_message
CapMessage ==
    /\ stage = "cap"
    /\ stage' = "format"
    /\ cmd' = IF /\ cmd.type = "discount" /\ cmd.outcome = "NONE_UNSUPPORTED"
                 /\ "token" \in cmd.message.says /\ "percent" \notin cmd.message.says
                 /\ "cap" \in cmd.steps
              THEN [cmd EXCEPT !.message = [by |-> "cap", call |-> 0,
                                            says |-> {"token", "percent"}]]
              ELSE cmd
    /\ UNCHANGED <<prompt, loaded, ledgerVars, reported, review, unread, stamp, failed>>

Preserved == {"DENIED_SECURITY", "NONE_CLARIFICATION", "NONE_UNSUPPORTED"}

\* format_completion_message: a refusal keeps its message (a clarification
\* drops the outcome token); another message is rewritten by the helper
\* model, or kept when that fails or it already has the format of AGENTS.MD.
Format(says) ==
    /\ stage = "format"
    /\ stage' = "done"
    /\ cmd' \in IF cmd.outcome \in Preserved
                THEN {[cmd EXCEPT !.message.says =
                          IF cmd.outcome = "NONE_CLARIFICATION" THEN @ \ {"token"} ELSE @]}
                ELSE {cmd, [cmd EXCEPT !.message = [by |-> "formatter", call |-> cmd.message.call,
                                                    says |-> says]]}
    /\ UNCHANGED <<prompt, loaded, ledgerVars, reported, review, unread, stamp, failed>>

Next == \/ \E r \in Results : HelperReturns(r)
        \/ \E d \in Docs : ReadDoc(d)
        \/ \E c \in Reports : Report(c)
        \/ \E r \in Reviews : Review(r)
        \/ \E d \in Docs, ok \in BOOLEAN : ReadPolicy(d, ok)
        \/ StampMessage
        \/ CapMessage
        \/ \E says \in Rewrites : Format(says)

Spec == Init /\ [][Next]_vars

-----------------------------------------------------------------------------
(* Properties.                                                             *)

\* The references the helpers of this trial produced for a bucket.
Given(b) == UNION {Gives(log[i])[b] : i \in {j \in DOMAIN log : b \in DOMAIN Gives(log[j])}}

\* The buckets whose references belong in an answer of this type.  A city
\* answer replaces what was cited before it.
Due(type) ==
    CASE type = "availability_count" -> {"availability_count", "manager", "fraud"}
      [] type = "catalog_lookup" ->
            {"support_note", "manager", "fraud"} \cup
            (IF "table" \in prompt THEN {"catalog_lookup"} ELSE {})
      [] type = "receipt_price_check" -> {"receipt", "manager", "fraud"}
      [] type = "availability_lookup" ->
            {"city", "availability_lookup"} \cup
            (IF Given("city") = {} THEN {"manager", "fraud"} ELSE {})
      [] OTHER -> {"manager", "fraud"}

\* Every reference that any call of a helper produced for the type of the
\* answer is in the submission, however many calls there were and whatever
\* rewrite came after (evidence_ledger.py:13-17).
EvidenceIsSubmitted ==
    stage # "loop" => \A b \in Due(cmd.type) : Given(b) \subseteq cmd.rows

\* A payment recovery that the model or the review found blocked ends as
\* unsupported: neither success nor a question to the user is submitted.  No
\* other outcome is ever rewritten.
LockedOutIsUnsupported ==
    stage \notin {"loop", "review"} =>
      LET blocked == /\ reported.type = "payment_recovery"
                     /\ \/ /\ reported.outcome = "OK"
                           /\ "closed" \in reported.steps
                           /\ "started" \notin Evidence(reported)
                        \/ reported.outcome = "NONE_CLARIFICATION"
                           /\ (review.paid \/ review.lockout)
      IN  /\ blocked => cmd.outcome = "NONE_UNSUPPORTED"
          /\ cmd.outcome # reported.outcome =>
                /\ reported.type = "payment_recovery"
                /\ reported.outcome \in {"OK", "NONE_CLARIFICATION"}

\* A retry time for a known payment that the review found locked out is given
\* by the review or by a cited policy that could be read.
RetryTimeKnown == /\ WantsStamp(cmd, review)
                  /\ review.stamp \/ (cmd.docs \cap Stamped) \ failed # {}

\* What the message said before the time is looked up, by the review or the model.
Drafted == IF review.text THEN review.says ELSE reported.message.says

\* Then the submitted refusal states that time, whatever the order of the reads
\* and whichever of them failed, unless the message the review or the model
\* wrote bears some other timestamp already (payment_recovery.py:61):
\* ARCHITECTURE.md:242 promises it without that exception.
LockoutTimeIsStated ==
    stage = "done" /\ RetryTimeKnown => "retry" \in cmd.message.says \/ "date" \in Drafted

\* The text of a helper bucket accounts for every call whose references the
\* bucket collected: what evidence_ledger.py:13-17 says of each bucket.  It
\* is false: the text of the last call replaces the others.
TextCoversEvidence ==
    (stage # "loop" /\ cmd.message.by \in TextBuckets) =>
      \A i \in DOMAIN log :
        (i # cmd.message.call /\ cmd.message.by \in DOMAIN Gives(log[i])) =>
          Gives(log[i])[cmd.message.by] \subseteq
            Gives(log[cmd.message.call])[cmd.message.by]
=============================================================================
