------------------------------- MODULE AgentRun -------------------------------
(***************************************************************************)
(* agent.py, run_agent: one trial from the startup tools to the result     *)
(* dictionary.  The startup tools run while a background thread classifies *)
(* the task; then a cascade of preflights may close the trial; otherwise   *)
(* the model is asked for tool calls until it reports a completion or the  *)
(* step budget is spent.                                                   *)
(*                                                                         *)
(* The runtime and the models are the environment: every call may fail.  A *)
(* runtime call is one step here; what its timeout and retry mean for the  *)
(* runtime is module RuntimeCalls, whose callers see AtLeastOnce below.    *)
(***************************************************************************)
EXTENDS Naturals, Sequences, TaskClassifier

CONSTANTS Tasks,     \* [text : SUBSET Marks, parsed : SUBSET Intents]
          Docs,      \* Markdown files of the runtime
          AgentsMd,  \* the one among them that lies above /bin and /docs
          Commands,  \* extensionless files the trees list
          MaxSteps,  \* AGENT_MAX_STEPS
          RuntimeTimeout,  \* AGENT_RUNTIME_TIMEOUT_MS, 0 for none
          MaxCalls   \* bound on the tool calls of one response

ASSUME RunAssumption ==
    /\ Tasks \subseteq [text : SUBSET Marks, parsed : SUBSET Intents]
    /\ AgentsMd \in Docs
    /\ Docs \cap Commands = {}
    /\ MaxSteps \in Nat \ {0}
    /\ RuntimeTimeout \in Nat
    /\ MaxCalls \in Nat

VARIABLES
    task,            \* the task of this trial
    pc,              \* where run_agent is
    classifier,      \* the background thread: "running" or "done"
    classification,  \* its result
    must,            \* startup tools done
    date,            \* /bin/date was read
    followups,       \* automatic reads and --help calls still to make
    seenRead,        \* tree_read_paths
    seenHelp,        \* tree_help_paths
    read,            \* documents whose content the runtime returned
    loaded,          \* ledger.loaded_doc_refs
    stage,           \* index of the next preflight
    closedBy,        \* the preflight that closed the trial, "none" before
    context,         \* the items sent to the model
    autoCalls,       \* synthetic_call_index
    modelCalls,      \* function calls in the responses of the model
    pending,         \* how many calls of the current response are left to run
    step,            \* responses requested from the model
    touched,         \* ways in which files were changed
    dispatched,      \* answers dispatched to the runtime
    delivered,       \* answers the runtime accepted
    result           \* final_result

startupVars == <<classifier, classification, must, date>>
docVars == <<seenRead, seenHelp, read>>
contextVars == <<context, autoCalls, modelCalls>>
answerVars == <<dispatched, delivered, result>>
vars == <<task, pc, startupVars, followups, docVars, loaded, stage, closedBy,
          contextVars, pending, step, touched, answerVars>>

-----------------------------------------------------------------------------
Must == <<"agents_md", "tree_root", "tree_bin", "tree_docs", "date", "id">>

\* Faulty variant: the deletion runs before the override check.
PreflightsCleanupFirst ==
    <<"dispatch_wave", "relative_date", "tmp_cleanup", "security", "refund",
      "staff_count", "city", "fraud_history", "ambiguous_checkout", "selected_basket">>

Preflights == <<"dispatch_wave", "relative_date", "security", "refund",
                "tmp_cleanup", "staff_count", "city", "fraud_history",
                "ambiguous_checkout", "selected_basket">>

\* A call as its caller sees it: executed at most twice, and at least once
\* when it returns a result (AtLeastOnceCall).
AtLeastOnce == {r \in [ok : BOOLEAN, times : 0..2] : r.ok => r.times > 0}

Id(source, n) == [source |-> source, n |-> n]
Call(id) == [type |-> "function_call", id |-> id]
Output(id) == [type |-> "function_call_output", id |-> id]
User == [type |-> "message", id |-> Id("user", 0)]
Text == [type |-> "message", id |-> Id("model", 0)]

Items == [type : {"function_call", "function_call_output", "message"},
          id : [source : {"auto", "model", "user"}, n : Nat]]
Results == [completed : BOOLEAN, fallback : BOOLEAN]

Init == /\ task \in Tasks
        /\ pc = "startup"
        /\ classifier = "running" /\ classification = EmptyClassification
        /\ must = 0 /\ date = FALSE
        /\ followups = {}
        /\ seenRead = {} /\ seenHelp = {} /\ read = {} /\ loaded = {}
        /\ stage = 1 /\ closedBy = "none"
        /\ context = <<>> /\ autoCalls = 0 /\ modelCalls = 0
        /\ pending = 0 /\ step = 0
        /\ touched = {}
        /\ dispatched = 0 /\ delivered = 0
        /\ result = [completed |-> FALSE, fallback |-> FALSE]

TypeOK ==
    /\ task \in Tasks
    /\ pc \in {"startup", "preflight", "closing", "ask", "batch", "tree",
               "upload", "reread", "returned", "raised"}
    /\ classifier \in {"running", "done"} /\ classification \subseteq Intents
    /\ must \in 0..Len(Must) /\ date \in BOOLEAN
    /\ followups \subseteq Docs \cup Commands
    /\ seenRead \subseteq Docs /\ seenHelp \subseteq Commands
    /\ read \subseteq Docs /\ loaded \subseteq Docs
    /\ stage \in 1..Len(Preflights) + 1
    /\ closedBy \in {Preflights[i] : i \in DOMAIN Preflights} \cup {"none"}
    /\ context \in Seq(Items) /\ autoCalls \in Nat /\ modelCalls \in Nat
    /\ pending \in 0..MaxCalls /\ step \in 0..MaxSteps
    /\ touched \subseteq {"cleanup", "raw", "exec"}
    /\ dispatched \in Nat /\ delivered \in Nat
    /\ result \in Results

-----------------------------------------------------------------------------
(* Pieces shared by the actions.                                           *)

\* _append_synthetic_tool_pair
AppendPair == LET id == Id("auto", autoCalls + 1) IN
    /\ context' = context \o <<Call(id), Output(id)>>
    /\ autoCalls' = autoCalls + 1
    /\ UNCHANGED modelCalls

\* _tree_followup_commands: what a tree shows for the first time is marked
\* as seen at once, before any of it is read.
FollowTree(shown) ==
    /\ followups' = shown \ (seenRead \cup seenHelp)
    /\ seenRead' = seenRead \cup (shown \cap Docs)
    /\ seenHelp' = seenHelp \cup (shown \cap Commands)
    /\ UNCHANGED read

\* One automatic follow-up, documents before commands.
Follow(f) ==
    /\ f \in followups
    /\ f \in Commands => followups \cap Docs = {}
    /\ followups' = followups \ {f}
    /\ \/ read' = read \cup ({f} \cap Docs)
       \/ UNCHANGED read
    /\ UNCHANGED <<seenRead, seenHelp>>

\* dispatch of a ReportTaskCompletion: the call returns (ok) or raises.
Submit(ok) == \E r \in AtLeastOnce :
    /\ r.ok = ok
    /\ dispatched' = dispatched + 1
    /\ delivered' = delivered + r.times

-----------------------------------------------------------------------------
(* Startup: the must tools and the classifier thread.                      *)

ClassifierReturns ==
    /\ classifier = "running"
    /\ classifier' = "done"
    /\ classification' \in {Normalize(task.parsed, task.text), EmptyClassification}
    /\ UNCHANGED <<task, pc, must, date, followups, docVars, loaded, stage,
                   closedBy, contextVars, pending, step, touched, answerVars>>

Startup == pc = "startup" /\ followups = {} /\ must < Len(Must)

\* The tool the startup runs next.
Tool == Must[must + 1]

StartupCall ==
    /\ Startup
    /\ \/ /\ Tool \in {"tree_bin", "tree_docs"}
          /\ \E shown \in SUBSET ((Docs \ {AgentsMd}) \cup Commands) : FollowTree(shown)
          /\ UNCHANGED date
       \/ /\ Tool = "agents_md"
          /\ seenRead' = seenRead \cup {AgentsMd} /\ read' = read \cup {AgentsMd}
          /\ UNCHANGED <<date, followups, seenHelp>>
       \/ /\ Tool = "date" /\ date' = TRUE
          /\ UNCHANGED <<followups, docVars>>
       \/ /\ Tool \in {"tree_root", "id"}
          /\ UNCHANGED <<date, followups, docVars>>
    /\ must' = must + 1
    /\ AppendPair
    /\ UNCHANGED <<task, pc, classifier, classification, loaded, stage, closedBy,
                   pending, step, touched, answerVars>>

StartupError ==
    /\ Startup
    /\ must' = must + 1
    /\ AppendPair
    /\ UNCHANGED <<task, pc, classifier, classification, date, followups, docVars,
                   loaded, stage, closedBy, pending, step, touched, answerVars>>

StartupFollowup ==
    /\ pc = "startup"
    /\ \E f \in followups : Follow(f)
    /\ AppendPair
    /\ UNCHANGED <<task, pc, startupVars, loaded, stage, closedBy, pending, step,
                   touched, answerVars>>

\* Faulty variant: waits for an answer of the model, which may never come.
AwaitAnswer ==
    /\ pc = "startup" /\ must = Len(Must) /\ followups = {}
    /\ classification # EmptyClassification
    /\ pc' = "preflight"
    /\ loaded' = loaded \cup seenRead
    /\ UNCHANGED <<task, startupVars, followups, docVars, stage, closedBy,
                   contextVars, pending, step, touched, answerVars>>

\* classification_future.result(), then register_loaded_docs.
AwaitClassifier ==
    /\ pc = "startup" /\ must = Len(Must) /\ followups = {}
    /\ classifier = "done"
    /\ pc' = "preflight"
    /\ loaded' = loaded \cup seenRead
    /\ UNCHANGED <<task, startupVars, followups, docVars, stage, closedBy,
                   contextVars, pending, step, touched, answerVars>>

-----------------------------------------------------------------------------
(* The preflights, in the order of the cascade.                            *)

Says(mark) == mark \in task.text
Knows(intents) == intents \subseteq classification

\* What the preflight asks of the task before it looks at the runtime.
Applies(p) ==
    CASE p = "dispatch_wave" -> Says("dispatch")
      [] p = "relative_date" -> Says("date") /\ date
      [] p = "security" -> \/ Knows({"override"}) \/ Knows({"contact"})
                           \/ Knows({"discount"}) \/ Knows({"checkout", "basket_id"})
      [] p = "refund" -> Says("refund")
      [] p = "tmp_cleanup" -> Knows({"mutation", "tmp_path"})
      [] p = "staff_count" -> Knows({"staff"})
      [] p = "city" -> Says("city")
      [] p = "fraud_history" -> Says("fraud_history")
      [] p = "ambiguous_checkout" -> /\ Knows({"checkout"})
                                     /\ classification \cap {"basket_id", "selector"} = {}
      [] p = "selected_basket" -> /\ Knows({"checkout", "selector"})
                                  /\ ~Knows({"basket_id"})

\* The preflight that depends on nothing else once it applies.
Forced(p) == p = "security" /\ Knows({"override"})

Preflight(p) == pc = "preflight" /\ stage <= Len(Preflights) /\ p = Preflights[stage]

\* Does not apply, or the records it needs are missing or unreadable.
PreflightPasses(p) ==
    /\ Preflight(p)
    /\ ~Forced(p)
    /\ stage' = stage + 1
    /\ UNCHANGED <<task, pc, startupVars, followups, docVars, loaded, closedBy,
                   contextVars, pending, step, touched, answerVars>>

\* It has the answer; tmp_cleanup has deleted the files it names.
PreflightCloses(p) ==
    /\ Preflight(p)
    /\ Applies(p) /\ p # "selected_basket"
    /\ pc' = "closing" /\ closedBy' = p
    /\ touched' = touched \cup (IF p = "tmp_cleanup" THEN {"cleanup"} ELSE {})
    /\ UNCHANGED <<task, startupVars, followups, docVars, loaded, stage,
                   contextVars, pending, step, answerVars>>

\* An error no preflight catches: a failed deletion after others went
\* through, or the helper model failing under the city availability helper.
PreflightRaises(p) ==
    /\ Preflight(p)
    /\ Applies(p) /\ p \in {"tmp_cleanup", "city"}
    /\ pc' = "raised"
    /\ touched' = touched \cup (IF p = "tmp_cleanup" THEN {"cleanup"} ELSE {})
    /\ UNCHANGED <<task, startupVars, followups, docVars, loaded, stage, closedBy,
                   contextVars, pending, step, answerVars>>

\* selected_basket closes nothing: it shows the model a resolved basket.
SelectBasket ==
    /\ Preflight("selected_basket") /\ Applies("selected_basket")
    /\ stage' = stage + 1
    /\ AppendPair
    /\ UNCHANGED <<task, pc, startupVars, followups, docVars, loaded, closedBy,
                   pending, step, touched, answerVars>>

\* _finalize_preflight: nothing catches an error of the answer call.
FinalizePreflight ==
    /\ pc = "closing"
    /\ \/ /\ Submit(TRUE)
          /\ pc' = "returned"
          /\ result' = [completed |-> TRUE, fallback |-> FALSE]
       \/ /\ Submit(FALSE)
          /\ pc' = "raised"
          /\ UNCHANGED result
    /\ UNCHANGED <<task, startupVars, followups, docVars, loaded, stage, closedBy,
                   contextVars, pending, step, touched>>

BeginLoop ==
    /\ pc = "preflight" /\ stage > Len(Preflights)
    /\ pc' = "ask"
    /\ context' = Append(context, User)
    /\ UNCHANGED <<task, startupVars, followups, docVars, loaded, stage, closedBy,
                   autoCalls, modelCalls, pending, step, touched, answerVars>>

-----------------------------------------------------------------------------
(* The loop over the responses of the model.                               *)

\* Faulty variant: one response more than the budget.
AskOnceMore ==
    /\ pc = "ask" /\ step <= MaxSteps
    /\ step' = step + 1
    /\ context' = Append(context, Call(Id("model", modelCalls + 1)))
    /\ modelCalls' = modelCalls + 1 /\ pending' = 1
    /\ pc' = "batch"
    /\ UNCHANGED <<task, startupVars, followups, docVars, loaded, stage, closedBy,
                   autoCalls, touched, answerVars>>

\* The response carries n function calls; without any it gets a reminder.
Ask ==
    /\ pc = "ask" /\ step < MaxSteps
    /\ step' = step + 1
    /\ \E n \in 0..MaxCalls :
          /\ IF n = 0
             THEN pc' = pc /\ context' = context \o <<Text, User>>
             ELSE /\ pc' = "batch"
                  /\ context' = context \o
                         [i \in 1..n |-> Call(Id("model", modelCalls + i))]
          /\ modelCalls' = modelCalls + n
          /\ pending' = n
    /\ UNCHANGED <<task, startupVars, followups, docVars, loaded, stage, closedBy,
                   autoCalls, touched, answerVars>>

\* responses.create fails: nothing catches it.
AskRaises ==
    /\ pc = "ask" /\ step < MaxSteps
    /\ pc' = "raised"
    /\ UNCHANGED <<task, startupVars, followups, docVars, loaded, stage, closedBy,
                   contextVars, pending, step, touched, answerVars>>

\* The output of the current call is appended and the next one is due.
EndCall ==
    /\ context' = Append(context, Output(Id("model", modelCalls - pending + 1)))
    /\ pending' = pending - 1
    /\ pc' = IF pending = 1 THEN "ask" ELSE "batch"
    /\ UNCHANGED <<autoCalls, modelCalls>>

\* Faulty variant: a malformed call is skipped without an output.
SkipCall ==
    /\ pc = "batch"
    /\ pending' = pending - 1
    /\ pc' = IF pending = 1 THEN "ask" ELSE "batch"
    /\ UNCHANGED <<task, startupVars, followups, docVars, loaded, stage, closedBy,
                   contextVars, step, touched, answerVars>>

\* A call that leaves no trace but its output: malformed, a lookup, a helper,
\* or one that failed.
PlainCall ==
    /\ pc = "batch"
    /\ EndCall
    /\ UNCHANGED <<task, startupVars, followups, docVars, loaded, stage, closedBy,
                   step, touched, answerVars>>

ReadCall ==
    /\ pc = "batch"
    /\ \E d \in Docs : seenRead' = seenRead \cup {d} /\ read' = read \cup {d}
    /\ EndCall
    /\ UNCHANGED <<task, startupVars, followups, seenHelp, loaded, stage, closedBy,
                   step, touched, answerVars>>

HelpCall ==
    /\ pc = "batch"
    /\ \E c \in Commands : seenHelp' = seenHelp \cup {c}
    /\ EndCall
    /\ UNCHANGED <<task, startupVars, followups, seenRead, read, loaded, stage,
                   closedBy, step, touched, answerVars>>

\* A tree call has one output, for the tree and all its follow-ups.
TreeCall ==
    /\ pc = "batch"
    /\ \E shown \in SUBSET (Docs \cup Commands) : FollowTree(shown)
    /\ pc' = "tree"
    /\ UNCHANGED <<task, startupVars, loaded, stage, closedBy, contextVars, pending,
                   step, touched, answerVars>>

TreeFollowup ==
    /\ pc = "tree"
    /\ \E f \in followups : Follow(f)
    /\ UNCHANGED <<task, pc, startupVars, loaded, stage, closedBy, contextVars,
                   pending, step, touched, answerVars>>

TreeDone ==
    /\ pc = "tree" /\ followups = {}
    /\ EndCall
    /\ UNCHANGED <<task, startupVars, followups, docVars, loaded, stage, closedBy,
                   step, touched, answerVars>>

\* write and delete are guarded, exec is not; each may have had its effect
\* although the call failed.
ChangingCall(way) ==
    /\ pc = "batch"
    /\ way = "raw" => RawMutationAllowed(task.text, classification)
    /\ touched' = touched \cup {way}
    /\ EndCall
    /\ UNCHANGED <<task, startupVars, followups, docVars, loaded, stage, closedBy,
                   step, answerVars>>

\* An error of the catalog parser's model call: nothing catches it.
CallRaises ==
    /\ pc = "batch"
    /\ pc' = "raised"
    /\ UNCHANGED <<task, startupVars, followups, docVars, loaded, stage, closedBy,
                   contextVars, pending, step, touched, answerVars>>

\* report_completion with an upload among its references: before the answer
\* _submission_refs reads it by vm.read, the one call without a deadline.
ReadUpload ==
    /\ pc = "batch"
    /\ loaded' = loaded \cup seenRead
    /\ pc' = "upload"
    /\ UNCHANGED <<task, startupVars, followups, docVars, stage, closedBy,
                   contextVars, pending, step, touched, answerVars>>

\* Faulty variants: the rest of the response still runs; documents read in
\* the loop are not registered.
CompletionGoesOn ==
    /\ pc \in {"batch", "upload"}
    /\ loaded' = loaded \cup seenRead
    /\ \E ok \in BOOLEAN : Submit(ok)
    /\ EndCall
    /\ result' = [completed |-> TRUE, fallback |-> FALSE]
    /\ UNCHANGED <<task, startupVars, followups, docVars, stage, closedBy, step,
                   touched>>

CompletionStaleDocs ==
    /\ pc = "batch"
    /\ \E ok \in BOOLEAN : Submit(ok)
    /\ context' = Append(context, Output(Id("model", modelCalls - pending + 1)))
    /\ pending' = 0
    /\ pc' = "returned"
    /\ result' = [completed |-> TRUE, fallback |-> FALSE]
    /\ UNCHANGED <<task, startupVars, followups, docVars, loaded, stage, closedBy,
                   autoCalls, modelCalls, step, touched>>

\* report_completion: the calls after it in the response are dropped, and
\* the trial is over even if the answer call failed.  The references are
\* computed again for the result, which may read the upload again.
Completion ==
    /\ pc \in {"batch", "upload"}
    /\ loaded' = loaded \cup seenRead
    /\ \E ok \in BOOLEAN : Submit(ok)
    /\ context' = Append(context, Output(Id("model", modelCalls - pending + 1)))
    /\ pending' = 0
    /\ \/ /\ pc' = "returned"
          /\ result' = [completed |-> TRUE, fallback |-> FALSE]
       \/ /\ pc' = "reread"
          /\ UNCHANGED result
    /\ UNCHANGED <<task, startupVars, followups, docVars, stage, closedBy, autoCalls,
                   modelCalls, step, touched>>

RereadUpload ==
    /\ pc = "reread"
    /\ pc' = "returned"
    /\ result' = [completed |-> TRUE, fallback |-> FALSE]
    /\ UNCHANGED <<task, startupVars, followups, docVars, loaded, stage, closedBy,
                   contextVars, pending, step, touched, dispatched, delivered>>

\* The step budget is spent without a completion.
Fallback ==
    /\ pc = "ask" /\ step = MaxSteps
    /\ \E ok \in BOOLEAN : /\ Submit(ok)
                           /\ result' = [completed |-> ok, fallback |-> TRUE]
    /\ pc' = "returned"
    /\ UNCHANGED <<task, startupVars, followups, docVars, loaded, stage, closedBy,
                   contextVars, pending, step, touched>>

-----------------------------------------------------------------------------
PreflightStep == \/ \E i \in DOMAIN Preflights :
                       \/ PreflightPasses(Preflights[i])
                       \/ PreflightCloses(Preflights[i])
                       \/ PreflightRaises(Preflights[i])
                 \/ SelectBasket \/ FinalizePreflight \/ BeginLoop

LoopStep == \/ Ask \/ AskRaises
            \/ PlainCall \/ ReadCall \/ HelpCall
            \/ TreeCall \/ TreeFollowup \/ TreeDone
            \/ \E way \in {"raw", "exec"} : ChangingCall(way)
            \/ CallRaises \/ ReadUpload \/ Completion \/ RereadUpload \/ Fallback

Next == \/ ClassifierReturns
        \/ StartupCall \/ StartupError \/ StartupFollowup \/ AwaitClassifier
        \/ PreflightStep
        \/ LoopStep

\* Reading an upload, before the answer or after it: nothing ends such a call.
Unbounded == pc \in {"upload", "reread"}

\* The steps that the program gets to whatever the runtime and the models do:
\* their calls have a deadline, unless AGENT_RUNTIME_TIMEOUT_MS is 0.
Timely == RuntimeTimeout # 0 /\ ~Unbounded /\ Next

Spec == Init /\ [][Next]_vars /\ WF_vars(Timely)

-----------------------------------------------------------------------------
IsCall(n) == context[n].type = "function_call"
IsOutput(n) == context[n].type = "function_call_output"
SameId(m, n) == context[m].id = context[n].id

(* The Responses API rejects a history in which a call id is used twice or *)
(* answered twice, in which an output precedes its call, or in which a     *)
(* call has no output when the model is asked again.  Synthetic pairs,     *)
(* malformed calls, failed calls and tree follow-ups all have to keep it.  *)
ContextWellFormed ==
    /\ \A m, n \in DOMAIN context :
          /\ SameId(m, n) /\ IsCall(m) /\ IsCall(n) => m = n
          /\ SameId(m, n) /\ IsOutput(m) /\ IsOutput(n) => m = n
          /\ SameId(m, n) /\ IsCall(m) /\ IsOutput(n) => m < n
    /\ \A n \in DOMAIN context : IsOutput(n) =>
          \E m \in DOMAIN context : IsCall(m) /\ SameId(m, n)
    /\ pc = "ask" => \A m \in DOMAIN context : IsCall(m) =>
          \E n \in DOMAIN context : IsOutput(n) /\ SameId(m, n)

(* A trial submits at most one answer, whichever of the preflight, the     *)
(* model and the step budget closes it, and it does not return a result    *)
(* without having submitted it; the runtime takes the answer at most twice *)
(* (the second time is the retry of runtime_call).  A result that claims   *)
(* to be complete although the runtime never took the answer can only be   *)
(* that of a completion reported by the model, whose failed answer call    *)
(* run_agent treats as any failed tool (agent.py:1892, 1978).              *)
AnsweredOnce == /\ dispatched <= 1
                /\ pc = "returned" => dispatched = 1
                /\ delivered <= 2
                /\ result.completed /\ delivered = 0 => step > 0 /\ ~result.fallback

(* Once an answer is on its way nothing is asked of the model and no file  *)
(* is changed any more, not even when the answer call failed.              *)
NothingAfterAnswer ==
    [][dispatched > 0 => UNCHANGED <<step, touched, context>>]_vars

(* A task classified as an override attempt changes no file and reaches no *)
(* model response: no preflight of the cascade that deletes, and no tool   *)
(* of the model, comes before the denial.                                  *)
OverrideChangesNothing ==
    "override" \in classification => touched = {} /\ step = 0

(* When the model completes, every document the trial has read until then, *)
(* at startup, by the model or as a follow-up of a tree, is a candidate    *)
(* for the automatic citations.                                            *)
ReadDocsAreLoaded ==
    result.completed /\ step > 0 /\ ~result.fallback => read \subseteq loaded

(* For its caller a trial is the protocol of TrialOutcome: file changes,   *)
(* then at most one submission as its very last step.                      *)
Outcome == INSTANCE TrialOutcome
               WITH phase <- CASE pc \in {"returned", "raised"} -> pc
                               [] pc = "reread" -> "answered"
                               [] OTHER -> "working",
                    answers <- dispatched,
                    completed <- result.completed,
                    Ways <- {"cleanup", "raw", "exec"}
ImplementsOutcome == Outcome!Spec

(* Whatever the runtime and the models do, a trial whose runtime calls     *)
(* carry the default timeout returns a result or raises to main, unless it *)
(* stays for ever in the read of an upload (submission_refs.py:482): the   *)
(* classifier thread, failing calls, follow-ups of trees and reminders     *)
(* hold nothing up.  ARCHITECTURE.md:95 promises it without either premise.*)
Terminates == RuntimeTimeout # 0 /\ []<>~Unbounded => <>(pc \in {"returned", "raised"})

-----------------------------------------------------------------------------
(* Statements of the documentation that the code does not keep.            *)

(* ARCHITECTURE.md: every trial must end with a submission.                *)
EndsWithSubmission == pc \in {"returned", "raised"} => dispatched > 0
=============================================================================
