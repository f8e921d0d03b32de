--------------------------- MODULE Reconciliation ---------------------------
(***************************************************************************)
(* Execution reconciliation (src/atlas_ros/reconciliation/service.py and    *)
(* state.py, with baseline.py): attended commands that read the comments of *)
(* Todoist tasks, change Notion and Todoist accordingly, record in the      *)
(* shared ledger what became of each comment, and move a checkpoint that    *)
(* bounds what a later plan looks at.  A baseline marks the comments that   *)
(* precede the first reconciliation, and makes the first checkpoint.        *)
(*                                                                         *)
(* One command runs at a time, a step is one call of a provider.  A call    *)
(* may fail, before or after its effect, and the command may die between    *)
(* two calls; the ledger is a Notion table and survives.                    *)
(***************************************************************************)
EXTENDS Integers, FiniteSets

CONSTANTS
    Comments,      \* the comments of a behaviour
    Actions,       \* the Action Records whose tasks they are on
    ActionOf,      \* ActionOf[c]: the Action Record of comment c
    Kind,          \* Kind[c]: what comment c asks for
    OnSubtask,     \* the comments on a subtask, not on the mapped task itself
    Markers,       \* what tells the checkpoint tasks of delegations apart
    MarkerOf,      \* MarkerOf[c]: digest of parent, title and follow-up date of c's task
    Historical,    \* the retired Action Records, which a baseline leaves out
    Scopes,        \* what a command may be limited to, sets of Action Records
    BaselineRuns,  \* identities of baseline runs
    NoComment, NoRun,
    MaxPlans,      \* bound on the plans in hand
    MaxCommands,   \* bound on the commands that apply something
    MaxFailures    \* bound on failed calls and crashes

\* An explicit @atlas command; one that planning finds in conflict; an ordinary
\* comment that delegates; one that asks for another transition (waiting, blocked,
\* complete); one that asks nothing, or not clearly enough.
Kinds == {"command", "conflicting", "delegate", "transition", "note"}

ASSUME ReconciliationAssumption ==
    /\ ActionOf \in [Comments -> Actions]
    /\ Kind \in [Comments -> Kinds]
    /\ MarkerOf \in [Comments -> Markers]
    /\ OnSubtask \subseteq Comments
    /\ Historical \subseteq Actions
    /\ Scopes \subseteq SUBSET Actions
    /\ Comments \cap Actions = {}
    /\ NoComment \notin Comments /\ NoRun \notin BaselineRuns
    /\ MaxCommands \in Nat /\ MaxFailures \in Nat

VARIABLES
    posted,      \* comments that exist
    age,         \* age[c]: how long ago the subtask of comment c was completed
    ledger,      \* ledger[c]: the row of comment c
    checkpoint,  \* the checkpoint's row
    pages,       \* comments with the Notion record they ask for
    opened,      \* opened[m]: how many Todoist tasks with marker m were created
    open,        \* markers whose latest task is not completed
    bound,       \* bound[c]: the task its record names, by number, or 0
    cutover,     \* cutover[r]: the plan of baseline r, or NoCutover
    plans,       \* the plans that were made, reviewed and approved
    cmd,         \* the command in progress, or Idle
    founded,     \* history: the baseline run that made the first checkpoint
    commands, failures   \* how much of each bound is used

providers == <<pages, opened, open, bound>>
source == <<posted, age>>
vars == <<source, ledger, checkpoint, providers, cutover, plans, cmd, founded,
          commands, failures>>

-----------------------------------------------------------------------------
(* Records. *)

NoRow == [status |-> "none", run |-> NoRun]
Rows == [status : {"none", "failed", "applied", "informational", "ignored"},
         run : BaselineRuns \cup {NoRun}]

\* A subtask is open or just completed, completed before the overlap window of 24 hours,
\* or before the 42 days of a full plan.
Ages == {"recent", "late", "old"}

\* "advanced": written by the end of a reconciliation, "baseline" by a baseline.  past: the
\* comments on subtasks completed too early for its overlap window.  History, covers: the
\* events of the plan it was written for.
NoCheckpoint == [kind |-> "none", run |-> NoRun, past |-> {}, covers |-> {}]
Checkpoints == [kind : {"none", "baseline", "advanced"}, run : BaselineRuns \cup {NoRun},
                past : SUBSET Comments, covers : SUBSET Comments]

Tasks == Markers \X Nat

\* events: the comments a plan is about; found: the explicit commands among them for which
\* there is nothing to change; closes: the checkpoint tasks each delegation is to close;
\* missing: the Action Records whose task could not be read; past: as of a checkpoint.
NoPlan == [events |-> {}, found |-> {}, closes |-> [c \in Comments |-> {}], missing |-> {},
           past |-> {}]
Plans == [events : SUBSET Comments, found : SUBSET Comments,
          closes : [Comments -> SUBSET Tasks], missing : SUBSET Actions,
          past : SUBSET Comments]

NoCutover == [planned |-> FALSE, events |-> {}, past |-> {}]
Cutovers == [planned : BOOLEAN, events : SUBSET Comments, past : SUBSET Comments]

\* todo holds the events still to apply, disputes the conflicts still to record, commands
\* and Action Records whose task is missing, unmarked the events still to mark; current is
\* the delegation in progress, at its step; before is the checkpoint a session found.
Idle == [what |-> "none", session |-> FALSE, plan |-> NoPlan, todo |-> {}, disputes |-> {},
         unmarked |-> {}, current |-> NoComment, closing |-> {}, step |-> "page",
         conflicts |-> FALSE, before |-> NoCheckpoint, run |-> NoRun]

CommandRecords ==
    [what : {"none", "apply", "fail", "restore", "baseline"}, session : BOOLEAN,
     plan : Plans, todo : SUBSET Comments, disputes : SUBSET (Comments \cup Actions),
     unmarked : SUBSET Comments, current : Comments \cup {NoComment},
     closing : SUBSET Tasks, step : {"page", "close", "bind"}, conflicts : BOOLEAN,
     before : Checkpoints, run : BaselineRuns \cup {NoRun}]

TypeOK ==
    /\ posted \subseteq Comments
    /\ age \in [OnSubtask -> Ages]
    /\ ledger \in [Comments -> Rows]
    /\ checkpoint \in Checkpoints
    /\ pages \subseteq posted
    /\ opened \in [Markers -> Nat]
    /\ open \subseteq Markers
    /\ bound \in [Comments -> Nat]
    /\ cutover \in [BaselineRuns -> Cutovers]
    /\ plans \subseteq Plans
    /\ cmd \in CommandRecords
    /\ founded \in BaselineRuns \cup {NoRun}
    /\ commands \in 0..MaxCommands
    /\ failures \in 0..MaxFailures

Init ==
    /\ posted = {}
    /\ age = [c \in OnSubtask |-> "recent"]
    /\ ledger = [c \in Comments |-> NoRow]
    /\ checkpoint = NoCheckpoint
    /\ pages = {} /\ open = {}
    /\ opened = [m \in Markers |-> 0]
    /\ bound = [c \in Comments |-> 0]
    /\ cutover = [r \in BaselineRuns |-> NoCutover]
    /\ plans = {}
    /\ cmd = Idle
    /\ founded = NoRun
    /\ commands = 0 /\ failures = 0

-----------------------------------------------------------------------------
(* The source. *)

Post(c) ==
    /\ c \notin posted
    /\ posted' = posted \cup {c}
    /\ UNCHANGED <<age, ledger, checkpoint, providers, cutover, plans, cmd, founded,
                   commands, failures>>

\* The subtask comment c is or will be on was completed, and time has passed.
Age(c) ==
    /\ c \in OnSubtask
    /\ \/ age[c] = "recent" /\ age' = [age EXCEPT ![c] = "late"]
       \/ age[c] = "late" /\ age' = [age EXCEPT ![c] = "old"]
    /\ UNCHANGED <<posted, ledger, checkpoint, providers, cutover, plans, cmd, founded,
                   commands, failures>>

-----------------------------------------------------------------------------
(* Planning. *)

Terminal == {"applied", "informational", "ignored"}

\* event_processed: the row has a terminal status.
Settled(c) == ledger[c].status \in Terminal

\* A subtask is listed when it is open or was completed in the window of the plan, which
\* begins 24 hours before the checkpoint, or 42 days ago for a full plan.
InWindow(c, full) == IF full THEN age[c] # "old" ELSE c \notin checkpoint.past

\* The comments of the mapped tasks that are read, and of their subtasks.
Listed(actions, full) ==
    {c \in posted : ActionOf[c] \in actions /\ (c \in OnSubtask => InWindow(c, full))}

\* The checkpoint tasks bound to the delegated work of c's Action Record, its own,
\* from an attempt that did not end well, included.
ActiveCheckpoints(c) ==
    {<<MarkerOf[d], bound[d]>> : d \in {e \in pages : bound[e] # 0 /\ ActionOf[e] = ActionOf[c]}}

Natural(c) == Kind[c] \in {"delegate", "transition"}

\* Mutation: only what a baseline has set aside counts as processed.
NotIgnored(actions, full) ==
    {c \in Listed(actions, full) : ledger[c].status # "ignored"}

NewEvents(actions, full) == {c \in Listed(actions, full) : ~Settled(c)}

Late == {c \in OnSubtask : age[c] # "recent"}

\* The plan of a run that cannot read the tasks of missing, and finds nothing to change
\* for the commands in found, be it because an earlier attempt or somebody else did it.
PlanOf(events, found, missing) ==
    [events |-> events, found |-> found,
     closes |-> [c \in Comments |-> IF c \in events /\ Natural(c)
                                      THEN ActiveCheckpoints(c) ELSE {}],
     missing |-> missing, past |-> Late]

PlansOf(scope, full) ==
    UNION {LET events == NewEvents(scope \ missing, full)
           IN  {PlanOf(events, found, missing) :
                   found \in SUBSET {c \in events : Kind[c] = "command"}} :
              missing \in SUBSET scope}

\* A task that cannot be read uses up the bound on failures.
Reading(plan) ==
    IF plan.missing = {} THEN UNCHANGED failures
      ELSE failures < MaxFailures /\ failures' = failures + 1

\* require_checkpoint: the checkpoint's evidence is that of a baseline.
Activated == checkpoint.kind = "baseline"

\* Mutation: the ledger is not required to hold a checkpoint.
MayReconcileAlways(session) == TRUE

\* The command line demands Activated.  A session calls ExecutionReconciliationService
\* itself, and only the connector's runbook makes it wait for the first checkpoint.
MayReconcile(session) == IF session THEN checkpoint.kind # "none" ELSE Activated

\* A dry run, whose plan is approved and kept.
Review(plan, session) ==
    /\ cmd = Idle
    /\ MayReconcile(session)
    /\ Cardinality(plans \cup {plan}) <= MaxPlans
    /\ plans' = plans \cup {plan}
    /\ Reading(plan)
    /\ UNCHANGED <<source, ledger, checkpoint, providers, cutover, cmd, founded, commands>>

\* A plan is dropped, or the session that has it ends.
Forget(plan) ==
    /\ cmd = Idle
    /\ plans' = plans \ {plan}
    /\ UNCHANGED <<source, ledger, checkpoint, providers, cutover, cmd, founded, commands,
                   failures>>

-----------------------------------------------------------------------------
(* Applying. *)

\* What the plan digest covers: all but the time of the plan.
Digest(plan) == [plan EXCEPT !.past = {}]

\* _validate_apply_authorization: provider operations need the approval of this plan.
Authorized(plan) ==
    (\E c \in plan.events : Natural(c)) => \E p \in plans : Digest(p) = Digest(plan)

\* What has operations or mutations of its own, and what is but a conflict to record.
Effective(c) == Kind[c] \in {"command", "delegate", "transition"}
Conflicted(c) == Kind[c] = "conflicting"

Begin(plan, session) ==
    /\ cmd = Idle
    /\ commands < MaxCommands
    /\ cmd' = [Idle EXCEPT !.what = "apply", !.session = session, !.plan = plan,
                           !.todo = {c \in plan.events \ plan.found : Effective(c)},
                           !.disputes = plan.missing \cup {c \in plan.events : Conflicted(c)},
                           !.unmarked = plan.events,
                           !.before = IF session THEN checkpoint ELSE NoCheckpoint]
    /\ commands' = commands + 1
    /\ UNCHANGED <<source, ledger, checkpoint, providers, cutover, plans, founded>>

\* The command line makes the plan it applies.
Run(plan) ==
    /\ MayReconcile(FALSE)
    /\ Authorized(plan)
    /\ Begin(plan, FALSE)
    /\ Reading(plan)

\* A session applies a plan it has presented before, whatever has happened since.
ApplyPresented(plan) == Begin(plan, TRUE) /\ UNCHANGED failures

\* Any exception while applying: what is not settled is about to be marked failed.
Failing == [cmd EXCEPT !.what = "fail"]

\* A call with its effect: the command goes on, or the answer is lost.
Answered(next) ==
    \/ cmd' = next /\ UNCHANGED failures
    \/ failures < MaxFailures /\ cmd' = Failing /\ failures' = failures + 1

Rest == <<source, ledger, checkpoint, cutover, plans, founded, commands>>

\* _apply_natural_operations, one delegation: its record, the tasks to close, its own
\* task, the binding of the two.
Delegating(c, step) ==
    cmd.what = "apply" /\ cmd.current = c /\ cmd.step = step

\* Whether the ledger has the comment settled by now is not asked.
WritePage(c) ==
    /\ cmd.what = "apply" /\ cmd.current = NoComment
    /\ c \in cmd.todo
    /\ Kind[c] = "delegate"
    /\ pages' = pages \cup {c}
    /\ Answered([cmd EXCEPT !.current = c, !.step = "close", !.closing = cmd.plan.closes[c]])
    /\ UNCHANGED <<Rest, opened, open, bound>>

CloseObsolete(task) ==
    /\ Delegating(cmd.current, "close")
    /\ task \in cmd.closing
    /\ open' = IF opened[task[1]] = task[2] THEN open \ {task[1]} ELSE open
    /\ Answered([cmd EXCEPT !.closing = @ \ {task}])
    /\ UNCHANGED <<Rest, pages, opened, bound>>

\* The task is found by its marker among the open ones, or created.  Todoist knows
\* the request id of a task it has created before, and may answer with that one.
UpsertTask(c) ==
    LET m == MarkerOf[c]
    IN  /\ Delegating(c, "close")
        /\ cmd.closing = {}
        /\ \/ m \in open /\ UNCHANGED <<opened, open>>
           \/ /\ m \notin open
              /\ opened' = [opened EXCEPT ![m] = @ + 1]
              /\ open' = open \cup {m}
           \/ m \notin open /\ opened[m] > 0 /\ UNCHANGED <<opened, open>>
        /\ Answered([cmd EXCEPT !.step = "bind"])
        /\ UNCHANGED <<Rest, pages, bound>>

\* Mutation: the delegation is taken to be done when its task is.
BindNothing(c) == bound

\* The record names the task.
Binding(c) == [bound EXCEPT ![c] = opened[MarkerOf[c]]]

Bind(c) ==
    /\ Delegating(c, "bind")
    /\ bound' = Binding(c)
    /\ Answered([cmd EXCEPT !.current = NoComment, !.step = "page", !.todo = @ \ {c}])
    /\ UNCHANGED <<Rest, pages, opened, open>>

\* Mutation: an operation apply() does not know is skipped.
RefusedSkipped(c) == [cmd EXCEPT !.todo = @ \ {c}]

Refused(c) == Failing

\* An ordinary comment that is no delegation has no operation apply() knows.
Refuse(c) ==
    /\ cmd.what = "apply" /\ cmd.current = NoComment
    /\ c \in cmd.todo
    /\ Kind[c] = "transition"
    /\ cmd' = Refused(c)
    /\ UNCHANGED <<Rest, providers, failures>>

\* The mutations, of explicit commands or conflicts, come after all ordinary comments.
Mutating ==
    /\ cmd.what = "apply" /\ cmd.current = NoComment
    /\ \A d \in cmd.todo : ~Natural(d)

\* An earlier plan may hold what a later one has settled.
SkipProcessed(c) ==
    /\ Mutating
    /\ c \in cmd.todo \cup cmd.disputes /\ Settled(c)
    /\ cmd' = [cmd EXCEPT !.todo = @ \ {c}, !.disputes = @ \ {c}]
    /\ UNCHANGED <<Rest, providers, failures>>

\* Upserts keyed by the comment, or updates of a page.
Mutate(c) ==
    /\ Mutating
    /\ c \in cmd.todo /\ Kind[c] = "command" /\ ~Settled(c)
    /\ pages' = pages \cup {c}
    /\ Answered([cmd EXCEPT !.todo = @ \ {c}])
    /\ UNCHANGED <<Rest, opened, open, bound>>

\* A missing task is a conflict without a comment.
RecordConflict(x) ==
    /\ Mutating
    /\ x \in cmd.disputes /\ ~(x \in Comments /\ Settled(x))
    /\ Answered([cmd EXCEPT !.disputes = @ \ {x}, !.conflicts = TRUE])
    /\ UNCHANGED <<Rest, providers>>

\* A call fails without an effect.
Fail ==
    /\ cmd.what = "apply"
    /\ cmd.todo # {} \/ cmd.disputes # {}
    /\ failures < MaxFailures
    /\ failures' = failures + 1
    /\ cmd' = Failing
    /\ UNCHANGED <<Rest, providers>>

-----------------------------------------------------------------------------
(* Recording. *)

\* The status of an event once its plan is applied: where there was nothing to do it is
\* "informational" (or "blocked"), anything else is "applied", a conflict too.
StatusOf(c) ==
    IF Kind[c] = "note" \/ c \in cmd.plan.found THEN "informational" ELSE "applied"

Carried == cmd.what = "apply" /\ cmd.todo = {} /\ cmd.disputes = {}

\* The events may be marked: all has been applied, or something failed.
Marking == Carried \/ cmd.what = "fail"

Mark(c) ==
    /\ Marking
    /\ c \in cmd.unmarked
    /\ ledger' = IF Settled(c) THEN ledger
                   ELSE [ledger EXCEPT ![c] =
                           [status |-> IF cmd.what = "apply" THEN StatusOf(c) ELSE "failed",
                            run |-> NoRun]]
    /\ cmd' = [cmd EXCEPT !.unmarked = @ \ {c}]
    /\ UNCHANGED <<source, checkpoint, providers, cutover, plans, founded, commands,
                   failures>>

\* After a failure the exception goes on to the caller.
Raise ==
    /\ cmd.what = "fail"
    /\ cmd.unmarked = {}
    /\ cmd' = Idle
    /\ UNCHANGED <<Rest, providers, failures>>

\* Mutation: the checkpoint is moved before the events are marked.
RecordedOrNot == Carried

Recorded == Carried /\ cmd.unmarked = {}

\* set_checkpoint with the time of the plan and without the metadata of a baseline.  A
\* session puts the checkpoint back when a conflict was recorded
\* (services/execution_reconciliation.py).
Advance ==
    /\ Recorded
    /\ checkpoint' = [kind |-> "advanced", run |-> NoRun, past |-> cmd.plan.past,
                      covers |-> cmd.plan.events]
    /\ cmd' = IF cmd.session /\ cmd.conflicts THEN [cmd EXCEPT !.what = "restore"] ELSE Idle
    /\ UNCHANGED <<source, ledger, providers, cutover, plans, founded, commands, failures>>

Restore ==
    /\ cmd.what = "restore"
    /\ checkpoint' = [kind |-> "advanced", run |-> NoRun, past |-> cmd.before.past,
                      covers |-> cmd.before.covers]
    /\ cmd' = Idle
    /\ UNCHANGED <<source, ledger, providers, cutover, plans, founded, commands, failures>>

-----------------------------------------------------------------------------
(* The baseline. *)

\* A dry run of baseline r fixes its cutover, and with it the events before it: whenever
\* their subtasks were completed, but not those of historical Action Records.
PlanBaseline(r) ==
    /\ cmd = Idle
    /\ ~cutover[r].planned
    /\ cutover' = [cutover EXCEPT ![r] =
                     [planned |-> TRUE, past |-> Late,
                      events |-> {c \in posted : ActionOf[c] \notin Historical}]]
    /\ UNCHANGED <<source, ledger, checkpoint, providers, plans, cmd, founded, commands,
                   failures>>

StartBaseline(r) ==
    /\ cmd = Idle
    /\ commands < MaxCommands
    /\ cutover[r].planned
    /\ cmd' = [Idle EXCEPT !.what = "baseline", !.run = r, !.unmarked = cutover[r].events]
    /\ commands' = commands + 1
    /\ UNCHANGED <<source, ledger, checkpoint, providers, cutover, plans, founded, failures>>

BaselineRow(r) == [status |-> "ignored", run |-> r]

Recording(c) == cmd.what = "baseline" /\ c \in cmd.unmarked

\* The row is there from an earlier attempt.
Replay(c) ==
    /\ Recording(c)
    /\ ledger[c] = BaselineRow(cmd.run)
    /\ cmd' = [cmd EXCEPT !.unmarked = @ \ {c}]
    /\ UNCHANGED <<Rest, providers, failures>>

\* Mutation: a conflict does not count as a failure.
ConflictingNever == FALSE

Conflicting == TRUE

\* Another row is: the others are still recorded, but no checkpoint will be.
FindConflict(c) ==
    /\ Recording(c)
    /\ ledger[c] \notin {NoRow, BaselineRow(cmd.run)}
    /\ cmd' = [cmd EXCEPT !.unmarked = @ \ {c}, !.conflicts = @ \/ Conflicting]
    /\ UNCHANGED <<Rest, providers, failures>>

\* The row is written and read back; or the call fails, and the row may be there.
RecordBaseline(c) ==
    /\ Recording(c)
    /\ ledger[c] = NoRow
    /\ \/ /\ ledger' = [ledger EXCEPT ![c] = BaselineRow(cmd.run)]
          /\ cmd' = [cmd EXCEPT !.unmarked = @ \ {c}]
          /\ UNCHANGED failures
       \/ /\ failures < MaxFailures
          /\ failures' = failures + 1
          /\ \/ ledger' = [ledger EXCEPT ![c] = BaselineRow(cmd.run)]
             \/ UNCHANGED ledger
          /\ cmd' = [cmd EXCEPT !.unmarked = @ \ {c}, !.conflicts = TRUE]
    /\ UNCHANGED <<source, checkpoint, providers, cutover, plans, founded, commands>>

\* No checkpoint after a failure, and none over another one.
FinishBaseline ==
    /\ cmd.what = "baseline"
    /\ cmd.unmarked = {}
    /\ IF ~cmd.conflicts /\ checkpoint.kind = "none"
         THEN /\ checkpoint' = [kind |-> "baseline", run |-> cmd.run,
                                 past |-> cutover[cmd.run].past,
                                 covers |-> cutover[cmd.run].events]
              /\ founded' = cmd.run
         ELSE UNCHANGED <<checkpoint, founded>>
    /\ cmd' = Idle
    /\ UNCHANGED <<source, ledger, providers, cutover, plans, commands, failures>>

-----------------------------------------------------------------------------

\* The process dies, or a call outside any handler raises.
Crash ==
    /\ cmd # Idle
    /\ failures < MaxFailures
    /\ failures' = failures + 1
    /\ cmd' = Idle
    /\ UNCHANGED <<Rest, providers>>

Next ==
    \/ \E c \in Comments :
          \/ Post(c) \/ Age(c)
          \/ WritePage(c) \/ UpsertTask(c) \/ Bind(c) \/ Refuse(c)
          \/ SkipProcessed(c) \/ Mutate(c)
          \/ Mark(c)
          \/ Replay(c) \/ FindConflict(c) \/ RecordBaseline(c)
    \/ \E task \in cmd.closing : CloseObsolete(task)
    \/ \E x \in cmd.disputes : RecordConflict(x)
    \/ \E scope \in Scopes, full \in BOOLEAN : \E plan \in PlansOf(scope, full) :
          Run(plan) \/ \E session \in BOOLEAN : Review(plan, session)
    \/ \E plan \in plans : ApplyPresented(plan) \/ Forget(plan)
    \/ \E r \in BaselineRuns : PlanBaseline(r) \/ StartBaseline(r)
    \/ Fail \/ Raise \/ Advance \/ Restore \/ FinishBaseline \/ Crash

Spec == Init /\ [][Next]_vars

-----------------------------------------------------------------------------
(* Safety. *)

\* A ledger row that says applied is true, whatever failed or was retried before and
\* however old the plan: the record the comment asks for exists and, for a delegation,
\* names a checkpoint task that was created.
AppliedHasEffect ==
    \A c \in Comments : ledger[c].status = "applied" =>
        /\ Kind[c] \in {"command", "delegate"} => c \in pages
        /\ Kind[c] = "delegate" => bound[c] \in 1..opened[MarkerOf[c]]

\* A comment of another kind never gets an effect and is never recorded as applied
\* but for a conflict: a transition nobody can execute is not taken for done.
OnlyRequestedEffects ==
    \A c \in Comments :
        /\ c \in pages => Kind[c] \in {"command", "delegate"}
        /\ ledger[c].status = "applied" => Kind[c] \notin {"transition", "note"}

\* A comment the activating baseline has set aside is inert: no reconciliation, before or
\* after, from the command line or a session, has written a record for it or named a task.
BaselineIsInert ==
    \A c \in Comments : founded # NoRun /\ ledger[c] = BaselineRow(founded)
        => c \notin pages /\ bound[c] = 0

\* The baseline's checkpoint is there only once every event of its plan has its row,
\* through failed writes, crashes, and another baseline that got stuck.
BaselineIsComplete ==
    Activated => \A c \in cutover[checkpoint.run].events : ledger[c] = BaselineRow(checkpoint.run)

\* The checkpoint stands for a plan that was carried out whole: each of its events is
\* settled, after failures and retries, conflicts that put the checkpoint back, and plans
\* applied in another order than they were made in (service.py:675-694).
CheckpointCoversSettled == \A c \in checkpoint.covers : Settled(c)

-----------------------------------------------------------------------------
(* Steps. *)

\* The row of a settled event is never rewritten (service.py:663-677, baseline.py:257-262),
\* and an explicit command is not executed again (:617); a delegation in an earlier plan is.
SettledIsFinal ==
    [][\A c \in Comments : Settled(c)
           => /\ ledger'[c] = ledger[c]
              /\ Kind[c] # "delegate" => (c \in pages' <=> c \in pages) /\ bound'[c] = bound[c]
       ]_vars

-----------------------------------------------------------------------------
(* Refinement: what CommentSettlement promises. *)

Outcome == [c \in Comments |-> IF Settled(c) THEN ledger[c].status ELSE "open"]

Planned == UNION {plan.events : plan \in plans}

Promise == INSTANCE CommentSettlement WITH
    approved <- Planned, record <- pages, tasks <- opened, named <- bound, outcome <- Outcome

\* Every step of plans, commands, baselines and failures is a step of CommentSettlement or
\* changes nothing there: only an open comment is put in a plan (service.py:416-425), a
\* delegation is carried out only from a plan that was presented, an explicit command only
\* while it is open (:617), its record before its task and the task before the row that
\* says applied (:768-828, 663-693), and a terminal row stays.
ImplementsSettlement == Promise!SettlementSpec

=============================================================================
