------------------------------ MODULE TaskTree ------------------------------
(***************************************************************************)
(* From candidates to tasks: plans are made of the candidates as they are  *)
(* by then and of what is known to exist (ExecutionPlanning), and a plan    *)
(* that is attended to is carried out by the operations the command        *)
(* factory makes of it (src/atlas_ros/orchestration/commands.py), one at a  *)
(* time, by the Todoist adapter (src/atlas_ros/adapters/                    *)
(* todoist_execution.py): the outcome's task, and one task under it for    *)
(* each step, found again by its number and title.                         *)
(*                                                                         *)
(* Meanwhile dependencies are resolved, tasks are completed, and other     *)
(* plans are made; a plan may be carried out late, twice, or up to a       *)
(* failure.                                                                *)
(***************************************************************************)
EXTENDS ExecutionPlanning

CONSTANTS
    Inputs,       \* the sequences of candidates a behaviour may start with
    MaxPlans,     \* no plans are made once a behaviour has as many
    MaxChanges,   \* bound on new evidence and completed tasks
    MaxFailures   \* bound on runs that end early

ASSUME TreeAssumption ==
    /\ \A candidates \in Inputs :
         candidates \in Seq(Candidate) /\ \E c \in ToSet(candidates) : c.type = "parent"
    /\ MaxPlans \in Nat /\ MaxChanges \in Nat /\ MaxFailures \in Nat

VARIABLES
    given,     \* the candidates
    index,     \* what the planner was last told to exist
    plans,     \* the plans made so far, each with the tasks its index listed
    tasks,     \* the tasks that were ever created, in order
    run,       \* the plan that is carried out, or Idle
    mixed,     \* a plan was started that did not know of another one's task
    changes, failures   \* how much of each bound is used

vars == <<given, index, plans, tasks, run, mixed, changes, failures>>

\* No plan is carried out.  While one is, link is the task the caller names as the
\* outcome's, at counts the operations done, parent is the outcome's task once known,
\* and children what READ_CHILDREN returned.
Idle == [plan |-> 0, link |-> 0, at |-> 0, parent |-> 0, children |-> {}]

TreeInit ==
    /\ given \in Inputs
    /\ index = {}
    /\ plans = <<>>
    /\ tasks = <<>>
    /\ run = Idle
    /\ mixed = FALSE
    /\ changes = 0 /\ failures = 0

Open == {n \in DOMAIN tasks : tasks[n].state = "open"}
Under(n) == {m \in DOMAIN tasks : tasks[m].under = n}

-----------------------------------------------------------------------------
(* Planning. *)

\* The evidence a horizon is changed by: a trigger or a prerequisite.
Evidence(c) ==
    CASE c.horizon = "conditional" -> [c EXCEPT !.triggered = TRUE]
      [] c.horizon = "next" -> [c EXCEPT !.horizon = "current"]
      [] OTHER -> [c EXCEPT !.ready = TRUE]

NewEvidence(i) ==
    /\ changes < MaxChanges
    /\ Evidence(given[i]) # given[i]
    /\ given' = [given EXCEPT ![i] = Evidence(@)]
    /\ changes' = changes + 1
    /\ UNCHANGED <<index, plans, tasks, run, mixed, failures>>

\* Somebody completes a task, and those under it, which is evidence as well.
Complete(n) ==
    /\ changes < MaxChanges
    /\ n \in Open
    /\ LET done == {n} \cup Under(n)
           sources == {tasks[m].source : m \in done}
       IN  /\ tasks' = [m \in DOMAIN tasks |->
                           IF m \in done THEN [tasks[m] EXCEPT !.state = "completed"] ELSE tasks[m]]
           /\ given' = [i \in DOMAIN given |->
                           IF given[i].id \in sources THEN [given[i] EXCEPT !.complete = TRUE]
                                                      ELSE given[i]]
    /\ changes' = changes + 1
    /\ UNCHANGED <<index, plans, run, mixed, failures>>

\* The tasks are read back into an index.
ReadIndex ==
    /\ index' = {[task |-> n, source |-> tasks[n].source, objective |-> tasks[n].objective,
                  doneWhen |-> tasks[n].doneWhen, state |-> tasks[n].state] : n \in DOMAIN tasks}
    /\ UNCHANGED <<given, plans, tasks, run, mixed, changes, failures>>

MakePlans ==
    /\ Len(plans) < MaxPlans
    /\ LET made == Plans(given, index)
       IN  plans' = plans \o [p \in DOMAIN made |->
                                 [number |-> made[p].number, plan |-> made[p].plan,
                                  known |-> {object.task : object \in index}]]
    /\ UNCHANGED <<given, index, tasks, run, mixed, changes, failures>>

-----------------------------------------------------------------------------
(* Carrying a plan out. *)

\* The tasks of the same outcome that others created and the plan does not know.
Unknown(p) ==
    {n \in DOMAIN tasks : /\ tasks[n].number = plans[p].number
                          /\ tasks[n].by # p /\ n \notin plans[p].known}

\* The factory makes operations of a plan with an outcome only.
Start(p, link) ==
    /\ run = Idle
    /\ plans[p].plan.projected
    /\ run' = [Idle EXCEPT !.plan = p, !.link = link]
    /\ mixed' = (mixed \/ Unknown(p) # {})
    /\ UNCHANGED <<given, index, plans, tasks, changes, failures>>

\* The task of candidate c in the plan that runs; seq is 0 for the outcome.
Task(c, seq, under) ==
    [number |-> plans[run.plan].number, seq |-> seq, title |-> c.title,
     objective |-> c.objective, doneWhen |-> c.doneWhen, source |-> c.id,
     under |-> under, state |-> "open", by |-> run.plan]

\* The provider answers a create request with the task it made for that request's
\* key: the action's, or the action's, the number's and the title's.
SameKey(task) ==
    {n \in DOMAIN tasks : /\ tasks[n].number = task.number /\ tasks[n].seq = task.seq
                          /\ (task.seq = 0 \/ tasks[n].title = task.title)}

\* The number of the task that answers: the one found, or the one created.
Answer(found, task) ==
    CASE found # 0 -> found
      [] found = 0 /\ SameKey(task) # {} -> CHOOSE n \in SameKey(task) : TRUE
      [] OTHER -> Len(tasks) + 1

\* The task found is given the content wanted; without one it is created.
Upserted(found, task) ==
    CASE found # 0 -> [tasks EXCEPT ![found].title = task.title,
                                    ![found].objective = task.objective,
                                    ![found].doneWhen = task.doneWhen]
      [] found = 0 /\ SameKey(task) # {} -> tasks
      [] OTHER -> Append(tasks, task)

\* The answer has to have the content and the place that were asked for.
Agrees(answer, task) ==
    /\ answer.title = task.title /\ answer.under = task.under
    /\ answer.objective = task.objective /\ answer.doneWhen = task.doneWhen

UpsertParent ==
    /\ run # Idle /\ run.at = 0
    /\ LET task == Task(plans[run.plan].plan.outcome, 0, 0)
           n == Answer(run.link, task)
       IN  /\ tasks' = Upserted(run.link, task)
           /\ run' = IF Agrees(tasks'[n], task) THEN [run EXCEPT !.parent = n, !.at = 1] ELSE Idle
    /\ UNCHANGED <<given, index, plans, mixed, changes, failures>>

ReadChildren ==
    /\ run.at = 1
    /\ run' = [run EXCEPT !.children = Under(run.parent) \cap Open, !.at = 2]
    /\ UNCHANGED <<given, index, plans, tasks, mixed, changes, failures>>

Steps == plans[run.plan].plan.steps

\* The child that was listed with this number and title, if any.
Listed(task) ==
    LET same == {n \in run.children : tasks[n].seq = task.seq /\ tasks[n].title = task.title}
    IN  IF same = {} THEN 0 ELSE CHOOSE n \in same : TRUE

UpsertChild ==
    /\ run.at >= 2 /\ run.at - 1 <= Len(Steps)
    /\ LET task == Task(Steps[run.at - 1], run.at - 1, run.parent)
           n == Answer(Listed(task), task)
       IN  /\ tasks' = Upserted(Listed(task), task)
           /\ run' = IF Agrees(tasks'[n], task) THEN [run EXCEPT !.at = @ + 1] ELSE Idle
    /\ UNCHANGED <<given, index, plans, mixed, changes, failures>>

\* The open children are compared with the steps.  The run ends either way, and what it
\* reports is kept nowhere.
VerifyTree ==
    /\ run.at >= 2 /\ run.at - 1 > Len(Steps)
    /\ run' = Idle
    /\ UNCHANGED <<given, index, plans, tasks, mixed, changes, failures>>

\* An operation fails for good, after its effect or before, or the process dies.
Fail ==
    /\ run # Idle
    /\ failures < MaxFailures
    /\ run' = Idle
    /\ failures' = failures + 1
    /\ UNCHANGED <<given, index, plans, tasks, mixed, changes>>
-----------------------------------------------------------------------------

\* The tasks a caller may name as the outcome's.
Links(p) == {n \in DOMAIN tasks : tasks[n].number = plans[p].number /\ tasks[n].seq = 0}

TreeNext ==
    \/ \E i \in DOMAIN given : NewEvidence(i)
    \/ \E n \in Open : Complete(n)
    \/ ReadIndex
    \/ MakePlans
    \/ \E p \in DOMAIN plans : \E link \in Links(p) \cup {0} : Start(p, link)
    \/ UpsertParent
    \/ ReadChildren
    \/ UpsertChild
    \/ VerifyTree
    \/ Fail

TreeSpec == TreeInit /\ [][TreeNext]_vars

-----------------------------------------------------------------------------
(* What planning promises. *)

\* Two candidates that have to do with each other.
Close(c, d) == Matches(c, d) \/ Resembles(c, d)

\* Of the candidates exactly those are new that are close to no new one of a lower
\* identifier: no two new ones are close, and whoever is held back is close to a new
\* one, rather than to one that was held back itself (DuplicateAnalyzer keeps only
\* what it found new).
KeptIsKernel ==
    plans = <<>> /\ UniqueIds(given) =>
        LET found == Findings(given)
            new == {c \in ToSet(given) : found[c.id] = "new"}
        IN  \A c \in ToSet(given) :
                c \in new <=> ~\E d \in new : d.id < c.id /\ Close(c, d)

\* In whatever order the candidates are given, they make the same plans: the analysis
\* sorts them by identifier, and the plans by place.
OrderIrrelevant ==
    plans = <<>> /\ UniqueIds(given) =>
        \A f \in Bijection(DOMAIN given, DOMAIN given) :
            Plans([i \in DOMAIN given |-> given[f[i]]], index) = Plans(given, index)

-----------------------------------------------------------------------------
(* What the tasks show. *)

\* However often a plan is carried out and wherever it stopped before, and whatever was
\* planned in between, a candidate has one task under an outcome, as long as identifiers
\* are distinct and no plan is started that does not know a task another one made: the
\* numbers, titles and keys of a plan find its own tasks, and the index suppresses those
\* of the others.
OneTaskPerCandidate ==
    ~mixed /\ UniqueIds(given) => \A n, m \in DOMAIN tasks :
        tasks[n].number = tasks[m].number /\ tasks[n].source = tasks[m].source => n = m

\* Nor are there more tasks under one than the review threshold lets a plan have.
TreesWithinBudget ==
    ~mixed => \A n \in DOMAIN tasks : Cardinality(Under(n)) <= ReviewThreshold
=============================================================================
