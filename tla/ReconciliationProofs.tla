------------------------ MODULE ReconciliationProofs ------------------------
(***************************************************************************)
(* What holds of Reconciliation for every set of comments, kinds, markers,  *)
(* baseline runs and plans in hand, and every bound.                        *)
(*                                                                         *)
(* The invariant says of the command in progress that what it has removed   *)
(* from its lists is done, settled or recorded; of a plan, however old,     *)
(* that its delegations were presented and that the activating baseline     *)
(* has set none of its events aside; of the first checkpoint, that the rows *)
(* of its baseline were there before it and that nothing was applied before *)
(* them.                                                                   *)
(***************************************************************************)
EXTENDS Reconciliation, TLAPS

\* What c asks for is in place.
Effected(c) ==
    /\ Kind[c] # "transition"
    /\ Kind[c] \in {"command", "delegate"} => c \in pages
    /\ Kind[c] = "delegate" => bound[c] \in 1..opened[MarkerOf[c]]

TasksExist ==
    /\ \A c \in Comments : bound[c] <= opened[MarkerOf[c]]
    /\ \A m \in open : opened[m] >= 1

RowsAreTrue == AppliedHasEffect /\ OnlyRequestedEffects

\* A plan, however old.
PlanIsSound(plan) ==
    /\ plan.events \subseteq posted
    /\ plan.found \subseteq {c \in plan.events : Kind[c] = "command"}
    /\ founded # NoRun => \A c \in plan.events : ledger[c] # BaselineRow(founded)

PlansAreSound ==
    /\ plans # {} => checkpoint.kind # "none"
    /\ \A plan \in plans : PlanIsSound(plan)

\* While a plan is applied.
Applying ==
    /\ PlanIsSound(cmd.plan)
    /\ \A c \in cmd.plan.events : Kind[c] = "delegate" => c \in Planned
    /\ cmd.todo \subseteq cmd.plan.events \ cmd.plan.found
    /\ cmd.unmarked \subseteq cmd.plan.events
    /\ \A c \in (cmd.plan.events \ cmd.plan.found) \ cmd.todo : Effected(c) \/ Settled(c)
    /\ \A c \in cmd.plan.events \ cmd.unmarked : Settled(c)
    /\ cmd.current # NoComment =>
         /\ cmd.current \in cmd.todo /\ Kind[cmd.current] = "delegate"
         /\ cmd.current \in pages
         /\ cmd.step = "bind" => opened[MarkerOf[cmd.current]] >= 1

Baselining ==
    /\ cmd.run \in BaselineRuns /\ cutover[cmd.run].planned
    /\ cmd.unmarked \subseteq cutover[cmd.run].events
    /\ ~cmd.conflicts => \A c \in cutover[cmd.run].events \ cmd.unmarked :
                            ledger[c] = BaselineRow(cmd.run)

CommandIsSound ==
    /\ cmd.what = "apply" => Applying
    /\ cmd.what = "baseline" => Baselining
    /\ cmd.what \in {"apply", "fail", "restore"} => checkpoint.kind # "none"

\* The first checkpoint.
FoundingIsSound ==
    /\ founded = NoRun <=> checkpoint.kind = "none"
    /\ founded = NoRun => pages = {} /\ \A c \in Comments : bound[c] = 0
    /\ founded # NoRun => /\ cutover[founded].planned
                          /\ \A c \in cutover[founded].events : ledger[c] = BaselineRow(founded)
    /\ checkpoint.kind = "baseline" => checkpoint.run = founded
    /\ BaselineIsInert

\* The checkpoint, and the one a session may put back.
CoversAreSettled ==
    /\ CheckpointCoversSettled
    /\ cmd.what \in {"apply", "restore"} => \A c \in cmd.before.covers : Settled(c)

IInv == /\ TypeOK /\ TasksExist /\ RowsAreTrue /\ PlansAreSound /\ CommandIsSound
        /\ FoundingIsSound /\ CoversAreSettled

-----------------------------------------------------------------------------
(* The steps of plans. *)

Fresh(plan) == \E scope \in Scopes, full \in BOOLEAN : plan \in PlansOf(scope, full)

Reviews(plan) == Fresh(plan) /\ \E session \in BOOLEAN : Review(plan, session)
Starts(plan) == (Fresh(plan) /\ Run(plan)) \/ (plan \in plans /\ ApplyPresented(plan))

\* Next, with its steps of plans by these names.
LEMMA Steps ==
    ASSUME Next
    PROVE  \/ \E c \in Comments :
                 \/ Post(c) \/ Age(c)
                 \/ WritePage(c) \/ UpsertTask(c) \/ Bind(c) \/ Refuse(c)
                 \/ SkipProcessed(c) \/ Mutate(c)
                 \/ Mark(c)
                 \/ Replay(c) \/ FindConflict(c) \/ RecordBaseline(c)
           \/ \E task \in cmd.closing : CloseObsolete(task)
           \/ \E x \in cmd.disputes : RecordConflict(x)
           \/ \E plan : Reviews(plan)
           \/ \E plan : Starts(plan)
           \/ \E plan \in plans : Forget(plan)
           \/ \E r \in BaselineRuns : PlanBaseline(r) \/ StartBaseline(r)
           \/ Fail \/ Raise \/ Advance \/ Restore \/ FinishBaseline \/ Crash
<1>1. CASE \E scope \in Scopes, full \in BOOLEAN : \E plan \in PlansOf(scope, full) :
              Run(plan) \/ \E session \in BOOLEAN : Review(plan, session)
  <2>0. PICK scope \in Scopes, full \in BOOLEAN : \E plan \in PlansOf(scope, full) :
           Run(plan) \/ \E session \in BOOLEAN : Review(plan, session)
    BY <1>1
  <2>1. PICK plan \in PlansOf(scope, full) :
           Run(plan) \/ \E session \in BOOLEAN : Review(plan, session)
    BY <2>0
  <2>2. Fresh(plan)
    BY <2>1 DEF Fresh
  <2>3. Starts(plan) \/ Reviews(plan)
    BY <2>1, <2>2 DEF Starts, Reviews
  <2> QED BY <2>3
<1>2. CASE \E plan \in plans : ApplyPresented(plan)
  BY <1>2 DEF Starts
<1> QED BY <1>1, <1>2 DEF Next

\* A plan that was just made is about comments that exist and are not settled.
LEMMA FreshFacts ==
    ASSUME TypeOK, NEW plan, Fresh(plan)
    PROVE  /\ plan \in Plans
           /\ PlanIsSound(plan)
           /\ \A c \in plan.events : ~Settled(c)
<1>1. PICK scope \in Scopes, full \in BOOLEAN : plan \in PlansOf(scope, full)
  BY DEF Fresh
<1>2. PICK missing \in SUBSET scope :
        \E found \in SUBSET {c \in NewEvents(scope \ missing, full) : Kind[c] = "command"} :
           plan = PlanOf(NewEvents(scope \ missing, full), found, missing)
  BY <1>1 DEF PlansOf
<1> DEFINE events == NewEvents(scope \ missing, full)
<1>3. PICK found \in SUBSET {c \in events : Kind[c] = "command"} :
         plan = PlanOf(events, found, missing)
  BY <1>2
<1>4. events \subseteq posted /\ \A c \in events : ~Settled(c)
  BY DEF NewEvents, Listed
<1> HIDE DEF events
<1>5. missing \subseteq Actions /\ posted \subseteq Comments /\ Late \subseteq Comments
  BY ReconciliationAssumption DEF TypeOK, Late
<1>6. \A c \in Comments : ActiveCheckpoints(c) \subseteq Tasks
  BY ReconciliationAssumption DEF TypeOK, ActiveCheckpoints, Tasks
<1>7. plan.events = events /\ plan.found = found
  BY <1>3 DEF PlanOf
<1>8. plan \in Plans
  BY <1>3, <1>4, <1>5, <1>6 DEF PlanOf, Plans
<1>9. ASSUME NEW c \in events, NEW r PROVE ledger[c] # BaselineRow(r)
  BY <1>4 DEF Settled, Terminal, BaselineRow
<1> QED BY <1>4, <1>7, <1>8, <1>9 DEF PlanIsSound

\* A command starts to apply a plan that may be old but is sound, and whose delegations
\* were presented.
LEMMA StartFacts ==
    ASSUME IInv, NEW plan, Starts(plan)
    PROVE  /\ \E session \in BOOLEAN : Begin(plan, session)
           /\ plan \in Plans /\ PlanIsSound(plan)
           /\ \A c \in plan.events : Kind[c] = "delegate" => c \in Planned
           /\ checkpoint.kind # "none"
           /\ failures' \in 0..MaxFailures
<1>a. TypeOK /\ PlansAreSound
  BY DEF IInv
<1>b. failures \in 0..MaxFailures /\ MaxFailures \in Nat
  BY <1>a, ReconciliationAssumption DEF TypeOK
<1>1. CASE Fresh(plan) /\ Run(plan)
  <2>1. Begin(plan, FALSE) /\ checkpoint.kind # "none" /\ Authorized(plan)
    BY <1>1 DEF Run, MayReconcile, Activated
  <2>2. plan \in Plans /\ PlanIsSound(plan)
    BY <1>1, <1>a, FreshFacts
  <2>3. failures' \in 0..MaxFailures
    BY <1>1, <1>b DEF Run, Reading
  <2>4. ASSUME NEW c \in plan.events, Kind[c] = "delegate" PROVE c \in Planned
    <3>1. PICK p \in plans : Digest(p) = Digest(plan)
      BY <2>1, <2>4 DEF Authorized, Natural
    <3>2. p \in Plans
      BY <1>a DEF TypeOK
    <3>3. Digest(p).events = p.events /\ Digest(plan).events = plan.events
      BY <2>2, <3>2 DEF Digest, Plans
    <3> QED BY <2>4, <3>1, <3>3 DEF Planned
  <2> QED BY <2>1, <2>2, <2>3, <2>4
<1>2. CASE plan \in plans /\ ApplyPresented(plan)
  <2>1. Begin(plan, TRUE) /\ failures' = failures
    BY <1>2 DEF ApplyPresented
  <2>2. plan \in Plans /\ PlanIsSound(plan) /\ checkpoint.kind # "none"
    BY <1>2, <1>a DEF TypeOK, PlansAreSound
  <2>3. \A c \in plan.events : c \in Planned
    BY <1>2 DEF Planned
  <2> QED BY <2>1, <2>2, <2>3, <1>b
<1> QED BY <1>1, <1>2 DEF Starts

\* What it starts with.
LEMMA BeginFacts ==
    ASSUME TypeOK, NEW plan \in Plans, NEW session \in BOOLEAN, Begin(plan, session)
    PROVE  /\ cmd' \in CommandRecords
           /\ cmd'.what = "apply" /\ cmd'.plan = plan
           /\ cmd'.todo = {c \in plan.events \ plan.found : Effective(c)}
           /\ cmd'.unmarked = plan.events /\ cmd'.current = NoComment
           /\ cmd'.before \in {checkpoint, NoCheckpoint}
           /\ UNCHANGED <<source, ledger, checkpoint, providers, cutover, plans, founded>>
           /\ commands' \in 0..MaxCommands
<1>1. cmd' = [Idle EXCEPT !.what = "apply", !.session = session, !.plan = plan,
                          !.todo = {c \in plan.events \ plan.found : Effective(c)},
                          !.disputes = plan.missing \cup {c \in plan.events : Conflicted(c)},
                          !.unmarked = plan.events,
                          !.before = IF session THEN checkpoint ELSE NoCheckpoint]
  BY DEF Begin
<1>2. plan.events \subseteq Comments /\ plan.missing \subseteq Actions
  BY DEF Plans
<1>3. checkpoint \in Checkpoints /\ NoCheckpoint \in Checkpoints
  BY DEF TypeOK, Checkpoints, NoCheckpoint
<1>4. cmd' = [what |-> "apply", session |-> session, plan |-> plan,
              todo |-> {c \in plan.events \ plan.found : Effective(c)},
              disputes |-> plan.missing \cup {c \in plan.events : Conflicted(c)},
              unmarked |-> plan.events, current |-> NoComment, closing |-> {}, step |-> "page",
              conflicts |-> FALSE,
              before |-> IF session THEN checkpoint ELSE NoCheckpoint, run |-> NoRun]
  BY <1>1 DEF Idle
<1>5. cmd' \in CommandRecords
  BY <1>2, <1>3, <1>4 DEF CommandRecords
<1>6. commands' \in 0..MaxCommands
  <2>1. commands < MaxCommands /\ commands' = commands + 1
    BY DEF Begin
  <2>2. commands \in 0..MaxCommands /\ MaxCommands \in Nat
    BY ReconciliationAssumption DEF TypeOK
  <2> QED BY <2>1, <2>2
<1>7. /\ cmd'.what = "apply" /\ cmd'.plan = plan
      /\ cmd'.todo = {c \in plan.events \ plan.found : Effective(c)}
      /\ cmd'.unmarked = plan.events /\ cmd'.current = NoComment
  BY <1>4
<1>8. cmd'.before = IF session THEN checkpoint ELSE NoCheckpoint
  BY <1>4
<1>9. UNCHANGED <<source, ledger, checkpoint, providers, cutover, plans, founded>>
  BY DEF Begin
<1> QED BY <1>5, <1>6, <1>7, <1>8, <1>9

-----------------------------------------------------------------------------
(* Types. *)

LEMMA CommandType == Idle \in CommandRecords /\ Idle.what = "none"
BY DEF Idle, CommandRecords, NoPlan, Plans, Checkpoints, NoCheckpoint

LEMMA FailingType == TypeOK => Failing \in CommandRecords /\ Failing.what = "fail"
BY DEF TypeOK, Failing, CommandRecords

LEMMA AnsweredType ==
    ASSUME TypeOK, NEW next \in CommandRecords, Answered(next)
    PROVE  cmd' \in CommandRecords /\ failures' \in 0..MaxFailures
BY FailingType, ReconciliationAssumption DEF TypeOK, Answered

LEMMA TypeStep == IInv /\ Next => TypeOK'
<1> SUFFICES ASSUME IInv, Next PROVE TypeOK'
  OBVIOUS
<1>a. TypeOK /\ (cmd.what = "apply" => Applying)
  BY DEF IInv, CommandIsSound
<1>b. MaxCommands \in Nat /\ MaxFailures \in Nat
  BY ReconciliationAssumption
<1> USE <1>b, CommandType, FailingType
<1>1. ASSUME NEW c \in Comments, Post(c) PROVE TypeOK'
  BY <1>1, <1>a DEF Post, TypeOK, providers
<1>2. ASSUME NEW c \in Comments, Age(c) PROVE TypeOK'
  BY <1>2, <1>a DEF Age, Ages, TypeOK, providers
<1>3. ASSUME NEW c \in Comments, WritePage(c) PROVE TypeOK'
  <2>1. cmd.plan.closes[c] \in SUBSET Tasks
    BY <1>a DEF TypeOK, CommandRecords, Plans
  <2>2. [cmd EXCEPT !.current = c, !.step = "close", !.closing = cmd.plan.closes[c]]
          \in CommandRecords
    BY <2>1, <1>a DEF TypeOK, CommandRecords
  <2>3. pages' \subseteq posted
    BY <1>3, <1>a DEF WritePage, Applying, PlanIsSound, TypeOK
  <2>a. cmd' \in CommandRecords /\ failures' \in 0..MaxFailures
    BY <1>3, <1>a, <2>2, AnsweredType DEF WritePage
  <2> QED
    BY <1>3, <1>a, <2>a, <2>3 DEF WritePage, Rest, TypeOK, source
<1>4. ASSUME NEW c \in Comments, UpsertTask(c) PROVE TypeOK'
  <2>1. [cmd EXCEPT !.step = "bind"] \in CommandRecords
    BY <1>a DEF TypeOK, CommandRecords
  <2>2. MarkerOf[c] \in Markers
    BY ReconciliationAssumption
  <2>a. cmd' \in CommandRecords /\ failures' \in 0..MaxFailures
    BY <1>4, <1>a, <2>1, AnsweredType DEF UpsertTask
  <2> QED
    BY <1>4, <1>a, <2>a, <2>2 DEF UpsertTask, Rest, TypeOK, source
<1>5. ASSUME NEW c \in Comments, Bind(c) PROVE TypeOK'
  <2>1. [cmd EXCEPT !.current = NoComment, !.step = "page", !.todo = @ \ {c}] \in CommandRecords
    BY <1>a DEF TypeOK, CommandRecords
  <2>2. MarkerOf[c] \in Markers
    BY ReconciliationAssumption
  <2>a. cmd' \in CommandRecords /\ failures' \in 0..MaxFailures
    BY <1>5, <1>a, <2>1, AnsweredType DEF Bind
  <2> QED
    BY <1>5, <1>a, <2>a, <2>2 DEF Bind, Binding, Rest, TypeOK, source
<1>6. ASSUME NEW c \in Comments, Refuse(c) PROVE TypeOK'
  BY <1>6, <1>a DEF Refuse, Refused, Rest, TypeOK, source, providers
<1>7. ASSUME NEW c \in Comments, SkipProcessed(c) PROVE TypeOK'
  <2>1. [cmd EXCEPT !.todo = @ \ {c}, !.disputes = @ \ {c}] \in CommandRecords
    BY <1>a DEF TypeOK, CommandRecords
  <2> QED
    BY <1>7, <1>a, <2>1 DEF SkipProcessed, Rest, TypeOK, source, providers
<1>8. ASSUME NEW c \in Comments, Mutate(c) PROVE TypeOK'
  <2>1. [cmd EXCEPT !.todo = @ \ {c}] \in CommandRecords
    BY <1>a DEF TypeOK, CommandRecords
  <2>2. pages' \subseteq posted
    BY <1>8, <1>a DEF Mutate, Mutating, Applying, PlanIsSound, TypeOK
  <2>a. cmd' \in CommandRecords /\ failures' \in 0..MaxFailures
    BY <1>8, <1>a, <2>1, AnsweredType DEF Mutate
  <2> QED
    BY <1>8, <1>a, <2>a, <2>2 DEF Mutate, Rest, TypeOK, source
<1>9. ASSUME NEW c \in Comments, Mark(c) PROVE TypeOK'
  <2>1. [cmd EXCEPT !.unmarked = @ \ {c}] \in CommandRecords
    BY <1>a DEF TypeOK, CommandRecords
  <2>2. ledger' \in [Comments -> Rows]
    BY <1>9, <1>a DEF Mark, StatusOf, TypeOK, Rows
  <2> QED
    BY <1>9, <1>a, <2>1, <2>2 DEF Mark, TypeOK, source, providers
<1>10. ASSUME NEW c \in Comments, Replay(c) \/ FindConflict(c) PROVE TypeOK'
  <2>1. /\ [cmd EXCEPT !.unmarked = @ \ {c}] \in CommandRecords
        /\ [cmd EXCEPT !.unmarked = @ \ {c}, !.conflicts = @ \/ Conflicting] \in CommandRecords
    BY ZenonT(40), <1>a DEF TypeOK, CommandRecords
  <2> QED
    BY <1>10, <1>a, <2>1 DEF Replay, FindConflict, Rest, TypeOK, source, providers
<1>11. ASSUME NEW c \in Comments, RecordBaseline(c) PROVE TypeOK'
  <2>1. /\ [cmd EXCEPT !.unmarked = @ \ {c}] \in CommandRecords
        /\ [cmd EXCEPT !.unmarked = @ \ {c}, !.conflicts = TRUE] \in CommandRecords
    BY <1>a DEF TypeOK, CommandRecords
  <2>2. BaselineRow(cmd.run) \in Rows
    BY <1>a DEF TypeOK, CommandRecords, BaselineRow, Rows
  <2>a. cmd' \in CommandRecords
    BY <1>11, <2>1 DEF RecordBaseline
  <2>c. failures' \in 0..MaxFailures
    BY <1>11, <1>a DEF RecordBaseline, TypeOK
  <2>b. ledger' \in [Comments -> Rows]
    BY <1>11, <1>a, <2>2 DEF RecordBaseline, TypeOK
  <2> QED
    BY <1>11, <1>a, <2>a, <2>b, <2>c DEF RecordBaseline, TypeOK, source, providers
<1>12. ASSUME NEW task \in cmd.closing, CloseObsolete(task) PROVE TypeOK'
  <2>1. [cmd EXCEPT !.closing = @ \ {task}] \in CommandRecords
    BY <1>a DEF TypeOK, CommandRecords
  <2>a. cmd' \in CommandRecords /\ failures' \in 0..MaxFailures
    BY <1>12, <1>a, <2>1, AnsweredType DEF CloseObsolete
  <2> QED
    BY <1>12, <1>a, <2>a DEF CloseObsolete, Rest, TypeOK, source
<1>13. ASSUME NEW x \in cmd.disputes, RecordConflict(x) PROVE TypeOK'
  <2>1. [cmd EXCEPT !.disputes = @ \ {x}, !.conflicts = TRUE] \in CommandRecords
    BY <1>a DEF TypeOK, CommandRecords
  <2>a. cmd' \in CommandRecords /\ failures' \in 0..MaxFailures
    BY <1>13, <1>a, <2>1, AnsweredType DEF RecordConflict
  <2> QED
    BY <1>13, <1>a, <2>a DEF RecordConflict, Rest, TypeOK, source, providers
<1>14. ASSUME NEW plan, Reviews(plan) PROVE TypeOK'
  <2>1. PICK session \in BOOLEAN : Review(plan, session)
    BY <1>14 DEF Reviews
  <2>2. plan \in Plans
    BY <1>14, <1>a, FreshFacts DEF Reviews
  <2>3. failures' \in 0..MaxFailures
    BY <2>1, <1>a DEF Review, Reading, TypeOK
  <2> QED BY <2>1, <2>2, <2>3, <1>a DEF Review, TypeOK, source, providers
<1>15. ASSUME NEW plan, Starts(plan) PROVE TypeOK'
  <2>1. PICK session \in BOOLEAN : Begin(plan, session)
    BY <1>15, StartFacts
  <2>2. /\ cmd' \in CommandRecords /\ commands' \in 0..MaxCommands
        /\ failures' \in 0..MaxFailures
        /\ UNCHANGED <<source, ledger, checkpoint, providers, cutover, plans, founded>>
    BY <1>15, <2>1, <1>a, StartFacts, BeginFacts
  <2> QED BY <2>2, <1>a DEF TypeOK, source, providers
<1>16. ASSUME NEW plan \in plans, Forget(plan) PROVE TypeOK'
  BY <1>16, <1>a DEF Forget, TypeOK, source, providers
<1>17. ASSUME NEW r \in BaselineRuns, PlanBaseline(r) PROVE TypeOK'
  <2>1. [planned |-> TRUE, past |-> Late,
         events |-> {c \in posted : ActionOf[c] \notin Historical}] \in Cutovers
    BY <1>a, ReconciliationAssumption DEF TypeOK, Cutovers, Late
  <2> QED
    BY <1>17, <1>a, <2>1 DEF PlanBaseline, TypeOK, source, providers
<1>18. ASSUME NEW r \in BaselineRuns, StartBaseline(r) PROVE TypeOK'
  <2>1. cutover[r].events \subseteq Comments
    BY <1>a DEF TypeOK, Cutovers
  <2>2. [Idle EXCEPT !.what = "baseline", !.run = r, !.unmarked = cutover[r].events]
          \in CommandRecords
    BY <2>1 DEF CommandRecords
  <2> QED
    BY <1>18, <1>a, <2>2 DEF StartBaseline, TypeOK, source, providers
<1>19. CASE Fail \/ Crash
  BY <1>19, <1>a DEF Fail, Crash, Rest, TypeOK, source, providers
<1>20. CASE Raise
  BY <1>20, <1>a DEF Raise, Rest, TypeOK, source, providers
<1>21. CASE Advance \/ Restore
  <2>1. [cmd EXCEPT !.what = "restore"] \in CommandRecords
    BY <1>a DEF TypeOK, CommandRecords
  <2>2. checkpoint' \in Checkpoints
    BY <1>21, <1>a DEF Advance, Restore, TypeOK, CommandRecords, Checkpoints, Plans
  <2> QED
    BY <1>21, <1>a, <2>1, <2>2 DEF Advance, Restore, TypeOK, source, providers
<1>22. CASE FinishBaseline
  <2>0. cmd.run \in BaselineRuns
    BY <1>22 DEF IInv, CommandIsSound, Baselining, FinishBaseline
  <2>1. checkpoint' \in Checkpoints /\ founded' \in BaselineRuns \cup {NoRun}
    BY <1>22, <2>0, <1>a DEF FinishBaseline, TypeOK, Cutovers, Checkpoints
  <2> QED
    BY <1>22, <1>a, <2>1 DEF FinishBaseline, TypeOK, source, providers
<1> QED
  BY <1>1, <1>2, <1>3, <1>4, <1>5, <1>6, <1>7, <1>8, <1>9, <1>10, <1>11, <1>12, <1>13,
     <1>14, <1>15, <1>16, <1>17, <1>18, <1>19, <1>20, <1>21, <1>22, Steps

-----------------------------------------------------------------------------
(* Which actions leave what alone. *)

\* Providers are written by the steps of a plan, each for the comment it is at.
LEMMA ProvidersFrame ==
    ASSUME Next,
           \A c \in Comments : ~WritePage(c) /\ ~UpsertTask(c) /\ ~Bind(c) /\ ~Mutate(c),
           \A task \in cmd.closing : ~CloseObsolete(task)
    PROVE  UNCHANGED <<pages, opened, open, bound>>
BY DEF Next, Post, Age, Refuse, SkipProcessed, RecordConflict, Mark, Replay, FindConflict,
       RecordBaseline, Review, Forget, Run, ApplyPresented, Begin, PlanBaseline, StartBaseline,
       Fail, Raise, Advance, Restore, FinishBaseline, Crash, Rest, providers

LEMMA LedgerFrame ==
    ASSUME Next, \A c \in Comments : ~Mark(c) /\ ~RecordBaseline(c)
    PROVE  UNCHANGED ledger
BY DEF Next, Post, Age, WritePage, UpsertTask, Bind, Refuse, SkipProcessed, Mutate,
       RecordConflict, CloseObsolete, Replay, FindConflict, Review, Forget, Run,
       ApplyPresented, Begin, PlanBaseline, StartBaseline, Fail, Raise, Advance, Restore,
       FinishBaseline, Crash, Rest

LEMMA CheckpointFrame ==
    ASSUME Next, ~Advance, ~Restore, ~FinishBaseline
    PROVE  UNCHANGED <<checkpoint, founded>>
BY DEF Next, Post, Age, WritePage, UpsertTask, Bind, Refuse, SkipProcessed, Mutate,
       RecordConflict, CloseObsolete, Mark, Replay, FindConflict, RecordBaseline, Review,
       Forget, Run, ApplyPresented, Begin, PlanBaseline, StartBaseline, Fail, Raise, Crash, Rest

LEMMA CutoverFrame ==
    ASSUME Next, \A r \in BaselineRuns : ~PlanBaseline(r)
    PROVE  UNCHANGED cutover
BY DEF Next, Post, Age, WritePage, UpsertTask, Bind, Refuse, SkipProcessed, Mutate,
       RecordConflict, CloseObsolete, Mark, Replay, FindConflict, RecordBaseline, Review,
       Forget, Run, ApplyPresented, Begin, StartBaseline, Fail, Raise, Advance, Restore,
       FinishBaseline, Crash, Rest

\* Plans are made and dropped between commands.
LEMMA PlansFrame ==
    ASSUME Next, \A plan : ~Reviews(plan), \A plan \in plans : ~Forget(plan)
    PROVE  UNCHANGED plans
BY Steps DEF Post, Age, WritePage, UpsertTask, Bind, Refuse, SkipProcessed, Mutate,
       RecordConflict, CloseObsolete, Mark, Replay, FindConflict, RecordBaseline, Starts,
       Run, ApplyPresented, Begin, PlanBaseline, StartBaseline, Fail, Raise, Advance, Restore,
       FinishBaseline, Crash, Rest

\* A cutover, once planned, stays; comments are not deleted.
LEMMA CutoverKept ==
    ASSUME TypeOK, Next, NEW r \in BaselineRuns, cutover[r].planned
    PROVE  cutover'[r] = cutover[r]
<1>1. CASE \E s \in BaselineRuns : PlanBaseline(s)
  BY <1>1 DEF PlanBaseline, TypeOK
<1> QED BY <1>1, CutoverFrame

LEMMA PostedGrows == ASSUME Next PROVE posted \subseteq posted'
BY DEF Next, Post, Age, WritePage, UpsertTask, Bind, Refuse, SkipProcessed, Mutate,
       RecordConflict, CloseObsolete, Mark, Replay, FindConflict, RecordBaseline, Review,
       Forget, Run, ApplyPresented, Begin, PlanBaseline, StartBaseline, Fail, Raise, Advance,
       Restore, FinishBaseline, Crash, Rest, source

\* A settled row stays as it is.
LEMMA SettledKept ==
    ASSUME TypeOK, Next, NEW c \in Comments, Settled(c)
    PROVE  ledger'[c] = ledger[c] /\ Settled(c)'
<1>1. ledger'[c] = ledger[c]
  <2>1. CASE \E d \in Comments : Mark(d)
    BY <2>1 DEF Mark, TypeOK
  <2>2. CASE \E d \in Comments : RecordBaseline(d)
    <3>1. PICK d \in Comments : RecordBaseline(d)
      BY <2>2
    <3>2. ledger[d].status = "none"
      BY <3>1 DEF RecordBaseline, NoRow
    <3>3. d # c
      BY <3>2 DEF Settled, Terminal
    <3> QED BY <3>1, <3>3 DEF RecordBaseline, TypeOK
  <2> QED BY <2>1, <2>2, LedgerFrame
<1> QED BY <1>1 DEF Settled, Terminal

\* Records and tasks only grow, and a record keeps naming a task that was created.
LEMMA ProvidersGrow ==
    ASSUME TypeOK, TasksExist, CommandIsSound, Next
    PROVE  /\ pages \subseteq pages'
           /\ \A m \in Markers : opened[m] <= opened'[m]
           /\ \A c \in Comments : \/ bound'[c] = bound[c]
                                  \/ bound'[c] = opened[MarkerOf[c]] /\ opened[MarkerOf[c]] >= 1
<1>1. CASE \E c \in Comments : WritePage(c) \/ Mutate(c)
  BY <1>1 DEF WritePage, Mutate, TypeOK
<1>2. CASE \E c \in Comments : UpsertTask(c)
  <2>1. PICK c \in Comments : UpsertTask(c)
    BY <1>2
  <2>2. /\ UNCHANGED <<pages, bound>>
        /\ opened' = opened \/ opened' = [opened EXCEPT ![MarkerOf[c]] = @ + 1]
    BY <2>1 DEF UpsertTask
  <2> QED BY <2>2 DEF TypeOK
<1>3. CASE \E c \in Comments : Bind(c)
  <2>1. PICK c \in Comments : Bind(c)
    BY <1>3
  <2>2. opened[MarkerOf[c]] >= 1
    BY <2>1, ReconciliationAssumption DEF Bind, Delegating, CommandIsSound, Applying
  <2> QED BY <2>1, <2>2 DEF Bind, Binding, TypeOK
<1>4. CASE \E task \in cmd.closing : CloseObsolete(task)
  BY <1>4 DEF CloseObsolete, TypeOK
<1>5. CASE UNCHANGED <<pages, opened, open, bound>>
  BY <1>5 DEF TypeOK
<1> QED BY <1>1, <1>2, <1>3, <1>4, <1>5, ProvidersFrame

LEMMA EffectedKept ==
    ASSUME TypeOK, TypeOK', TasksExist, CommandIsSound, Next, NEW c \in Comments, Effected(c)
    PROVE  Effected(c)'
<1>0. MarkerOf[c] \in Markers
  BY ReconciliationAssumption
<1>1. /\ pages \subseteq pages'
      /\ opened[MarkerOf[c]] <= opened'[MarkerOf[c]]
      /\ \/ bound'[c] = bound[c]
         \/ bound'[c] = opened[MarkerOf[c]] /\ opened[MarkerOf[c]] >= 1
  BY <1>0, ProvidersGrow
<1>2. opened[MarkerOf[c]] \in Nat /\ bound[c] \in Nat
  BY <1>0 DEF TypeOK
<1>3. opened'[MarkerOf[c]] \in Nat
  BY <1>0 DEF TypeOK
<1> QED BY <1>1, <1>2, <1>3 DEF Effected

LEMMA TasksStep == IInv /\ Next => TasksExist'
<1> SUFFICES ASSUME IInv, Next PROVE TasksExist'
  OBVIOUS
<1>a. TypeOK /\ TasksExist /\ CommandIsSound
  BY DEF IInv
<1>b. \A c \in Comments : MarkerOf[c] \in Markers
  BY ReconciliationAssumption
<1>1. CASE \E c \in Comments : UpsertTask(c)
  <2>1. PICK c \in Comments : UpsertTask(c)
    BY <1>1
  <2>2. UNCHANGED bound
    BY <2>1 DEF UpsertTask
  <2>3. CASE UNCHANGED <<opened, open>>
    BY <2>2, <2>3, <1>a DEF TasksExist
  <2>4. CASE /\ opened' = [opened EXCEPT ![MarkerOf[c]] = @ + 1]
             /\ open' = open \cup {MarkerOf[c]}
    BY <2>2, <2>4, <1>a, <1>b DEF TasksExist, TypeOK
  <2> QED BY <2>1, <2>3, <2>4 DEF UpsertTask
<1>2. CASE \E c \in Comments : Bind(c)
  BY <1>2, <1>a, <1>b DEF Bind, Binding, TasksExist, TypeOK
<1>3. CASE \E task \in cmd.closing : CloseObsolete(task)
  BY <1>3, <1>a DEF CloseObsolete, TasksExist, TypeOK
<1>4. CASE UNCHANGED <<opened, open, bound>>
  BY <1>4, <1>a DEF TasksExist
<1>5. CASE \E c \in Comments : WritePage(c) \/ Mutate(c)
  BY <1>5, <1>4 DEF WritePage, Mutate
<1> QED BY <1>1, <1>2, <1>3, <1>4, <1>5, ProvidersFrame

-----------------------------------------------------------------------------
(* The rows and the effects. *)

\* Only what asks for a record gets one.
LEMMA PagesRequested ==
    ASSUME IInv, Next
    PROVE  \A c \in pages' : c \in pages \/ Kind[c] \in {"command", "delegate"}
<1>1. CASE \E c \in Comments : WritePage(c) \/ Mutate(c)
  BY <1>1 DEF WritePage, Mutate
<1>2. CASE \A c \in Comments : ~WritePage(c) /\ ~Mutate(c)
  <2>1. CASE \E c \in Comments : UpsertTask(c) \/ Bind(c)
    BY <2>1 DEF UpsertTask, Bind
  <2>2. CASE \E task \in cmd.closing : CloseObsolete(task)
    BY <2>2 DEF CloseObsolete
  <2> QED BY <1>2, <2>1, <2>2, ProvidersFrame
<1> QED BY <1>1, <1>2

\* A row becomes applied when all of the plan is in place.
LEMMA AppliedWhenDone ==
    ASSUME IInv, Next, NEW c \in Comments,
           ledger'[c].status = "applied", ledger[c].status # "applied"
    PROVE  Effected(c) /\ Kind[c] # "note"
<1>1. CASE \E d \in Comments : Mark(d)
  <2>1. PICK d \in Comments : Mark(d)
    BY <1>1
  <2>2. d = c /\ cmd.what = "apply" /\ StatusOf(c) = "applied" /\ ~Settled(c)
    BY <2>1 DEF Mark, IInv, TypeOK
  <2>3. cmd.todo = {} /\ c \in cmd.unmarked
    BY <2>1, <2>2 DEF Mark, Marking, Carried
  <2>4. c \notin cmd.plan.found /\ Kind[c] # "note"
    BY <2>2 DEF StatusOf
  <2> QED BY <2>2, <2>3, <2>4 DEF IInv, CommandIsSound, Applying
<1>2. CASE \E d \in Comments : RecordBaseline(d)
  BY <1>2 DEF RecordBaseline, BaselineRow, IInv, TypeOK
<1> QED BY <1>1, <1>2, LedgerFrame

LEMMA RowsStep == IInv /\ Next => RowsAreTrue'
<1> SUFFICES ASSUME IInv, Next PROVE RowsAreTrue'
  OBVIOUS
<1>a. TypeOK /\ TypeOK' /\ TasksExist /\ CommandIsSound /\ RowsAreTrue
  BY TypeStep DEF IInv
<1>1. ASSUME NEW c \in Comments, ledger'[c].status = "applied"
      PROVE  /\ Kind[c] \in {"command", "delegate"} => c \in pages'
             /\ Kind[c] = "delegate" => bound'[c] \in 1..opened'[MarkerOf[c]]
             /\ Kind[c] \notin {"transition", "note"}
  <2>1. Effected(c) /\ Kind[c] # "note"
    <3>1. CASE ledger[c].status = "applied"
      BY <3>1, <1>a DEF RowsAreTrue, AppliedHasEffect, OnlyRequestedEffects, Effected
    <3>2. CASE ledger[c].status # "applied"
      BY <3>2, <1>1, AppliedWhenDone
    <3> QED BY <3>1, <3>2
  <2>2. Effected(c)'
    BY <2>1, <1>a, EffectedKept
  <2> QED BY <2>1, <2>2 DEF Effected
<1>2. ASSUME NEW c \in Comments, c \in pages' PROVE Kind[c] \in {"command", "delegate"}
  BY <1>2, <1>a, PagesRequested DEF RowsAreTrue, OnlyRequestedEffects
<1> QED BY <1>1, <1>2 DEF RowsAreTrue, AppliedHasEffect, OnlyRequestedEffects

-----------------------------------------------------------------------------
(* Plans in hand. *)

\* Plans are dropped and made between commands, so one in progress finds its plan.
LEMMA PlannedKept ==
    ASSUME Next, cmd.what = "apply"
    PROVE  plans' = plans
<1>1. cmd # Idle
  BY CommandType
<1> QED BY <1>1, PlansFrame DEF Reviews, Review, Forget

\* The activating baseline has set nothing aside after the first checkpoint.
LEMMA NothingSetAside ==
    ASSUME IInv, Next, founded # NoRun, NEW c \in Comments, ledger'[c] = BaselineRow(founded)
    PROVE  ledger[c] = BaselineRow(founded)
<1>a. TypeOK /\ CommandIsSound /\ FoundingIsSound
  BY DEF IInv
<1>1. ASSUME NEW d \in Comments, Mark(d), ledger'[c] # ledger[c] PROVE FALSE
  BY <1>1, <1>a DEF Mark, TypeOK, BaselineRow
<1>2. ASSUME NEW d \in Comments, RecordBaseline(d), ledger'[c] # ledger[c] PROVE FALSE
  <2>1. d = c /\ cmd.run = founded /\ cmd.what = "baseline" /\ c \in cmd.unmarked
    BY <1>2, <1>a DEF RecordBaseline, Recording, BaselineRow, TypeOK
  <2>2. c \in cutover[founded].events
    BY <2>1, <1>a DEF CommandIsSound, Baselining
  <2> QED BY <2>2, <1>2, <1>a DEF FoundingIsSound
<1> QED BY <1>1, <1>2, LedgerFrame

\* The first checkpoint, once there, is only replaced.
LEMMA CheckpointStays ==
    ASSUME Next, checkpoint.kind # "none"
    PROVE  checkpoint'.kind # "none" /\ founded' = founded
BY CheckpointFrame DEF Advance, Restore, FinishBaseline

LEMMA PlanKept ==
    ASSUME IInv, Next, NEW plan, PlanIsSound(plan), checkpoint.kind # "none"
    PROVE  PlanIsSound(plan)'
<1>1. founded # NoRun /\ founded' = founded
  BY CheckpointStays DEF IInv, FoundingIsSound
<1>2. plan.events \subseteq posted' /\ plan.events \subseteq Comments
  BY PostedGrows DEF PlanIsSound, IInv, TypeOK
<1>3. \A c \in plan.events : ledger'[c] # BaselineRow(founded)
  BY <1>1, <1>2, NothingSetAside DEF PlanIsSound
<1> QED BY <1>1, <1>2, <1>3 DEF PlanIsSound, BaselineRow

LEMMA PlansStep == IInv /\ Next => PlansAreSound'
<1> SUFFICES ASSUME IInv, Next PROVE PlansAreSound'
  OBVIOUS
<1>a. TypeOK /\ PlansAreSound /\ FoundingIsSound
  BY DEF IInv
<1>1. ASSUME NEW plan \in plans', plan \in plans PROVE PlanIsSound(plan)'
  BY <1>1, <1>a, PlanKept DEF PlansAreSound
<1>2. plans # {} => checkpoint'.kind # "none"
  BY <1>a, CheckpointStays DEF PlansAreSound
<1>3. ASSUME NEW plan, Reviews(plan) PROVE PlansAreSound'
  <2>1. checkpoint.kind # "none" /\ plans' = plans \cup {plan}
    BY <1>3 DEF Reviews, Review, MayReconcile, Activated
  <2>2. PlanIsSound(plan)'
    BY <1>3, <1>a, <2>1, FreshFacts, PlanKept DEF Reviews
  <2>3. checkpoint'.kind # "none"
    BY <2>1, CheckpointStays
  <2> QED BY <2>1, <2>2, <2>3, <1>1 DEF PlansAreSound
<1>4. CASE plans' \subseteq plans
  BY <1>4, <1>1, <1>2 DEF PlansAreSound
<1> QED BY <1>3, <1>4, PlansFrame DEF Forget

-----------------------------------------------------------------------------
(* The command in progress. *)

\* What a step keeps that leaves ledger and plan of the command alone, and takes from todo
\* nothing that is not in place or settled.
LEMMA ApplyingKept ==
    ASSUME IInv, Next, cmd.what = "apply", ledger' = ledger,
           cmd'.plan = cmd.plan, cmd'.unmarked = cmd.unmarked,
           cmd'.todo \subseteq cmd.todo,
           \A c \in cmd.todo \ cmd'.todo : Effected(c)' \/ Settled(c),
           cmd'.current # NoComment =>
              /\ cmd'.current \in cmd'.todo /\ Kind[cmd'.current] = "delegate"
              /\ cmd'.current \in pages'
              /\ cmd'.step = "bind" => opened'[MarkerOf[cmd'.current]] >= 1
    PROVE  Applying'
<1>1. TypeOK /\ TypeOK' /\ TasksExist /\ CommandIsSound /\ Applying /\ checkpoint.kind # "none"
  BY TypeStep DEF IInv, CommandIsSound
<1>2. cmd.plan.events \subseteq Comments
  BY <1>1 DEF TypeOK, CommandRecords, Plans
<1>3. \A c : Settled(c)' <=> Settled(c)
  BY DEF Settled, Terminal
<1>4. \A c \in (cmd.plan.events \ cmd.plan.found) \ cmd.todo : Effected(c)' \/ Settled(c)
  BY <1>1, <1>2, EffectedKept DEF Applying
<1>5. \A c \in (cmd'.plan.events \ cmd'.plan.found) \ cmd'.todo : Effected(c)' \/ Settled(c)'
  BY <1>3, <1>4
<1>6. PlanIsSound(cmd.plan)'
  <2> DEFINE plan == cmd.plan
  <2>1. PlanIsSound(plan)
    BY <1>1 DEF Applying
  <2>2. cmd'.plan = plan
    OBVIOUS
  <2>3. /\ cmd.plan.events \subseteq posted'
        /\ cmd.plan.found \subseteq {c \in cmd.plan.events : Kind[c] = "command"}
    BY <2>1, PostedGrows DEF PlanIsSound
  <2>4. founded' = founded
    BY <1>1, CheckpointStays
  <2> QED BY <2>1, <2>2, <2>3, <2>4 DEF PlanIsSound, BaselineRow
<1>7. Planned' = Planned
  BY PlannedKept DEF Planned
<1>8. /\ \A c \in cmd'.plan.events : Kind[c] = "delegate" => c \in Planned'
      /\ cmd'.todo \subseteq cmd'.plan.events \ cmd'.plan.found
      /\ cmd'.unmarked \subseteq cmd'.plan.events
      /\ \A c \in cmd'.plan.events \ cmd'.unmarked : Settled(c)'
  BY <1>1, <1>3, <1>7 DEF Applying
<1> QED BY <1>5, <1>6, <1>8 DEF Applying

LEMMA ApplyingStep ==
    ASSUME IInv, Next, cmd'.what = "apply"
    PROVE  Applying'
<1>a. TypeOK /\ TypeOK' /\ TasksExist /\ CommandIsSound
  BY TypeStep DEF IInv
<1>b. cmd \in CommandRecords /\ Failing.what = "fail" /\ Idle.what = "none"
  BY <1>a, FailingType, CommandType DEF TypeOK
<1>1. CASE UNCHANGED <<cmd, ledger>>
  <2>1. Applying /\ cmd.what = "apply"
    BY <1>1, <1>a DEF CommandIsSound
  <2>2. /\ pages \subseteq pages'
        /\ cmd.current # NoComment => /\ MarkerOf[cmd.current] \in Markers
                                      /\ opened[MarkerOf[cmd.current]] <= opened'[MarkerOf[cmd.current]]
    BY <1>a, <1>b, ProvidersGrow, ReconciliationAssumption DEF CommandRecords
  <2>3. cmd.current # NoComment => /\ opened[MarkerOf[cmd.current]] \in Nat
                                   /\ opened'[MarkerOf[cmd.current]] \in Nat
    BY <2>2, <1>a DEF TypeOK
  <2>4. cmd.current # NoComment =>
          /\ cmd.current \in cmd.todo /\ Kind[cmd.current] = "delegate"
          /\ cmd.current \in pages'
          /\ cmd.step = "bind" => opened'[MarkerOf[cmd.current]] >= 1
    BY <2>1, <2>2, <2>3 DEF Applying
  <2> QED BY <1>1, <2>1, <2>4, ApplyingKept
<1>2. ASSUME NEW c \in Comments, WritePage(c) PROVE Applying'
  <2>1. cmd' = [cmd EXCEPT !.current = c, !.step = "close", !.closing = cmd.plan.closes[c]]
    BY <1>2, <1>b DEF WritePage, Answered
  <2>2. cmd.what = "apply" /\ c \in cmd.todo /\ Kind[c] = "delegate" /\ c \in pages'
        /\ ledger' = ledger
    BY <1>2, <1>a DEF WritePage, Rest
  <2>3. /\ cmd'.plan = cmd.plan /\ cmd'.todo = cmd.todo /\ cmd'.unmarked = cmd.unmarked
        /\ cmd'.current = c /\ cmd'.step = "close"
    BY <2>1, <1>b DEF CommandRecords
  <2> QED BY <2>2, <2>3, ApplyingKept
<1>3. ASSUME NEW c \in Comments, UpsertTask(c) PROVE Applying'
  <2>1. cmd' = [cmd EXCEPT !.step = "bind"]
    BY <1>3, <1>b DEF UpsertTask, Answered
  <2>2. cmd.what = "apply" /\ cmd.current = c /\ ledger' = ledger /\ pages' = pages
    BY <1>3 DEF UpsertTask, Delegating, Rest
  <2>3. Applying /\ c # NoComment /\ MarkerOf[c] \in Markers
    BY <2>2, <1>a, ReconciliationAssumption DEF CommandIsSound
  <2>4. c \in cmd.todo /\ Kind[c] = "delegate" /\ c \in pages
    BY <2>2, <2>3 DEF Applying
  <2>5. /\ cmd'.plan = cmd.plan /\ cmd'.todo = cmd.todo /\ cmd'.unmarked = cmd.unmarked
        /\ cmd'.current = c
    BY <2>1, <2>2, <1>b DEF CommandRecords
  <2>6. opened'[MarkerOf[c]] >= 1
    BY <1>3, <2>3, <1>a DEF UpsertTask, TasksExist, TypeOK
  <2> QED BY <2>2, <2>4, <2>5, <2>6, ApplyingKept
<1>4. ASSUME NEW c \in Comments, Bind(c) PROVE Applying'
  <2>1. cmd' = [cmd EXCEPT !.current = NoComment, !.step = "page", !.todo = @ \ {c}]
    BY <1>4, <1>b DEF Bind, Answered
  <2>2. cmd.what = "apply" /\ cmd.current = c /\ cmd.step = "bind" /\ ledger' = ledger
        /\ bound' = Binding(c) /\ opened' = opened /\ pages' = pages
    BY <1>4 DEF Bind, Delegating, Rest
  <2>3. Applying /\ c # NoComment /\ MarkerOf[c] \in Markers
    BY <2>2, <1>a, ReconciliationAssumption DEF CommandIsSound
  <2>4. c \in cmd.todo /\ Kind[c] = "delegate" /\ c \in pages /\ opened[MarkerOf[c]] >= 1
    BY <2>2, <2>3 DEF Applying
  <2>5. Effected(c)'
    BY <2>2, <2>3, <2>4, <1>a DEF Effected, Binding, TypeOK
  <2>6. /\ cmd'.plan = cmd.plan /\ cmd'.todo = cmd.todo \ {c}
        /\ cmd'.unmarked = cmd.unmarked /\ cmd'.current = NoComment
    BY <2>1, <1>b DEF CommandRecords
  <2> QED BY <2>2, <2>4, <2>5, <2>6, ApplyingKept
<1>5. ASSUME NEW c \in Comments, Mutate(c) PROVE Applying'
  <2>1. cmd' = [cmd EXCEPT !.todo = @ \ {c}]
    BY <1>5, <1>b DEF Mutate, Answered
  <2>2. /\ cmd'.plan = cmd.plan /\ cmd'.todo = cmd.todo \ {c}
        /\ cmd'.unmarked = cmd.unmarked /\ cmd'.current = cmd.current
    BY <2>1, <1>b DEF CommandRecords
  <2>3. cmd.what = "apply" /\ cmd.current = NoComment /\ ledger' = ledger
    BY <1>5 DEF Mutate, Mutating, Rest
  <2>4. Effected(c)'
    BY <1>5 DEF Mutate, Effected
  <2> QED BY <2>2, <2>3, <2>4, ApplyingKept
<1>6. ASSUME NEW c \in Comments, SkipProcessed(c) PROVE Applying'
  <2>1. cmd' = [cmd EXCEPT !.todo = @ \ {c}, !.disputes = @ \ {c}]
    BY <1>6 DEF SkipProcessed
  <2>2. /\ cmd'.plan = cmd.plan /\ cmd'.todo = cmd.todo \ {c}
        /\ cmd'.unmarked = cmd.unmarked /\ cmd'.current = cmd.current
    BY <2>1, <1>b DEF CommandRecords
  <2>3. cmd.what = "apply" /\ cmd.current = NoComment /\ ledger' = ledger /\ Settled(c)
    BY <1>6 DEF SkipProcessed, Mutating, Rest
  <2> QED BY <2>2, <2>3, ApplyingKept
<1>7. ASSUME NEW x \in cmd.disputes, RecordConflict(x) PROVE Applying'
  <2>1. cmd' = [cmd EXCEPT !.disputes = @ \ {x}, !.conflicts = TRUE]
    BY <1>7, <1>b DEF RecordConflict, Answered
  <2>2. /\ cmd'.plan = cmd.plan /\ cmd'.todo = cmd.todo
        /\ cmd'.unmarked = cmd.unmarked /\ cmd'.current = cmd.current
    BY <2>1, <1>b DEF CommandRecords
  <2>3. cmd.what = "apply" /\ cmd.current = NoComment /\ ledger' = ledger
    BY <1>7 DEF RecordConflict, Mutating, Rest
  <2> QED BY <2>2, <2>3, ApplyingKept
<1>8. ASSUME NEW task \in cmd.closing, CloseObsolete(task) PROVE Applying'
  <2>1. /\ cmd'.plan = cmd.plan /\ cmd'.todo = cmd.todo
        /\ cmd'.unmarked = cmd.unmarked /\ cmd'.current = cmd.current /\ cmd'.step = cmd.step
    BY <1>8, <1>b DEF CloseObsolete, Answered, CommandRecords
  <2>2. cmd.what = "apply" /\ ledger' = ledger /\ UNCHANGED <<pages, opened>>
    BY <1>8 DEF CloseObsolete, Delegating, Rest
  <2>3. Applying
    BY <2>2, <1>a DEF CommandIsSound
  <2> QED BY <2>1, <2>2, <2>3, ApplyingKept DEF Applying
<1>9. ASSUME NEW c \in Comments, Mark(c) PROVE Applying'
  <2>1. cmd' = [cmd EXCEPT !.unmarked = @ \ {c}]
    BY <1>9 DEF Mark
  <2>2. /\ cmd'.plan = cmd.plan /\ cmd'.todo = cmd.todo /\ cmd'.what = cmd.what
        /\ cmd'.unmarked = cmd.unmarked \ {c} /\ cmd'.current = cmd.current
    BY <2>1, <1>b DEF CommandRecords
  <2>3. cmd.what = "apply" /\ cmd.todo = {} /\ Applying /\ checkpoint.kind # "none"
    BY <1>9, <2>2, <1>a DEF Mark, Marking, Carried, CommandIsSound
  <2>4. cmd.plan.events \subseteq Comments
    BY <1>a DEF TypeOK, CommandRecords, Plans
  <2>5. \A d \in cmd.plan.events \ cmd.plan.found : Effected(d)' \/ Settled(d)'
    BY <1>a, <2>3, <2>4, EffectedKept, SettledKept DEF Applying
  <2>6. Settled(c)'
    BY <1>9, <2>3, <1>a DEF Mark, Settled, Terminal, StatusOf, TypeOK
  <2>7. \A d \in cmd.plan.events \ (cmd.unmarked \ {c}) : Settled(d)'
    BY <2>3, <2>4, <2>6, <1>a, SettledKept DEF Applying
  <2>8. cmd.current = NoComment
    BY <2>3 DEF Applying
  <2>9. PlanIsSound(cmd.plan)'
    <3>1. \A p : PlanIsSound(p) => /\ p.events \subseteq posted'
                                   /\ p.found \subseteq {d \in p.events : Kind[d] = "command"}
      BY PostedGrows DEF PlanIsSound
    <3>2. founded' = founded /\ founded # NoRun
      BY <2>3, CheckpointStays DEF IInv, FoundingIsSound
    <3>3. \A d \in cmd.plan.events : ledger'[d] # BaselineRow(founded)
      BY <2>3, <2>4, <3>2, NothingSetAside DEF Applying, PlanIsSound
    <3> QED BY <2>2, <2>3, <3>1, <3>2, <3>3 DEF Applying, PlanIsSound, BaselineRow
  <2>10. Planned' = Planned
    BY <2>3, PlannedKept DEF Planned
  <2>11. \A d \in cmd'.plan.events : Kind[d] = "delegate" => d \in Planned'
    BY <2>2, <2>3, <2>10 DEF Applying
  <2>12. cmd'.todo = {} /\ cmd'.unmarked \subseteq cmd'.plan.events
    BY <2>2, <2>3 DEF Applying
  <2> QED BY <2>2, <2>5, <2>7, <2>8, <2>9, <2>11, <2>12 DEF Applying
<1>10. ASSUME NEW plan, Starts(plan) PROVE Applying'
  <2>1. PICK session \in BOOLEAN : Begin(plan, session)
    BY <1>10, StartFacts
  <2>2. /\ plan \in Plans /\ PlanIsSound(plan) /\ checkpoint.kind # "none"
        /\ \A c \in plan.events : Kind[c] = "delegate" => c \in Planned
    BY <1>10, StartFacts
  <2>3. /\ cmd'.plan = plan /\ cmd'.todo = {c \in plan.events \ plan.found : Effective(c)}
        /\ cmd'.unmarked = plan.events /\ cmd'.current = NoComment
        /\ UNCHANGED <<posted, ledger, plans, founded>>
    BY <2>1, <2>2, <1>a, BeginFacts DEF source
  <2>4. \A c \in plan.events : ~Effective(c) => Effected(c)'
    BY <2>2 DEF Effective, Effected
  <2>5. PlanIsSound(cmd.plan)'
    BY <2>2, <2>3 DEF PlanIsSound, BaselineRow
  <2>6. Planned' = Planned
    BY <2>3 DEF Planned
  <2> QED BY <2>2, <2>3, <2>4, <2>5, <2>6 DEF Applying
<1>11. CASE \E c \in Comments : Refuse(c)
  BY <1>11, <1>b DEF Refuse, Refused
<1>12. CASE \E c \in Comments : Replay(c) \/ FindConflict(c) \/ RecordBaseline(c)
  BY <1>12, <1>b DEF Replay, FindConflict, RecordBaseline, Recording, CommandRecords
<1>13. CASE \E r \in BaselineRuns : StartBaseline(r)
  BY <1>13 DEF StartBaseline, Idle
<1>14. CASE Fail \/ Raise \/ Advance \/ Restore \/ FinishBaseline \/ Crash
  BY <1>14, <1>b DEF Fail, Raise, Advance, Restore, FinishBaseline, Crash, CommandRecords
<1>15. CASE \/ \E c \in Comments : Post(c) \/ Age(c)
            \/ \E plan : Reviews(plan)
            \/ \E plan \in plans : Forget(plan)
            \/ \E r \in BaselineRuns : PlanBaseline(r)
  BY <1>15, <1>1 DEF Post, Age, Reviews, Review, Forget, PlanBaseline
<1> QED BY <1>2, <1>3, <1>4, <1>5, <1>6, <1>7, <1>8, <1>9, <1>10, <1>11, <1>12, <1>13, <1>14,
           <1>15, Steps

LEMMA BaseliningStep ==
    ASSUME IInv, Next, cmd'.what = "baseline"
    PROVE  Baselining'
<1>a. TypeOK /\ CommandIsSound
  BY DEF IInv
<1>b. cmd \in CommandRecords /\ Failing.what = "fail" /\ Idle.what = "none"
  BY <1>a, FailingType, CommandType DEF TypeOK
<1>1. CASE UNCHANGED <<cmd, ledger>>
  <2>1. Baselining
    BY <1>1, <1>a DEF CommandIsSound
  <2>2. cutover'[cmd.run] = cutover[cmd.run]
    BY <2>1, <1>a, CutoverKept DEF Baselining
  <2> QED BY <1>1, <2>1, <2>2 DEF Baselining
<1>2. ASSUME NEW c \in Comments, Replay(c) \/ FindConflict(c) \/ RecordBaseline(c)
      PROVE  Baselining'
  <2>1. Baselining /\ cutover' = cutover
    BY <1>2, <1>a DEF CommandIsSound, Replay, FindConflict, RecordBaseline, Recording, Rest
  <2>2. /\ cmd'.run = cmd.run
        /\ cmd'.unmarked = cmd.unmarked \ {c}
        /\ ~cmd'.conflicts => ~cmd.conflicts
    BY <1>2, <1>b DEF CommandRecords, Replay, FindConflict, RecordBaseline, Conflicting
  <2>3. ASSUME ~cmd'.conflicts PROVE ledger'[c] = BaselineRow(cmd.run)
    <3>1. CASE Replay(c)
      BY <3>1 DEF Replay, Rest
    <3>2. CASE FindConflict(c)
      BY <3>2, <2>3, <1>b DEF FindConflict, Conflicting, CommandRecords
    <3>3. CASE RecordBaseline(c)
      BY <3>3, <2>3, <1>a, <1>b DEF RecordBaseline, CommandRecords, TypeOK
    <3> QED BY <1>2, <3>1, <3>2, <3>3
  <2>4. ASSUME NEW d \in Comments, ledger[d] = BaselineRow(cmd.run)
        PROVE  ledger'[d] = ledger[d]
    <3>1. Settled(d)
      BY <2>4 DEF Settled, Terminal, BaselineRow
    <3> QED BY <3>1, <1>a, SettledKept
  <2>5. cutover[cmd.run].events \subseteq Comments
    BY <2>1, <1>a DEF Baselining, TypeOK, Cutovers
  <2> QED BY <2>1, <2>2, <2>3, <2>4, <2>5 DEF Baselining, BaselineRow
<1>3. ASSUME NEW r \in BaselineRuns, StartBaseline(r) PROVE Baselining'
  <2>1. /\ cmd'.run = r /\ cmd'.unmarked = cutover[r].events
        /\ cutover[r].planned /\ cutover' = cutover
    BY <1>3 DEF StartBaseline, Idle
  <2> QED BY <2>1 DEF Baselining
<1>4. CASE \E c \in Comments : \/ WritePage(c) \/ UpsertTask(c) \/ Bind(c) \/ Refuse(c)
                               \/ SkipProcessed(c) \/ Mutate(c)
  BY ZenonT(40), <1>4, <1>b DEF WritePage, UpsertTask, Bind, Refuse, Refused, SkipProcessed,
     Mutate, Mutating, Delegating, Answered, CommandRecords
<1>5. CASE \E c \in Comments : Mark(c)
  BY <1>5, <1>b DEF Mark, Marking, Carried, CommandRecords
<1>6. CASE \/ \E task \in cmd.closing : CloseObsolete(task)
           \/ \E x \in cmd.disputes : RecordConflict(x)
  BY <1>6, <1>b DEF CloseObsolete, Delegating, RecordConflict, Mutating, Answered,
     CommandRecords
<1>7. ASSUME NEW plan, Starts(plan) PROVE FALSE
  BY <1>7, <1>a, StartFacts, BeginFacts
<1>8. CASE Fail \/ Raise \/ Advance \/ Restore \/ FinishBaseline \/ Crash
  BY <1>8, <1>b DEF Fail, Raise, Advance, Restore, FinishBaseline, Crash, CommandRecords
<1>9. CASE \/ \E c \in Comments : Post(c) \/ Age(c)
           \/ \E plan : Reviews(plan)
           \/ \E plan \in plans : Forget(plan)
           \/ \E r \in BaselineRuns : PlanBaseline(r)
  BY <1>9, <1>1 DEF Post, Age, Reviews, Review, Forget, PlanBaseline
<1> QED BY <1>2, <1>3, <1>4, <1>5, <1>6, <1>7, <1>8, <1>9, Steps

\* Where a command that applies, fails or restores comes from.
LEMMA CommandGoesOn ==
    ASSUME TypeOK, Next, cmd'.what \in {"apply", "fail", "restore"},
           \A plan : ~Starts(plan)
    PROVE  /\ cmd.what \in {"apply", "fail", "restore"}
           /\ cmd'.what # "fail" => /\ cmd.what \in {"apply", "restore"}
                                    /\ cmd'.before = cmd.before
<1>b. cmd \in CommandRecords /\ Failing.what = "fail" /\ Idle.what = "none"
  BY FailingType, CommandType DEF TypeOK
<1>1. CASE UNCHANGED cmd
  BY <1>1
<1>2. CASE \E c \in Comments : WritePage(c) \/ UpsertTask(c) \/ Bind(c) \/ Mutate(c)
  BY ZenonT(40), <1>2, <1>b DEF WritePage, UpsertTask, Bind, Mutate, Mutating, Delegating,
     Answered, CommandRecords
<1>3. CASE \E c \in Comments : Refuse(c) \/ SkipProcessed(c)
  BY <1>3, <1>b DEF Refuse, Refused, SkipProcessed, Mutating, CommandRecords
<1>4. CASE \E c \in Comments : Mark(c) \/ Replay(c) \/ FindConflict(c) \/ RecordBaseline(c)
  BY <1>4, <1>b DEF Mark, Marking, Carried, Replay, FindConflict, RecordBaseline, Recording,
     CommandRecords
<1>5. CASE \/ \E task \in cmd.closing : CloseObsolete(task)
           \/ \E x \in cmd.disputes : RecordConflict(x)
  BY <1>5, <1>b DEF CloseObsolete, Delegating, RecordConflict, Mutating, Answered,
     CommandRecords
<1>6. CASE \E r \in BaselineRuns : StartBaseline(r)
  BY <1>6 DEF StartBaseline, Idle
<1>7. CASE Fail \/ Raise \/ Advance \/ Restore \/ FinishBaseline \/ Crash
  BY <1>7, <1>b DEF Fail, Raise, Advance, Recorded, Carried, Restore, FinishBaseline, Crash,
     CommandRecords
<1>8. CASE \/ \E c \in Comments : Post(c) \/ Age(c)
           \/ \E plan : Reviews(plan)
           \/ \E plan \in plans : Forget(plan)
           \/ \E r \in BaselineRuns : PlanBaseline(r)
  BY <1>8, <1>1 DEF Post, Age, Reviews, Review, Forget, PlanBaseline
<1> QED BY <1>2, <1>3, <1>4, <1>5, <1>6, <1>7, <1>8, Steps

LEMMA CommandStep == IInv /\ Next => CommandIsSound'
<1> SUFFICES ASSUME IInv, Next PROVE CommandIsSound'
  OBVIOUS
<1>a. TypeOK /\ CommandIsSound
  BY DEF IInv
<1>1. ASSUME cmd'.what \in {"apply", "fail", "restore"} PROVE checkpoint.kind # "none"
  <2>1. CASE \E plan : Starts(plan)
    BY <2>1, StartFacts
  <2>2. CASE \A plan : ~Starts(plan)
    BY <2>2, <1>1, <1>a, CommandGoesOn DEF CommandIsSound
  <2> QED BY <2>1, <2>2
<1>2. cmd'.what \in {"apply", "fail", "restore"} => checkpoint'.kind # "none"
  BY <1>1, CheckpointStays
<1> QED BY <1>2, ApplyingStep, BaseliningStep DEF CommandIsSound

-----------------------------------------------------------------------------
(* The first checkpoint. *)

\* Before there is a checkpoint nothing is applied.
LEMMA NothingBefore ==
    ASSUME IInv, Next, checkpoint.kind = "none"
    PROVE  UNCHANGED <<pages, bound>>
<1>1. cmd.what # "apply"
  BY DEF IInv, CommandIsSound
<1> QED BY <1>1, ProvidersFrame
        DEF WritePage, UpsertTask, Bind, Mutate, Mutating, CloseObsolete, Delegating

\* What a plan is applied to, no baseline that activates has set aside.
LEMMA AppliedNotAside ==
    ASSUME IInv, Next, founded # NoRun, NEW c \in Comments,
           WritePage(c) \/ Bind(c) \/ Mutate(c)
    PROVE  ledger[c] # BaselineRow(founded)
<1>1. cmd.what = "apply" /\ (c \in cmd.todo \/ cmd.current = c)
  BY DEF WritePage, Bind, Mutate, Mutating, Delegating
<1>2. Applying /\ c # NoComment
  BY <1>1, ReconciliationAssumption DEF IInv, CommandIsSound
<1>3. c \in cmd.plan.events
  BY <1>1, <1>2 DEF Applying
<1> QED BY <1>2, <1>3 DEF Applying, PlanIsSound

LEMMA InertStep == IInv /\ Next => BaselineIsInert'
<1> SUFFICES ASSUME IInv, Next PROVE BaselineIsInert'
  OBVIOUS
<1>a. TypeOK /\ FoundingIsSound
  BY DEF IInv
<1>1. CASE founded = NoRun
  <2>1. pages' = {} /\ \A c \in Comments : bound'[c] = 0
    BY <1>1, <1>a, NothingBefore DEF FoundingIsSound
  <2> QED BY <2>1 DEF BaselineIsInert
<1>2. CASE founded # NoRun
  <2>1. founded' = founded
    BY <1>2, <1>a, CheckpointStays DEF FoundingIsSound
  <2>2. ASSUME NEW c \in Comments, ledger'[c] = BaselineRow(founded)
        PROVE  c \notin pages' /\ bound'[c] = 0
    <3>1. ledger[c] = BaselineRow(founded)
      BY <2>2, <1>2, NothingSetAside
    <3>2. c \notin pages /\ bound[c] = 0
      BY <3>1, <1>2, <1>a DEF FoundingIsSound, BaselineIsInert
    <3>3. ASSUME NEW d \in Comments, WritePage(d) \/ Bind(d) \/ Mutate(d)
          PROVE  c \notin pages' /\ bound'[c] = 0
      <4>1. d # c
        BY <3>1, <3>3, <1>2, AppliedNotAside
      <4> QED BY <3>2, <3>3, <4>1, <1>a DEF WritePage, Bind, Binding, Mutate, TypeOK
    <3>4. CASE \E d \in Comments : UpsertTask(d)
      BY <3>2, <3>4 DEF UpsertTask
    <3>5. CASE \E task \in cmd.closing : CloseObsolete(task)
      BY <3>2, <3>5 DEF CloseObsolete
    <3> QED BY <3>2, <3>3, <3>4, <3>5, ProvidersFrame
  <2> QED BY <2>1, <2>2 DEF BaselineIsInert, BaselineRow
<1> QED BY <1>1, <1>2

LEMMA FoundingStep == IInv /\ Next => FoundingIsSound'
<1> SUFFICES ASSUME IInv, Next PROVE FoundingIsSound'
  OBVIOUS
<1>a. TypeOK /\ CommandIsSound /\ FoundingIsSound
  BY DEF IInv
<1>b. BaselineIsInert'
  BY InertStep
<1>c. founded # NoRun => founded \in BaselineRuns
  BY <1>a DEF TypeOK
\* The rows of the founding baseline stay.
<1>d. ASSUME founded # NoRun, founded' = founded
      PROVE  /\ cutover'[founded].planned
             /\ \A c \in cutover'[founded].events : ledger'[c] = BaselineRow(founded)
  <2>1. cutover'[founded] = cutover[founded] /\ cutover[founded].planned
    BY <1>d, <1>c, <1>a, CutoverKept DEF FoundingIsSound
  <2>2. cutover[founded].events \subseteq Comments
    BY <1>d, <1>c, <1>a DEF TypeOK, Cutovers
  <2>3. \A c \in cutover[founded].events : ledger[c] = BaselineRow(founded) /\ Settled(c)
    BY <1>d, <1>a DEF FoundingIsSound, Settled, Terminal, BaselineRow
  <2> QED BY <2>1, <2>2, <2>3, <1>a, SettledKept
<1>1. CASE UNCHANGED <<checkpoint, founded>>
  <2>1. founded' = NoRun => pages' = {} /\ \A c \in Comments : bound'[c] = 0
    BY <1>1, <1>a, NothingBefore DEF FoundingIsSound
  <2> QED BY <1>1, <2>1, <1>a, <1>b, <1>d DEF FoundingIsSound, BaselineRow
<1>2. CASE Advance \/ Restore
  <2>1. founded' = founded /\ checkpoint'.kind = "advanced"
    BY <1>2 DEF Advance, Restore
  <2>2. founded # NoRun
    BY <1>2, <1>a DEF FoundingIsSound, CommandIsSound, Advance, Recorded, Carried, Restore
  <2> QED BY <2>1, <2>2, <1>b, <1>d DEF FoundingIsSound, BaselineRow
<1>3. CASE FinishBaseline /\ ~UNCHANGED <<checkpoint, founded>>
  <2>1. /\ founded' = cmd.run /\ checkpoint'.kind = "baseline" /\ checkpoint'.run = cmd.run
        /\ ~cmd.conflicts /\ cmd.unmarked = {} /\ cmd.what = "baseline"
        /\ UNCHANGED <<ledger, cutover>>
    BY <1>3 DEF FinishBaseline
  <2>2. Baselining
    BY <2>1, <1>a DEF CommandIsSound
  <2>3. cmd.run # NoRun
    BY <2>2, ReconciliationAssumption DEF Baselining
  <2>4. \A c \in cutover[cmd.run].events : ledger[c] = BaselineRow(cmd.run)
    BY <2>1, <2>2 DEF Baselining
  <2>5. cutover'[founded'].planned
        /\ \A c \in cutover'[founded'].events : ledger'[c] = BaselineRow(founded')
    BY <2>1, <2>2, <2>4 DEF Baselining
  <2> QED BY <2>1, <2>3, <2>5, <1>b DEF FoundingIsSound, BaselineRow
<1> QED BY <1>1, <1>2, <1>3, CheckpointFrame

-----------------------------------------------------------------------------
(* What the checkpoint stands for. *)

LEMMA CoversStep == IInv /\ Next => CoversAreSettled'
<1> SUFFICES ASSUME IInv, Next PROVE CoversAreSettled'
  OBVIOUS
<1>a. TypeOK /\ CommandIsSound /\ CoversAreSettled
  BY DEF IInv
<1>b. checkpoint.covers \subseteq Comments /\ cmd.before.covers \subseteq Comments
  BY <1>a DEF TypeOK, CommandRecords, Checkpoints
<1>c. \A c \in checkpoint.covers : Settled(c) /\ Settled(c)'
  BY <1>a, <1>b, SettledKept DEF CoversAreSettled, CheckpointCoversSettled
<1>1. CheckpointCoversSettled'
  <2>1. CASE UNCHANGED checkpoint
    BY <2>1, <1>c DEF CheckpointCoversSettled
  <2>2. CASE Advance
    <3>1. /\ checkpoint'.covers = cmd.plan.events /\ cmd.unmarked = {} /\ cmd.what = "apply"
          /\ ledger' = ledger
      BY <2>2 DEF Advance, Recorded, Carried
    <3>2. \A c \in cmd.plan.events : Settled(c)
      BY <3>1, <1>a DEF CommandIsSound, Applying
    <3> QED BY <3>1, <3>2 DEF CheckpointCoversSettled, Settled, Terminal
  <2>3. CASE Restore
    <3>1. checkpoint'.covers = cmd.before.covers /\ ledger' = ledger /\ cmd.what = "restore"
      BY <2>3 DEF Restore
    <3> QED BY <3>1, <1>a DEF CoversAreSettled, CheckpointCoversSettled, Settled, Terminal
  <2>4. CASE FinishBaseline /\ ~UNCHANGED checkpoint
    <3>1. /\ ~cmd.conflicts /\ cmd.unmarked = {} /\ cmd.what = "baseline"
          /\ checkpoint'.covers = cutover[cmd.run].events /\ ledger' = ledger
      BY <2>4 DEF FinishBaseline
    <3>2. \A c \in cutover[cmd.run].events : ledger[c] = BaselineRow(cmd.run)
      BY <3>1, <1>a DEF CommandIsSound, Baselining
    <3> QED BY <3>1, <3>2 DEF CheckpointCoversSettled, BaselineRow, Settled, Terminal
  <2> QED BY <2>1, <2>2, <2>3, <2>4, CheckpointFrame
<1>2. ASSUME cmd'.what \in {"apply", "restore"} PROVE \A c \in cmd'.before.covers : Settled(c)'
  <2>1. CASE \E plan : Starts(plan)
    <3>1. PICK plan : Starts(plan)
      BY <2>1
    <3>2. cmd'.before \in {checkpoint, NoCheckpoint}
      BY <3>1, <1>a, StartFacts, BeginFacts
    <3> QED BY <3>2, <1>c DEF NoCheckpoint
  <2>2. CASE \A plan : ~Starts(plan)
    <3>1. cmd.what \in {"apply", "restore"} /\ cmd'.before = cmd.before
      BY <2>2, <1>2, <1>a, CommandGoesOn
    <3> QED BY <3>1, <1>a, <1>b, SettledKept DEF CoversAreSettled
  <2> QED BY <2>1, <2>2
<1> QED BY <1>1, <1>2 DEF CoversAreSettled

-----------------------------------------------------------------------------
(* The invariant. *)

LEMMA Initially == Init => IInv
<1> SUFFICES ASSUME Init PROVE IInv
  OBVIOUS
<1>1. TypeOK
  BY CommandType, ReconciliationAssumption
     DEF Init, TypeOK, Ages, Rows, NoRow, Checkpoints, NoCheckpoint, Cutovers, NoCutover
<1>2. cmd.what = "none"
  BY CommandType DEF Init
<1>3. TasksExist /\ RowsAreTrue /\ PlansAreSound
  BY ReconciliationAssumption
     DEF Init, TasksExist, RowsAreTrue, AppliedHasEffect, OnlyRequestedEffects, NoRow,
         PlansAreSound
<1>4. CommandIsSound
  BY <1>2 DEF CommandIsSound
<1>5. FoundingIsSound
  BY DEF Init, FoundingIsSound, NoCheckpoint, BaselineIsInert
<1>6. CoversAreSettled
  BY <1>2 DEF Init, CoversAreSettled, CheckpointCoversSettled, NoCheckpoint
<1> QED BY <1>1, <1>3, <1>4, <1>5, <1>6 DEF IInv

LEMMA Stuttering == IInv /\ UNCHANGED vars => IInv'
BY DEF IInv, vars, source, providers, TypeOK, TasksExist, RowsAreTrue, AppliedHasEffect,
       OnlyRequestedEffects, PlansAreSound, PlanIsSound, CommandIsSound, Applying, Planned,
       Baselining, Effected, Settled, FoundingIsSound, BaselineIsInert, CoversAreSettled,
       CheckpointCoversSettled

LEMMA Inductive == IInv /\ [Next]_vars => IInv'
BY TypeStep, TasksStep, RowsStep, PlansStep, CommandStep, FoundingStep, CoversStep,
   Stuttering DEF IInv

\* Every state of every behaviour satisfies the invariant.
THEOREM ReconciliationInvariant == Spec => []IInv
BY Initially, Inductive, PTL DEF Spec

-----------------------------------------------------------------------------
(* The theorems. *)

\* The variables of the reconciliation keep their types: plans, rows, checkpoints, and
\* records only for comments that exist.
THEOREM ReconciliationTypeCorrect == Spec => []TypeOK
BY ReconciliationInvariant, PTL DEF IInv

\* Whatever fails, dies or is retried, a row of _upsert_event that says applied stands for
\* the record the comment asks for and, for a delegation, a task the record names.
THEOREM AppliedCorrect == Spec => []AppliedHasEffect
<1>1. IInv => AppliedHasEffect
  BY DEF IInv, RowsAreTrue
<1> QED BY <1>1, ReconciliationInvariant, PTL

\* An operation apply() has no code for leaves no effect and no row that says applied.
THEOREM RequestedCorrect == Spec => []OnlyRequestedEffects
<1>1. IInv => OnlyRequestedEffects
  BY DEF IInv, RowsAreTrue
<1> QED BY <1>1, ReconciliationInvariant, PTL

\* What the baseline that made the first checkpoint has set aside, nothing has been done for
\* and nothing will be, by no plan of any age.
THEOREM InertCorrect == Spec => []BaselineIsInert
<1>1. IInv => BaselineIsInert
  BY DEF IInv, FoundingIsSound
<1> QED BY <1>1, ReconciliationInvariant, PTL

\* A checkpoint that activates reconciliation has every row of its baseline's plan behind it.
THEOREM BaselineCorrect == Spec => []BaselineIsComplete
<1>1. IInv => BaselineIsComplete
  BY DEF IInv, FoundingIsSound, BaselineIsComplete, Activated
<1> QED BY <1>1, ReconciliationInvariant, PTL

\* apply() moves the checkpoint when every event of its plan has a terminal row, and nothing
\* that follows, a session that puts it back included, makes it stand for less.
THEOREM CheckpointCorrect == Spec => []CheckpointCoversSettled
<1>1. IInv => CheckpointCoversSettled
  BY DEF IInv, CoversAreSettled
<1> QED BY <1>1, ReconciliationInvariant, PTL

\* A settled comment keeps its row, and one that is no delegation what was written for it,
\* through plans that were made before it was settled.
THEOREM SettledCorrect == Spec => SettledIsFinal
<1> DEFINE Kept == \A c \in Comments : Settled(c)
           => /\ ledger'[c] = ledger[c]
              /\ Kind[c] # "delegate" => (c \in pages' <=> c \in pages) /\ bound'[c] = bound[c]
<1>1. ASSUME IInv, Next PROVE Kept
  <2>a. TypeOK /\ CommandIsSound
    BY <1>1 DEF IInv
  <2> SUFFICES ASSUME NEW c \in Comments, Settled(c), Kind[c] # "delegate"
               PROVE  (c \in pages' <=> c \in pages) /\ bound'[c] = bound[c]
    BY <1>1, <2>a, SettledKept
  <2>1. ASSUME NEW d \in Comments, WritePage(d) \/ Mutate(d)
        PROVE  (c \in pages' <=> c \in pages) /\ bound'[c] = bound[c]
    BY <2>1 DEF WritePage, Mutate
  <2>2. ASSUME NEW d \in Comments, Bind(d)
        PROVE  (c \in pages' <=> c \in pages) /\ bound'[c] = bound[c]
    <3>1. Kind[d] = "delegate"
      BY <2>2, <2>a, ReconciliationAssumption DEF Bind, Delegating, CommandIsSound, Applying
    <3> QED BY <2>2, <3>1, <2>a DEF Bind, Binding, TypeOK
  <2>3. CASE \E d \in Comments : UpsertTask(d)
    BY <2>3 DEF UpsertTask
  <2>4. CASE \E task \in cmd.closing : CloseObsolete(task)
    BY <2>4 DEF CloseObsolete
  <2> QED BY <1>1, <2>1, <2>2, <2>3, <2>4, ProvidersFrame
<1>2. ASSUME UNCHANGED vars PROVE Kept
  BY <1>2 DEF vars, providers
<1>3. IInv /\ [Next]_vars => [Kept]_vars
  BY <1>1, <1>2
<1> QED BY <1>3, ReconciliationInvariant, PTL DEF Spec, SettledIsFinal

-----------------------------------------------------------------------------
(* Refinement. *)

\* A step that CommentSettlement has, or does not see.
Promised == [Promise!SettlementNext]_<<Planned, pages, opened, bound, Outcome>>

LEMMA OneRow ==
    ASSUME TypeOK, NEW c \in Comments, NEW status, NEW run,
           ledger' = [ledger EXCEPT ![c] = [status |-> status, run |-> run]]
    PROVE  Outcome' = [Outcome EXCEPT ![c] = IF status \in Terminal THEN status ELSE "open"]
<1> DEFINE Shown(s) == IF s \in Terminal THEN s ELSE "open"
<1>1. \A d \in Comments : ledger'[d].status = IF d = c THEN status ELSE ledger[d].status
  BY DEF TypeOK
<1>2. /\ Outcome = [d \in Comments |-> Shown(ledger[d].status)]
      /\ Outcome' = [d \in Comments |-> Shown(ledger'[d].status)]
  BY DEF Outcome, Settled
<1>3. \A d \in Comments :
        Shown(ledger'[d].status) = IF d = c THEN Shown(status) ELSE Shown(ledger[d].status)
  BY <1>1
<1> HIDE DEF Shown
<1>4. Outcome' = [Outcome EXCEPT ![c] = Shown(status)]
  BY <1>2, <1>3
<1> QED BY <1>4 DEF Shown

\* What is written for a comment is written from a plan that took it up, and in order.
LEMMA EffectPromised ==
    ASSUME IInv, Next, NEW c \in Comments,
           WritePage(c) \/ UpsertTask(c) \/ Bind(c) \/ Mutate(c)
    PROVE  Promised
<1>a. TypeOK /\ (cmd.what = "apply" => Applying)
  BY DEF IInv, CommandIsSound
<1>b. Outcome' = Outcome /\ Planned' = Planned
  BY DEF WritePage, UpsertTask, Bind, Mutate, Rest, Outcome, Settled, Planned
<1>c. cmd.what = "apply" /\ c \in cmd.todo /\ c \in cmd.plan.events
  BY <1>a, ReconciliationAssumption
     DEF WritePage, UpsertTask, Bind, Mutate, Mutating, Delegating, Applying
<1>1. CASE WritePage(c)
  <2>1. Kind[c] = "delegate" /\ pages' = pages \cup {c} /\ UNCHANGED <<opened, bound>>
    BY <1>1 DEF WritePage
  <2>2. c \in Planned
    BY <2>1, <1>a, <1>c DEF Applying
  <2>3. Promise!MakeRecord(c)
    BY <2>1, <2>2, <1>b DEF Promise!MakeRecord
  <2> QED BY <2>3 DEF Promised, Promise!SettlementNext
<1>2. CASE Mutate(c)
  <2>1. Kind[c] = "command" /\ pages' = pages \cup {c} /\ UNCHANGED <<opened, bound>>
    BY <1>2 DEF Mutate
  <2>2. Outcome[c] = "open"
    BY <1>2 DEF Mutate, Outcome
  <2>3. Promise!MakeRecord(c)
    BY <2>1, <2>2, <1>b DEF Promise!MakeRecord
  <2> QED BY <2>3 DEF Promised, Promise!SettlementNext
<1>3. CASE UpsertTask(c)
  <2>1. Kind[c] = "delegate" /\ c \in pages /\ c \in Planned
    BY <1>3, <1>a, <1>c, ReconciliationAssumption DEF UpsertTask, Delegating, Applying
  <2>2. /\ UNCHANGED <<pages, bound>>
        /\ UNCHANGED opened \/ opened' = [opened EXCEPT ![MarkerOf[c]] = @ + 1]
    BY <1>3 DEF UpsertTask
  <2>3. CASE UNCHANGED opened
    BY <2>2, <2>3, <1>b DEF Promised
  <2>4. CASE opened' = [opened EXCEPT ![MarkerOf[c]] = @ + 1]
    <3>1. Promise!MakeTask(c)
      BY <2>1, <2>2, <2>4, <1>b DEF Promise!MakeTask, Promise!Delegated
    <3> QED BY <3>1 DEF Promised, Promise!SettlementNext
  <2> QED BY <2>2, <2>3, <2>4
<1>4. CASE Bind(c)
  <2>1. /\ Kind[c] = "delegate" /\ c \in pages /\ c \in Planned
        /\ opened[MarkerOf[c]] >= 1 /\ MarkerOf[c] \in Markers
    BY <1>4, <1>a, <1>c, ReconciliationAssumption DEF Bind, Delegating, Applying
  <2>2. opened[MarkerOf[c]] > 0
    BY <2>1, <1>a DEF TypeOK
  <2>3. bound' = [bound EXCEPT ![c] = opened[MarkerOf[c]]] /\ UNCHANGED <<pages, opened>>
    BY <1>4 DEF Bind, Binding
  <2>4. Promise!NameTask(c)
    BY <2>1, <2>2, <2>3, <1>b DEF Promise!NameTask, Promise!Delegated
  <2> QED BY <2>4 DEF Promised, Promise!SettlementNext
<1> QED BY <1>1, <1>2, <1>3, <1>4

\* A comment is settled when a plan it is in has been carried out, when there is nothing to
\* do for it, or by a baseline.
LEMMA RowPromised ==
    ASSUME IInv, Next, NEW c \in Comments, Mark(c) \/ RecordBaseline(c)
    PROVE  Promised
<1>a. TypeOK /\ (cmd.what = "apply" => Applying)
  BY DEF IInv, CommandIsSound
<1>b. UNCHANGED <<Planned, pages, opened, bound>>
  BY DEF Mark, RecordBaseline, providers, Planned
<1>1. CASE UNCHANGED ledger
  BY <1>1, <1>b DEF Promised, Outcome, Settled
<1>2. CASE Mark(c) /\ ~UNCHANGED ledger
  <2> DEFINE status == IF cmd.what = "apply" THEN StatusOf(c) ELSE "failed"
  <2>1. ~Settled(c) /\ ledger' = [ledger EXCEPT ![c] = [status |-> status, run |-> NoRun]]
    BY <1>2 DEF Mark
  <2>2. Outcome' = [Outcome EXCEPT ![c] = IF status \in Terminal THEN status ELSE "open"]
    <3> HIDE DEF status
    <3> QED BY <2>1, <1>a, OneRow
  <2>3. Outcome[c] = "open" /\ Outcome = [Outcome EXCEPT ![c] = "open"]
    BY <2>1 DEF Outcome
  <2>4. CASE cmd.what # "apply"
    <3>1. Outcome' = Outcome
      BY <2>2, <2>3, <2>4 DEF Terminal
    <3> QED BY <3>1, <1>b DEF Promised
  <2>5. CASE cmd.what = "apply"
    <3>1. /\ status = StatusOf(c) /\ status \in {"applied", "informational"}
          /\ Outcome' = [Outcome EXCEPT ![c] = status]
      BY <2>2, <2>5 DEF StatusOf, Terminal
    <3>2. Applying /\ cmd.todo = {} /\ c \in cmd.plan.events
      BY <1>2, <2>5, <1>a DEF Mark, Marking, Carried, Applying
    <3>3. c \in cmd.plan.found => Kind[c] = "command"
      BY <3>2 DEF Applying, PlanIsSound
    <3>4. c \notin cmd.plan.found => Effected(c)
      BY <3>2, <2>1 DEF Applying
    <3>5. status = "informational" => Kind[c] \in {"note", "command"}
      BY <3>1, <3>3 DEF StatusOf
    <3>6. status = "applied" => Promise!CarriedOut(c)
      BY <3>1, <3>4, ReconciliationAssumption DEF StatusOf, Kinds, Effected, Promise!CarriedOut
    <3>7. Promise!Settle(c, status)
      BY <3>1, <3>5, <3>6, <2>3, <1>b DEF Promise!Settle
    <3>8. status \in Promise!Outcomes
      BY <3>1 DEF Promise!Outcomes
    <3> QED BY <3>7, <3>8 DEF Promised, Promise!SettlementNext
  <2> QED BY <2>4, <2>5
<1>3. CASE RecordBaseline(c) /\ ~UNCHANGED ledger
  <2>1. ledger[c] = NoRow /\ ledger' = [ledger EXCEPT ![c] = BaselineRow(cmd.run)]
    BY <1>3 DEF RecordBaseline
  <2>2. Outcome[c] = "open"
    BY <2>1 DEF NoRow, Outcome, Settled, Terminal
  <2>3. Outcome' = [Outcome EXCEPT ![c] = "ignored"]
    <3>1. Outcome' = [Outcome EXCEPT ![c] = IF "ignored" \in Terminal THEN "ignored" ELSE "open"]
      BY <2>1, <1>a, OneRow DEF BaselineRow
    <3> QED BY <3>1 DEF Terminal
  <2>4. Promise!Settle(c, "ignored")
    BY <2>2, <2>3, <1>b DEF Promise!Settle
  <2> QED BY <2>4 DEF Promised, Promise!SettlementNext, Promise!Outcomes
<1> QED BY <1>1, <1>2, <1>3

\* A plan takes up what is open, and is dropped.
LEMMA PlanPromised ==
    ASSUME IInv, Next, NEW plan, Reviews(plan) \/ (plan \in plans /\ Forget(plan))
    PROVE  Promised
<1>a. TypeOK
  BY DEF IInv
<1>b. UNCHANGED <<pages, opened, bound, Outcome>>
  BY DEF Reviews, Review, Forget, providers, Outcome, Settled
<1>1. CASE Reviews(plan)
  <2>1. plan \in Plans /\ \A c \in plan.events : ~Settled(c)
    BY <1>1, <1>a, FreshFacts DEF Reviews
  <2>2. plans' = plans \cup {plan}
    BY <1>1 DEF Reviews, Review
  <2>3. Planned' = Planned \cup plan.events
    BY <2>2 DEF Planned
  <2>4. plan.events \in SUBSET Comments
    BY <2>1 DEF Plans
  <2>5. \A c \in plan.events : Outcome[c] = "open"
    BY <2>1, <2>4 DEF Outcome
  <2>6. Promise!Approve(plan.events)
    BY <2>3, <2>5, <1>b DEF Promise!Approve
  <2> QED BY <2>4, <2>6 DEF Promised, Promise!SettlementNext
<1>2. CASE plan \in plans /\ Forget(plan)
  <2> DEFINE old == Planned \ Planned'
  <2>1. plans' \subseteq plans
    BY <1>2 DEF Forget
  <2>2. Planned' \subseteq Planned
    BY <2>1 DEF Planned
  <2>3. Planned' = Planned \ old
    BY <2>2
  <2>4. old \in SUBSET Comments
    BY <1>a DEF TypeOK, Plans, Planned
  <2>5. Promise!Withdraw(old)
    BY <2>3, <1>b DEF Promise!Withdraw
  <2> QED BY <2>4, <2>5 DEF Promised, Promise!SettlementNext
<1> QED BY <1>1, <1>2

LEMMA StepPromised == IInv /\ [Next]_vars => Promised
<1> SUFFICES ASSUME IInv, [Next]_vars PROVE Promised
  OBVIOUS
<1>1. CASE UNCHANGED vars
  BY <1>1 DEF vars, providers, Promised, Planned, Outcome, Settled
<1>2. CASE Next
  <2>1. ASSUME NEW c \in Comments, WritePage(c) \/ UpsertTask(c) \/ Bind(c) \/ Mutate(c)
        PROVE  Promised
    BY <1>2, <2>1, EffectPromised
  <2>2. ASSUME NEW c \in Comments, Mark(c) \/ RecordBaseline(c) PROVE Promised
    BY <1>2, <2>2, RowPromised
  <2>3. ASSUME NEW task \in cmd.closing, CloseObsolete(task) PROVE Promised
    BY <2>3 DEF CloseObsolete, Rest, Promised, Planned, Outcome, Settled
  <2>4. ASSUME NEW plan, Reviews(plan) \/ (plan \in plans /\ Forget(plan)) PROVE Promised
    BY <1>2, <2>4, PlanPromised
  <2>5. CASE UNCHANGED <<plans, pages, opened, bound, ledger>>
    BY <2>5 DEF Promised, Planned, Outcome, Settled
  <2> QED BY <1>2, <2>1, <2>2, <2>3, <2>4, <2>5, ProvidersFrame, LedgerFrame, PlansFrame
<1> QED BY <1>1, <1>2

\* Whatever fails, dies, is retried, set aside or applied late, a comment gets what
\* CommentSettlement says: its record, then its tasks, then a row that is true.
THEOREM SettlementCorrect == Spec => ImplementsSettlement
<1>1. Init => Promise!SettlementInit
  BY DEF Init, Promise!SettlementInit, Planned, Outcome, Settled, NoRow, Terminal
<1>2. Promised <=> [Promise!SettlementNext]_<<Planned, pages, opened, bound, Outcome>>
  BY DEF Promised
<1> QED BY <1>1, <1>2, StepPromised, ReconciliationInvariant, PTL
        DEF Spec, ImplementsSettlement, Promise!SettlementSpec
=============================================================================
