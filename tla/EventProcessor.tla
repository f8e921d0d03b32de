--------------------------- MODULE EventProcessor ---------------------------
(***************************************************************************)
(* Workers running EventProcessor.process() on the events they claim, the  *)
(* operator's EventOperator calls, webhook arrivals, the provider whose    *)
(* objects change underneath, and time -- all on the tables of EventQueue. *)
(*                                                                         *)
(* A worker's pc names the statement of process() it executes next.  Each  *)
(* self.queue.transition(...) is two steps, its SELECT and its UPDATE; so  *)
(* are bind_snapshot() and fail().  Between any two steps another worker,  *)
(* the operator, the provider or the clock may move, and a worker process  *)
(* may crash, which loses all it had in memory.                            *)
(***************************************************************************)
EXTENDS EventQueue

CONSTANTS
    Informational,  \* events the planner classifies "informational"
    Digested,       \* events whose envelope arrives with a snapshot digest
    NoMapping,      \* no answer of the applier yet
    Timely,         \* TRUE: no lease ends while its holder still works
    RejectStates,   \* states in which the operator calls reject()
    MaxChanges,     \* bound on the provider changes of a behaviour
    MaxCrashes,     \* bound on its worker crashes
    MaxReleases     \* bound on its dead-letter releases

ASSUME ProcessorAssumption ==
    /\ Informational \subseteq Events /\ Digested \subseteq Events
    /\ Timely \in BOOLEAN /\ RejectStates \subseteq EventStates
    /\ MaxChanges \in Nat /\ MaxCrashes \in Nat /\ MaxReleases \in Nat

VARIABLES
    pc,           \* pc[w]: the statement worker w executes next
    job,          \* job[w]: the claimed event
    goal,         \* goal[w]: new_state of the transition or failure in progress
    plan,         \* plan[w]: the snapshot w planned from
    answer,       \* answer[w]: the mapping the applier returned to w
    seen,         \* seen[w]: the row as w's last SELECT returned it
    arrival,      \* the accept() in progress and what its SELECTs returned
    op,           \* the operator's call in progress
    killSwitch,   \* event_runtime_control row kill_switch = 'true'
    world,        \* world[o]: digest of the provider's current state of object o
    projected,    \* projected[o]: the snapshot the applier last wrote through
    returned,     \* history: <<event, snapshot, mapping>> of the consistent readbacks
    changes, crashes, releases   \* how much of each bound is used

effects == <<projected, returned>>
workerVars == <<pc, job, goal, plan, answer, seen>>
envVars == <<arrival, op, killSwitch, world, effects, changes, crashes, releases>>
vars == <<queueVars, workerVars, envVars>>

Row(h, l, n) == [holder |-> h, lease |-> l, attempts |-> n]
Unread == Row(Nobody, "none", 0)
NoArrival == [event |-> NoEvent, digest |-> NoSnapshot, twin |-> FALSE]
NoCall == [call |-> "none", event |-> NoEvent]

\* The states process() names as the target of a transition or of fail().
Goals == {"validated", "duplicate", "snapshot_loaded", "informational", "no_change",
          "planned", "policy_evaluated", "blocked", "awaiting_approval", "applying",
          "readback_verified", "applied", "failed", "dead_letter"}

Stages == {"idle", "select", "update", "load", "bind", "bound", "plan", "decide",
           "recheck", "apply", "receipt", "failing", "fail_update"}

TypeOK ==
    /\ QueueTypeOK
    /\ pc \in [Workers -> Stages]
    /\ job \in [Workers -> Events \cup {NoEvent}]
    /\ goal \in [Workers -> Goals \cup {"none"}]
    /\ plan \in [Workers -> Snapshots \cup {NoSnapshot}]
    /\ answer \in [Workers -> Mappings \cup {NoMapping}]
    /\ seen \in [Workers -> [holder : Workers \cup {Nobody}, lease : Leases,
                             attempts : 0..MaxAttempts]]
    /\ arrival \in [event : Events \cup {NoEvent}, digest : Snapshots \cup {NoSnapshot},
                    twin : BOOLEAN]
    /\ op \in [call : {"none", "reject", "release"}, event : Events \cup {NoEvent}]
    /\ killSwitch \in BOOLEAN
    /\ world \in [Objects -> Snapshots]
    /\ projected \in [Objects -> Snapshots \cup {NoSnapshot}]
    /\ returned \subseteq Events \X Snapshots \X Mappings
    /\ changes \in 0..MaxChanges /\ crashes \in 0..MaxCrashes
    /\ releases \in 0..MaxReleases

\* The runbook's default controls: the kill switch starts on.
Init ==
    /\ QueueInit
    /\ pc = [w \in Workers |-> "idle"]
    /\ job = [w \in Workers |-> NoEvent]
    /\ goal = [w \in Workers |-> "none"]
    /\ plan = [w \in Workers |-> NoSnapshot]
    /\ answer = [w \in Workers |-> NoMapping]
    /\ seen = [w \in Workers |-> Unread]
    /\ arrival = NoArrival
    /\ op = NoCall
    /\ killSwitch = TRUE
    /\ world \in [Objects -> Snapshots]
    /\ projected = [o \in Objects |-> NoSnapshot]
    /\ returned = {}
    /\ changes = 0 /\ crashes = 0 /\ releases = 0

-----------------------------------------------------------------------------
(* Worker steps. *)

\* Execute the statement at `from`, then go on at `to` to reach state `new`.
Go(w, from, to, new) ==
    /\ pc[w] = from
    /\ pc' = [pc EXCEPT ![w] = to]
    /\ goal' = [goal EXCEPT ![w] = new]

\* process() returns: its locals are gone.
Return(w) ==
    /\ pc' = [pc EXCEPT ![w] = "idle"]
    /\ job' = [job EXCEPT ![w] = NoEvent]
    /\ goal' = [goal EXCEPT ![w] = "none"]
    /\ plan' = [plan EXCEPT ![w] = NoSnapshot]
    /\ answer' = [answer EXCEPT ![w] = NoMapping]
    /\ seen' = [seen EXCEPT ![w] = Unread]

\* The two except clauses: PermissionError and ValueError dead-letter at once,
\* any other exception spends one attempt.
Raise(w, from, kind) ==
    Go(w, from, "failing", IF kind = "permanent" THEN "dead_letter" ELSE "failed")

ErrorKinds == {"permanent", "transient"}

Claim(w) ==
    /\ pc[w] = "idle"
    /\ \E e \in Events :
         /\ ClaimEvent(w, e)
         /\ job' = [job EXCEPT ![w] = e]
    /\ pc' = [pc EXCEPT ![w] = "select"]
    /\ goal' = [goal EXCEPT ![w] = "validated"]
    /\ UNCHANGED <<plan, answer, seen, envVars>>

\* transition(), first half: the SELECT and its checks pass.
SelectRow(w) ==
    /\ pc[w] = "select"
    /\ ~IllegalTransition(job[w], goal[w])
    /\ ~HeldByAnother(job[w], w)
    /\ Go(w, "select", "update", goal[w])
    /\ seen' = [seen EXCEPT ![w] = Row(holder[job[w]], lease[job[w]], 0)]
    /\ UNCHANGED <<queueVars, job, plan, answer, envVars>>

\* transition(), first half: a check fails and raises.
RefuseTransition(w) ==
    /\ pc[w] = "select"
    /\ \/ /\ IllegalTransition(job[w], goal[w])
          /\ Raise(w, "select", "transient")
       \/ /\ ~IllegalTransition(job[w], goal[w])
          /\ HeldByAnother(job[w], w)
          /\ Raise(w, "select", "permanent")
    /\ UNCHANGED <<queueVars, job, plan, answer, seen, envVars>>

\* The statement of process() that follows a transition to s: PLANNED and
\* READBACK_VERIFIED are followed by the next transition.
After(s) == CASE s = "validated"        -> "load"
              [] s = "snapshot_loaded"  -> "plan"
              [] s = "policy_evaluated" -> "decide"
              [] s = "applying"         -> "recheck"
              [] OTHER                  -> "select"

NextGoal(s) == CASE s = "planned" -> "policy_evaluated"
                 [] s = "readback_verified" -> "applied"
                 [] OTHER -> s

\* transition(), second half: the UPDATE.  process() returns after a state that
\* ends its work and otherwise goes on.
UpdateRow(w) ==
    /\ pc[w] = "update"
    /\ WriteTransition(job[w], goal[w], seen[w].holder, seen[w].lease)
    /\ IF ReleasesLease(goal[w])
         THEN Return(w)
         ELSE /\ Go(w, "update", After(goal[w]), NextGoal(goal[w]))
              /\ seen' = [seen EXCEPT ![w] = Unread]
              /\ UNCHANGED <<job, plan, answer>>
    /\ UNCHANGED envVars

\* snapshots.load_current() returns the provider's current state.
LoadSnapshot(w) ==
    /\ Go(w, "load", "bind", "none")
    /\ plan' = [plan EXCEPT ![w] = world[ObjectOf[job[w]]]]
    /\ UNCHANGED <<queueVars, job, answer, seen, envVars>>

\* bind_snapshot(), the SELECT of an event with the same snapshot.
FindDuplicate(w) ==
    /\ pc[w] = "bind"
    /\ Go(w, "bind", "bound", IF HasSemanticTwin(job[w], plan[w]) THEN "duplicate"
                                                                 ELSE "snapshot_loaded")
    /\ UNCHANGED <<queueVars, job, plan, answer, seen, envVars>>

\* Mutation: a digest once stored is not replaced by the one of a retry.
BindFirstSnapshot(w) ==
    /\ Go(w, "bound", "select", goal[w])
    /\ IF digest[job[w]] = NoSnapshot THEN WriteDigest(job[w], plan[w]) ELSE UNCHANGED queueVars
    /\ UNCHANGED <<job, plan, answer, seen, envVars>>

\* bind_snapshot(), the UPDATE: the digest is stored whether a twin exists or not.
BindSnapshot(w) ==
    /\ Go(w, "bound", "select", goal[w])
    /\ WriteDigest(job[w], plan[w])
    /\ UNCHANGED <<job, plan, answer, seen, envVars>>

\* planner.plan(): mutations exactly when the projection does not show the snapshot.
PlanEvent(w) ==
    /\ pc[w] = "plan"
    /\ Go(w, "plan", "select",
          IF job[w] \in Informational THEN "informational"
          ELSE IF projected[ObjectOf[job[w]]] = plan[w] THEN "no_change" ELSE "planned")
    /\ UNCHANGED <<queueVars, job, plan, answer, seen, envVars>>

\* policy.evaluate(): it reads the plan and the AutonomyPolicy object the process
\* was built with, never event_runtime_control; any of its decisions is possible.
Decide(w) ==
    /\ \E s \in {"blocked", "awaiting_approval", "applying"} : Go(w, "decide", "select", s)
    /\ UNCHANGED <<queueVars, job, plan, answer, seen, envVars>>

\* The reload before applying; a changed snapshot raises RuntimeError.
Recheck(w) ==
    /\ pc[w] = "recheck"
    /\ IF world[ObjectOf[job[w]]] = plan[w] THEN Go(w, "recheck", "apply", "none")
                                            ELSE Raise(w, "recheck", "transient")
    /\ UNCHANGED <<queueVars, job, plan, answer, seen, envVars>>

\* applier.apply_and_readback(): the mapping of a consistent readback, which nothing makes
\* differ from that of another event, or an inconsistent one or an exception, after which
\* the write may or may not have happened.
Apply(w) ==
    /\ \/ \E r \in Mappings :
             /\ Go(w, "apply", "receipt", "readback_verified")
             /\ projected' = [projected EXCEPT ![ObjectOf[job[w]]] = plan[w]]
             /\ answer' = [answer EXCEPT ![w] = r]
             /\ returned' = returned \cup {<<job[w], plan[w], r>>}
       \/ /\ \E kind \in ErrorKinds : Raise(w, "apply", kind)
          /\ \/ UNCHANGED projected
             \/ projected' = [projected EXCEPT ![ObjectOf[job[w]]] = plan[w]]
          /\ UNCHANGED <<answer, returned>>
    /\ UNCHANGED <<queueVars, job, plan, seen, arrival, op, killSwitch, world,
                   changes, crashes, releases>>

\* Mutation: the receipt is forgotten.
RecordNothing(w) ==
    /\ Go(w, "receipt", "select", "readback_verified")
    /\ UNCHANGED <<queueVars, job, plan, answer, seen, envVars>>

RecordReceipt(w) ==
    /\ Go(w, "receipt", "select", "readback_verified")
    /\ InsertReceipt(job[w], plan[w], answer[w])
    /\ UNCHANGED <<job, plan, answer, seen, envVars>>

\* The snapshot loader (both calls) and the planner are remote and may raise.
CallFails(w) ==
    /\ \E from \in {"load", "plan", "recheck"}, kind \in ErrorKinds : Raise(w, from, kind)
    /\ UNCHANGED <<queueVars, job, plan, answer, seen, envVars>>

\* fail(), the SELECT of attempt_count, and its UPDATE.
SelectAttempts(w) ==
    /\ Go(w, "failing", "fail_update", goal[w])
    /\ seen' = [seen EXCEPT ![w] = Row(Nobody, "none", attempts[job[w]])]
    /\ UNCHANGED <<queueVars, job, plan, answer, envVars>>

UpdateFailure(w) ==
    /\ pc[w] = "fail_update"
    /\ WriteFailure(job[w], seen[w].attempts,
                    IF goal[w] = "dead_letter" THEN 1 ELSE MaxAttempts)
    /\ Return(w)
    /\ UNCHANGED envVars

\* The worker process dies; the tables keep what was committed.
Crash(w) ==
    /\ pc[w] # "idle"
    /\ crashes < MaxCrashes
    /\ crashes' = crashes + 1
    /\ Return(w)
    /\ UNCHANGED <<queueVars, arrival, op, killSwitch, world, effects, changes, releases>>

-----------------------------------------------------------------------------
(* The operator. *)

\* reject() is a transition to BLOCKED without a worker id: its SELECT ...
RejectSelect(e) ==
    /\ op = NoCall
    /\ state[e] \in RejectStates
    /\ ~IllegalTransition(e, "blocked")
    /\ op' = [call |-> "reject", event |-> e]
    /\ UNCHANGED <<queueVars, workerVars, arrival, killSwitch, world, effects, changes,
                   crashes, releases>>

\* ... and its UPDATE.
RejectUpdate ==
    /\ op.call = "reject"
    /\ WriteTransition(op.event, "blocked", Nobody, "none")
    /\ op' = NoCall
    /\ UNCHANGED <<workerVars, arrival, killSwitch, world, effects, changes,
                   crashes, releases>>

\* Mutation: release_dead_letter() takes any terminal event.
ReleaseAnyTerminal(e) ==
    /\ op = NoCall
    /\ state[e] \in TerminalStates
    /\ releases < MaxReleases
    /\ op' = [call |-> "release", event |-> e]
    /\ releases' = releases + 1
    /\ UNCHANGED <<queueVars, workerVars, arrival, killSwitch, world, effects, changes, crashes>>

\* release_dead_letter(): its SELECT and check, then its UPDATE.
ReleaseSelect(e) ==
    /\ op = NoCall
    /\ state[e] = "dead_letter"
    /\ releases < MaxReleases
    /\ op' = [call |-> "release", event |-> e]
    /\ releases' = releases + 1
    /\ UNCHANGED <<queueVars, workerVars, arrival, killSwitch, world, effects, changes, crashes>>

ReleaseUpdate ==
    /\ op.call = "release"
    /\ WriteRelease(op.event)
    /\ op' = NoCall
    /\ UNCHANGED <<workerVars, arrival, killSwitch, world, effects, changes,
                   crashes, releases>>

\* pause_auto_apply() and resume_auto_apply() write event_runtime_control.
SetKillSwitch ==
    /\ killSwitch' = ~killSwitch
    /\ UNCHANGED <<queueVars, workerVars, arrival, op, world, effects, changes,
                   crashes, releases>>

-----------------------------------------------------------------------------
(* Arrivals, the provider, and time. *)

\* The receiver or the backstop accepts event e: its SELECTs.  A delivery id that
\* is known already is answered from the stored row, without a change.
AcceptSelect(e) ==
    /\ arrival = NoArrival
    /\ state[e] = "absent"
    /\ LET d == IF e \in Digested THEN world[ObjectOf[e]] ELSE NoSnapshot
       IN  arrival' = [event |-> e, digest |-> d,
                       twin |-> d # NoSnapshot /\ HasSemanticTwin(e, d)]
    /\ UNCHANGED <<queueVars, workerVars, op, killSwitch, world, effects, changes,
                   crashes, releases>>

\* ... and its INSERT.
AcceptInsert ==
    /\ arrival.event # NoEvent
    /\ InsertEvent(arrival.event, arrival.digest, arrival.twin)
    /\ arrival' = NoArrival
    /\ UNCHANGED <<workerVars, op, killSwitch, world, effects, changes, crashes, releases>>

\* Someone edits the object at the provider.
ProviderChanges(o) ==
    /\ changes < MaxChanges
    /\ changes' = changes + 1
    /\ \E s \in Snapshots \ {world[o]} : world' = [world EXCEPT ![o] = s]
    /\ UNCHANGED <<queueVars, workerVars, arrival, op, killSwitch, effects, crashes, releases>>

\* When a lease ends, so does every copy of its expiry in a worker's memory.
LeaseLapses(e) ==
    /\ Timely => \A w \in Workers : job[w] # e
    /\ LapseEventLease(e)
    /\ seen' = [w \in Workers |-> IF job[w] = e /\ seen[w].lease = "live"
                                    THEN Row(seen[w].holder, "lapsed", 0) ELSE seen[w]]
    /\ UNCHANGED <<pc, job, goal, plan, answer, envVars>>

ObjectLeaseLapses(o) ==
    /\ Timely => \A w \in Workers : job[w] # objectRow[o]
    /\ LapseObjectLease(o)
    /\ UNCHANGED <<workerVars, envVars>>

BackoffEnds(e) ==
    /\ EndBackoff(e)
    /\ UNCHANGED <<workerVars, envVars>>

-----------------------------------------------------------------------------
\* The steps of process() itself: from a claim to a return.
Process(w) ==
    \/ SelectRow(w) \/ RefuseTransition(w) \/ UpdateRow(w)
    \/ LoadSnapshot(w) \/ FindDuplicate(w) \/ BindSnapshot(w)
    \/ PlanEvent(w) \/ Decide(w) \/ Recheck(w) \/ Apply(w) \/ RecordReceipt(w)
    \/ CallFails(w) \/ SelectAttempts(w) \/ UpdateFailure(w)

Work(w) == Claim(w) \/ Process(w) \/ Crash(w)

Operate ==
    \/ \E e \in Events : RejectSelect(e) \/ ReleaseSelect(e)
    \/ RejectUpdate \/ ReleaseUpdate \/ SetKillSwitch

Accept == (\E e \in Events : AcceptSelect(e)) \/ AcceptInsert

Tick == \/ \E e \in Events : LeaseLapses(e) \/ BackoffEnds(e)
        \/ \E o \in Objects : ObjectLeaseLapses(o)

Next ==
    \/ \E w \in Workers : Work(w)
    \/ Operate
    \/ Accept
    \/ \E o \in Objects : ProviderChanges(o)
    \/ Tick

Spec == Init /\ [][Next]_vars

\* A worker loop polls claim() and runs process() to its end; clocks advance.
\* Nothing obliges a provider, a webhook or an operator to act, or a worker to crash.
Fairness ==
    /\ \A w \in Workers : WF_vars(Claim(w)) /\ WF_vars(Process(w))
    /\ \A e \in Events : WF_vars(LeaseLapses(e)) /\ WF_vars(BackoffEnds(e))
    /\ \A o \in Objects : WF_vars(ObjectLeaseLapses(o))

FairSpec == Spec /\ Fairness

-----------------------------------------------------------------------------
(* Safety. *)

Busy(w) == pc[w] # "idle"

Reported == {"readback_verified", "applied"}

\* A consistent readback of s for e returned a mapping that is on record: under e, or under
\* another event for which a consistent readback returned the same.
Receipted(e, s) ==
    \E r \in Mappings :
        /\ <<e, s, r>> \in returned
        /\ \E f \in Events, t \in Snapshots : <<f, t, r>> \in receipts \cap returned

\* process() never reports a write that was not read back: a row reaches READBACK_VERIFIED
\* or APPLIED only once a consistent readback for that event has returned a mapping that
\* record_receipt() stored or found stored (events.py:669-683, 956-959).  No assumption on
\* leases, nor that mappings of two events differ.
AppliedHasReceipt ==
    \A e \in Events : state[e] \in Reported => \E s \in Snapshots : Receipted(e, s)

\* That readback was of the snapshot the row is bound to, so the digest later events are
\* compared with (events.py:620) is the one that was written through.
AppliedSnapshotIsBound ==
    \A e \in Events : state[e] \in Reported => Receipted(e, digest[e])

\* fail() never leaves a row FAILED once its budget is spent (bounded retries).
FailedHasBudget ==
    \A e \in Events : state[e] = "failed" => attempts[e] < MaxAttempts

\* claim() serialises the events of one object: two busy workers never work on
\* the same object, let alone on the same event.
OneWorkerPerObject ==
    \A v, w \in Workers : Busy(v) /\ Busy(w) /\ v # w =>
                             ObjectOf[job[v]] # ObjectOf[job[w]]

\* A worker that calls the applier does so for a row that is APPLYING, that it
\* still holds, and that is bound to the very snapshot it planned from.
AppliesItsOwnRow ==
    \A w \in Workers : pc[w] = "apply" =>
        /\ state[job[w]] = "applying"
        /\ holder[job[w]] = w
        /\ digest[job[w]] = plan[w]

\* The two lease tables agree: an event lease that has not ended is backed by
\* the lease row of its object, and the other way round.
LeaseTablesAgree ==
    /\ \A e \in Events : lease[e] = "live" =>
                            objectRow[ObjectOf[e]] = e /\ objectLive[ObjectOf[e]]
    /\ \A o \in Objects : objectLive[o] =>
                            objectRow[o] # NoEvent /\ lease[objectRow[o]] = "live"

-----------------------------------------------------------------------------
(* Action properties. *)

\* "terminal event cannot transition": nothing moves a row out of a terminal
\* state, except release_dead_letter(), which restores its attempt budget.
TerminalIsFinal ==
    [][\A e \in Events : state[e] \in TerminalStates /\ state'[e] # state[e] =>
          state[e] = "dead_letter" /\ state'[e] = "failed" /\ attempts'[e] = 0]_vars

-----------------------------------------------------------------------------
(* Deduplication. *)

\* An event put aside as DUPLICATE leaves another event of the same identity and
\* snapshot that was not: someone is still responsible for the change.
DuplicateHasOriginal ==
    \A e \in Events : state[e] = "duplicate" =>
        \E f \in Events \ {e} : /\ IdentityOf[f] = IdentityOf[e]
                                 /\ digest[f] = digest[e]
                                 /\ state[f] # "duplicate"

-----------------------------------------------------------------------------
(* Liveness. *)

Settled(e) == state[e] \in TerminalStates \cup {"awaiting_approval"}

\* Every accepted event is eventually decided: applied, found to need nothing,
\* blocked, put before Ryan, or isolated as a dead letter.
EventuallySettled == \A e \in Events : (state[e] = "received") ~> Settled(e)

-----------------------------------------------------------------------------
(* Refinement: what EventDelivery promises. *)

RestingStatus(s) ==
    CASE s = "absent"                -> "absent"
      [] s \in {"received", "failed"} -> "queued"
      [] s = "awaiting_approval"     -> "waiting"
      [] s \in TerminalStates        -> "closed"
      [] OTHER                       -> "stranded"

InWork(e) == \E w \in Workers : job[w] = e

DeliveryStatus(e) == IF InWork(e) THEN "working" ELSE RestingStatus(state[e])

Delivery == INSTANCE EventDelivery WITH status <- [e \in Events |-> DeliveryStatus(e)]

\* Every step of the queue, its workers and its operator is a step of EventDelivery
\* or leaves every event's status alone.
ImplementsDelivery == Delivery!DeliverySpec
=============================================================================
