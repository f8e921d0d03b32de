----------------------------- MODULE EventProofs -----------------------------
(***************************************************************************)
(* What holds of EventProcessor for every set of events, objects, workers  *)
(* and snapshots, every attempt budget and whatever leases and operators   *)
(* do; and, in the second half, what holds besides while leases are        *)
(* timely.                                                                 *)
(***************************************************************************)
EXTENDS EventProcessor, TLAPS

\* The targets of process()'s own transitions.
WorkGoals == Goals \ {"failed", "dead_letter"}

\* What a worker has in memory fits the statement it executes next.
LocalsOK ==
    /\ \A w \in Workers :
         /\ IF pc[w] = "idle" THEN job[w] = NoEvent ELSE job[w] \in Events
         /\ pc[w] \in {"select", "update"} => goal[w] \in WorkGoals
         /\ pc[w] = "bound" => goal[w] \in WorkGoals \ {"readback_verified", "applied", "validated"}
         /\ pc[w] \in {"failing", "fail_update"} => goal[w] \in {"failed", "dead_letter"}
         /\ pc[w] \in {"bind", "bound", "plan", "decide", "recheck", "apply", "receipt"}
              => plan[w] \in Snapshots
         /\ pc[w] = "receipt" => answer[w] \in Mappings
         /\ pc[w] \in {"select", "update"} /\ goal[w] # "validated" => plan[w] \in Snapshots
    /\ op.call # "none" => op.event \in Events

TypeInv == TypeOK /\ LocalsOK

USE DEF Leases, Row

LEMMA AfterStage ==
    ASSUME NEW s \in WorkGoals, ~ReleasesLease(s)
    PROVE  /\ After(s) \in {"load", "plan", "select", "decide", "recheck"}
           /\ NextGoal(s) \in WorkGoals
           /\ After(s) = "load" <=> s = "validated"
           /\ After(s) = "select" => NextGoal(s) # "validated"
           /\ After(s) = "select" /\ NextGoal(s) \in {"readback_verified", "applied"}
                => s = "readback_verified"
           /\ s \in ActiveStates
  BY DEF WorkGoals, Goals, ReleasesLease, TerminalStates, ActiveStates, After, NextGoal

LEMMA DeleteKeepsType ==
    ASSUME QueueTypeOK, NEW e, DeleteObjectLease(e)
    PROVE  objectRow' \in [Objects -> Events \cup {NoEvent}] /\ objectLive' \in [Objects -> BOOLEAN]
  BY DEF QueueTypeOK, DeleteObjectLease

LEMMA TypeInit == Init => TypeInv
  BY NullAssumption, MaxAttemptsAssumption, ProcessorAssumption
     DEF Init, QueueInit, TypeInv, TypeOK, QueueTypeOK, LocalsOK, Unread, NoCall, NoArrival, EventStates,
         Stages, Goals

\* A worker's step changes what worker w has in memory and at most one table row.
LEMMA TypeStepWorker ==
    ASSUME TypeInv, NEW w \in Workers, Work(w)
    PROVE  TypeInv'
<1> USE NullAssumption, MaxAttemptsAssumption, ObjectOfAssumption
<1> USE DEF TypeInv, TypeOK, QueueTypeOK, LocalsOK, Unread, Stages, Goals, WorkGoals
<1>1. CASE Claim(w)
  BY <1>1 DEF Claim, ClaimEvent, Claimable, envVars, effects
<1>2. CASE SelectRow(w)
  BY <1>2 DEF SelectRow, Go, queueVars, leaseVars, envVars, effects
<1>3. CASE RefuseTransition(w)
  <2>1. /\ UNCHANGED <<queueVars, job, plan, answer, seen, envVars>>
        /\ pc[w] = "select" /\ pc' = [pc EXCEPT ![w] = "failing"]
        /\ \E g \in {"failed", "dead_letter"} : goal' = [goal EXCEPT ![w] = g]
    BY <1>3 DEF RefuseTransition, Raise, Go
  <2>2. TypeOK'
    BY <2>1 DEF queueVars, leaseVars, envVars, effects
  <2>3. LocalsOK'
    BY <2>1 DEF envVars, effects
  <2> QED BY <2>2, <2>3
<1>4. CASE UpdateRow(w)
  <2>1. goal[w] \in WorkGoals /\ job[w] \in Events /\ seen[w].holder \in Workers \cup {Nobody}
        /\ seen[w].lease \in Leases
    BY <1>4 DEF UpdateRow
  <2>2. QueueTypeOK'
    <3>1. goal[w] \in EventStates
      BY <2>1 DEF EventStates, TerminalStates, ActiveStates
    <3>2. WriteTransition(job[w], goal[w], seen[w].holder, seen[w].lease)
      BY <1>4 DEF UpdateRow
    <3>3. CASE ReleasesLease(goal[w])
      <4>1. objectRow' \in [Objects -> Events \cup {NoEvent}] /\ objectLive' \in [Objects -> BOOLEAN]
        BY <3>2, <3>3, DeleteKeepsType DEF WriteTransition
      <4> QED BY <2>1, <3>1, <3>2, <3>3, <4>1 DEF WriteTransition
    <3>4. CASE ~ReleasesLease(goal[w])
      <4>1. /\ state' = [state EXCEPT ![job[w]] = goal[w]]
            /\ holder' = [holder EXCEPT ![job[w]] = seen[w].holder]
            /\ lease' = [lease EXCEPT ![job[w]] = seen[w].lease]
            /\ UNCHANGED <<objectRow, objectLive, backoff, attempts, digest, receipts>>
        BY <3>2, <3>4 DEF WriteTransition
      <4> QED BY <2>1, <3>1, <4>1
    <3> QED BY <3>3, <3>4
  <2>3. CASE ReleasesLease(goal[w])
    <3>1. Return(w) /\ UNCHANGED envVars
      BY <1>4, <2>3 DEF UpdateRow
    <3> QED BY <2>2, <3>1 DEF Return, envVars, effects
  <2>4. CASE ~ReleasesLease(goal[w])
    <3>1. UNCHANGED <<job, plan, answer, envVars>> /\ seen' = [seen EXCEPT ![w] = Unread]
      BY <1>4, <2>4 DEF UpdateRow
    <3>2. pc' = [pc EXCEPT ![w] = After(goal[w])] /\ goal' = [goal EXCEPT ![w] = NextGoal(goal[w])]
      BY <1>4, <2>4 DEF UpdateRow, Go
    <3>3. pc[w] = "update"
      BY <1>4 DEF UpdateRow
    <3>4. /\ After(goal[w]) \in {"load", "plan", "select", "decide", "recheck"}
          /\ NextGoal(goal[w]) \in WorkGoals
          /\ After(goal[w]) = "load" <=> goal[w] = "validated"
          /\ After(goal[w]) = "select" => NextGoal(goal[w]) # "validated"
      BY <2>1, <2>4, AfterStage
    <3> HIDE DEF WorkGoals, QueueTypeOK
    <3>5. TypeOK'
      BY <2>2, <3>1, <3>2, <3>4 DEF envVars, effects, WorkGoals
    <3>6. LocalsOK'
      BY <3>1, <3>2, <3>3, <3>4 DEF envVars, effects
    <3> QED BY <3>5, <3>6
  <2> QED BY <2>3, <2>4
<1>5. CASE LoadSnapshot(w)
  BY <1>5 DEF LoadSnapshot, Go, queueVars, leaseVars, envVars, effects
<1>6. CASE FindDuplicate(w)
  BY <1>6 DEF FindDuplicate, Go, queueVars, leaseVars, envVars, effects
<1>7. CASE BindSnapshot(w)
  BY <1>7 DEF BindSnapshot, WriteDigest, Go, queueVars, leaseVars, envVars, effects
<1>8. CASE PlanEvent(w)
  BY <1>8 DEF PlanEvent, Go, queueVars, leaseVars, envVars, effects
<1>9. CASE Decide(w)
  BY <1>9 DEF Decide, Go, queueVars, leaseVars, envVars, effects
<1>10. CASE Recheck(w)
  <2>1. /\ UNCHANGED <<queueVars, job, plan, answer, seen, envVars>>
        /\ pc[w] = "recheck"
        /\ \/ pc' = [pc EXCEPT ![w] = "apply"] /\ goal' = [goal EXCEPT ![w] = "none"]
           \/ pc' = [pc EXCEPT ![w] = "failing"] /\ goal' = [goal EXCEPT ![w] = "failed"]
    BY <1>10 DEF Recheck, Raise, Go
  <2>2. TypeOK'
    BY <2>1 DEF queueVars, leaseVars, envVars, effects
  <2>3. LocalsOK'
    BY <2>1 DEF envVars, effects
  <2> QED BY <2>2, <2>3
<1>11. CASE Apply(w)
  <2>1. /\ UNCHANGED <<queueVars, job, plan, seen, arrival, op, killSwitch, world, changes,
                        crashes, releases>>
        /\ plan[w] \in Snapshots
        /\ projected' \in {projected, [projected EXCEPT ![ObjectOf[job[w]]] = plan[w]]}
    BY <1>11 DEF Apply, Raise, Go
  <2>2. job[w] \in Events /\ ObjectOf[job[w]] \in Objects
    BY <1>11 DEF Apply, Raise, Go
  <2>3. projected' \in [Objects -> Snapshots \cup {NoSnapshot}]
    BY <2>1, <2>2
  <2>4. CASE /\ pc' = [pc EXCEPT ![w] = "receipt"]
             /\ goal' = [goal EXCEPT ![w] = "readback_verified"]
             /\ \E r \in Mappings : /\ answer' = [answer EXCEPT ![w] = r]
                                  /\ returned' = returned \cup {<<job[w], plan[w], r>>}
    <3>1. PICK r \in Mappings : /\ answer' = [answer EXCEPT ![w] = r]
                                /\ returned' = returned \cup {<<job[w], plan[w], r>>}
      BY <2>4
    <3>2. returned' \subseteq Events \X Snapshots \X Mappings
      BY <2>1, <2>2, <3>1
    <3>3. TypeOK'
      BY <2>1, <2>3, <2>4, <3>1, <3>2 DEF queueVars, leaseVars
    <3>4. LocalsOK'
      BY <2>1, <2>2, <2>4, <3>1
    <3> QED BY <3>3, <3>4
  <2>5. CASE /\ pc' = [pc EXCEPT ![w] = "failing"] /\ UNCHANGED <<answer, returned>>
             /\ \E g \in {"failed", "dead_letter"} : goal' = [goal EXCEPT ![w] = g]
    <3>1. TypeOK'
      BY <2>1, <2>3, <2>5 DEF queueVars, leaseVars
    <3>2. LocalsOK'
      BY <2>1, <2>2, <2>5
    <3> QED BY <3>1, <3>2
  <2> QED BY <1>11, <2>4, <2>5 DEF Apply, Raise, Go
<1>12. CASE RecordReceipt(w)
  <2>1. /\ UNCHANGED <<state, holder, lease, backoff, attempts, digest, objectRow, objectLive,
                        job, plan, answer, seen, envVars>>
        /\ pc[w] = "receipt" /\ pc' = [pc EXCEPT ![w] = "select"]
        /\ goal' = [goal EXCEPT ![w] = "readback_verified"]
        /\ receipts' \in {receipts, receipts \cup {<<job[w], plan[w], answer[w]>>}}
    BY <1>12 DEF RecordReceipt, InsertReceipt, Go, leaseVars
  <2>2. receipts' \subseteq Events \X Snapshots \X Mappings
    BY <2>1
  <2>3. TypeOK'
    BY <2>1, <2>2 DEF envVars, effects
  <2>4. LocalsOK'
    BY <2>1 DEF envVars
  <2> QED BY <2>3, <2>4
<1>13. CASE CallFails(w)
  BY <1>13 DEF CallFails, Raise, Go, queueVars, leaseVars, envVars, effects
<1>14. CASE SelectAttempts(w)
  BY <1>14 DEF SelectAttempts, Go, queueVars, leaseVars, envVars, effects
<1>15. CASE UpdateFailure(w)
  <2>1. seen[w].attempts \in 0..MaxAttempts /\ job[w] \in Events
    BY <1>15 DEF UpdateFailure
  <2>2. QueueTypeOK'
    BY <1>15, <2>1 DEF UpdateFailure, WriteFailure, FailureState, DeleteObjectLease, EventStates,
                      TerminalStates
  <2> QED BY <1>15, <2>2 DEF UpdateFailure, Return, envVars, effects
<1>16. CASE Crash(w)
  BY <1>16, ProcessorAssumption DEF Crash, Return, queueVars, leaseVars, effects
<1> QED
  BY <1>1, <1>2, <1>3, <1>4, <1>5, <1>6, <1>7, <1>8, <1>9, <1>10, <1>11, <1>12, <1>13, <1>14,
     <1>15, <1>16 DEF Work, Process

\* The operator, arrivals, the provider and the clock leave the workers' memory
\* alone, but for the expiry a worker has read.
LEMMA TypeStepOthers ==
    ASSUME TypeInv,
           Operate \/ Accept
             \/ (\E o \in Objects : ProviderChanges(o)) \/ Tick
    PROVE  TypeInv'
<1> USE NullAssumption, MaxAttemptsAssumption, ObjectOfAssumption, ProcessorAssumption
<1> USE DEF TypeInv, TypeOK, QueueTypeOK, LocalsOK, NoCall, NoArrival, effects
<1>1. ASSUME NEW e \in Events, RejectSelect(e) PROVE TypeInv'
  BY <1>1 DEF RejectSelect, queueVars, leaseVars, workerVars
<1>2. CASE RejectUpdate
  <2>1. op.event \in Events
    BY <1>2 DEF RejectUpdate
  <2>2. objectRow' \in [Objects -> Events \cup {NoEvent}] /\ objectLive' \in [Objects -> BOOLEAN]
    BY <1>2, DeleteKeepsType DEF RejectUpdate, WriteTransition, ReleasesLease, TerminalStates
  <2>3. QueueTypeOK'
    <3>1. /\ state' = [state EXCEPT ![op.event] = "blocked"]
          /\ holder' = [holder EXCEPT ![op.event] = Nobody]
          /\ lease' = [lease EXCEPT ![op.event] = "none"]
          /\ UNCHANGED <<backoff, attempts, digest, receipts>>
      BY <1>2 DEF RejectUpdate, WriteTransition, ReleasesLease, TerminalStates
    <3> QED BY <2>1, <2>2, <3>1 DEF EventStates, TerminalStates
  <2> QED BY <1>2, <2>3 DEF RejectUpdate, workerVars
<1>3. ASSUME NEW e \in Events, ReleaseSelect(e) PROVE TypeInv'
  BY <1>3 DEF ReleaseSelect, queueVars, leaseVars, workerVars
<1>4. CASE ReleaseUpdate
  BY <1>4 DEF ReleaseUpdate, WriteRelease, EventStates, leaseVars, workerVars
<1>5. CASE SetKillSwitch
  BY <1>5 DEF SetKillSwitch, queueVars, leaseVars, workerVars
<1>6. CASE Accept
  <2>1. ASSUME NEW e \in Events, AcceptSelect(e) PROVE TypeInv'
    BY <2>1 DEF AcceptSelect, queueVars, leaseVars, workerVars
  <2>2. CASE AcceptInsert
    BY <2>2 DEF AcceptInsert, InsertEvent, EventStates, TerminalStates, leaseVars, workerVars
  <2> QED BY <1>6, <2>1, <2>2 DEF Accept
<1>7. ASSUME NEW o \in Objects, ProviderChanges(o) PROVE TypeInv'
  BY <1>7 DEF ProviderChanges, queueVars, leaseVars, workerVars
<1>8. ASSUME NEW e \in Events, LeaseLapses(e) PROVE TypeInv'
  <2>1. objectLive' \in [Objects -> BOOLEAN]
    BY <1>8 DEF LeaseLapses, LapseEventLease
  <2> QED BY <1>8, <2>1 DEF LeaseLapses, LapseEventLease, envVars
<1>9. ASSUME NEW o \in Objects, ObjectLeaseLapses(o) PROVE TypeInv'
  BY <1>9 DEF ObjectLeaseLapses, LapseObjectLease, workerVars, envVars
<1>10. ASSUME NEW e \in Events, BackoffEnds(e) PROVE TypeInv'
  BY <1>10 DEF BackoffEnds, EndBackoff, leaseVars, workerVars, envVars
<1> QED
  BY <1>1, <1>2, <1>3, <1>4, <1>5, <1>6, <1>7, <1>8, <1>9, <1>10 DEF Operate, Tick

LEMMA TypeStutter == TypeInv /\ UNCHANGED vars => TypeInv'
  BY DEF TypeInv, TypeOK, QueueTypeOK, LocalsOK, vars, queueVars, leaseVars, workerVars, envVars,
     effects

\* Every table and every worker's memory keep the types the code gives them.
THEOREM TypeCorrect == Spec => []TypeInv
<1>1. TypeInv /\ [Next]_vars => TypeInv'
  BY TypeStepWorker, TypeStepOthers, TypeStutter DEF Next
<1> QED BY TypeInit, <1>1, PTL DEF Spec

COROLLARY TypeOKCorrect == Spec => []TypeOK
<1>1. TypeInv => TypeOK
  BY DEF TypeInv
<1> QED BY TypeCorrect, <1>1, PTL

-----------------------------------------------------------------------------
(* Receipts and attempt budgets: no assumption on leases or operators. *)

\* A worker about to record a receipt holds the mapping of its own readback; one on its way
\* to READBACK_VERIFIED or APPLIED has recorded that mapping, or found it recorded; and
\* every receipt on record is the mapping of a consistent readback.
ReceiptInv ==
    /\ receipts \subseteq returned
    /\ \A w \in Workers : pc[w] = "receipt" => <<job[w], plan[w], answer[w]>> \in returned
    /\ \A w \in Workers : pc[w] \in {"select", "update"} /\ goal[w] \in Reported =>
                             Receipted(job[w], plan[w])
    /\ \A e \in Events : state[e] \in Reported => \E s \in Snapshots : Receipted(e, s)

\* What a worker has in memory about its receipt.
Locals(w) == <<pc[w], goal[w], job[w], plan[w], answer[w]>>

LEMMA ReceiptedKept ==
    ASSUME receipts \subseteq receipts', returned \subseteq returned', NEW e, NEW s, Receipted(e, s)
    PROVE  Receipted(e, s)'
  BY DEF Receipted

\* Only worker w moves, and what it then claims of receipts is true.
LEMMA ReceiptFrame ==
    ASSUME ReceiptInv, NEW w \in Workers,
           receipts \subseteq receipts', returned \subseteq returned', receipts' \subseteq returned',
           \A v \in Workers \ {w} : Locals(v)' = Locals(v),
           pc'[w] = "receipt" => <<job'[w], plan'[w], answer'[w]>> \in returned',
           pc'[w] \in {"select", "update"} /\ goal'[w] \in Reported =>
               Receipted(job[w], plan[w])',
           \A e \in Events : state'[e] \in Reported =>
               state[e] \in Reported \/ \E s \in Snapshots : Receipted(e, s)'
    PROVE  ReceiptInv'
<1>1. ASSUME NEW v \in Workers, pc'[v] = "receipt"
      PROVE  <<job'[v], plan'[v], answer'[v]>> \in returned'
  BY <1>1 DEF ReceiptInv, Locals
<1>2. ASSUME NEW v \in Workers, pc'[v] \in {"select", "update"}, goal'[v] \in Reported
      PROVE  Receipted(job[v], plan[v])'
  <2>1. CASE v # w
    <3>1. /\ Locals(v)' = Locals(v) /\ Receipted(job[v], plan[v])
          /\ job'[v] = job[v] /\ plan'[v] = plan[v]
      BY <1>2, <2>1 DEF ReceiptInv, Locals
    <3> QED BY <3>1 DEF Receipted
  <2> QED BY <1>2, <2>1
<1>3. ASSUME NEW e \in Events, state'[e] \in Reported
      PROVE  \E s \in Snapshots : Receipted(e, s)'
  <2>1. ASSUME NEW s \in Snapshots, Receipted(e, s) PROVE Receipted(e, s)'
    BY <2>1, ReceiptedKept
  <2> QED BY <1>3, <2>1 DEF ReceiptInv
<1> QED BY <1>1, <1>2, <1>3 DEF ReceiptInv

\* Worker w goes to a statement that reports nothing and records no receipt.
LEMMA ReceiptLocal ==
    ASSUME ReceiptInv, NEW w \in Workers, UNCHANGED receipts, returned \subseteq returned',
           \A e \in Events : state'[e] \in Reported => state[e] \in Reported,
           \A v \in Workers \ {w} : Locals(v)' = Locals(v),
           \/ pc'[w] \notin {"select", "update", "receipt"}
           \/ pc'[w] # "receipt" /\ goal'[w] \notin Reported
    PROVE  ReceiptInv'
<1>1. receipts' \subseteq returned'
  BY DEF ReceiptInv
<1> QED BY <1>1, ReceiptFrame

LEMMA ReceiptStepApply ==
    ASSUME TypeInv, ReceiptInv, NEW w \in Workers, Apply(w)
    PROVE  ReceiptInv'
<1> USE DEF TypeInv, TypeOK
<1>1. /\ UNCHANGED <<receipts, state, job, plan>>
      /\ \E s \in {"receipt", "failing"} : pc' = [pc EXCEPT ![w] = s]
      /\ \E g : goal' = [goal EXCEPT ![w] = g]
  BY DEF Apply, Raise, Go, queueVars
<1>2. CASE \E r \in Mappings : /\ answer' = [answer EXCEPT ![w] = r]
                              /\ returned' = returned \cup {<<job[w], plan[w], r>>}
  <2>1. /\ <<job'[w], plan'[w], answer'[w]>> \in returned' /\ returned \subseteq returned'
        /\ \A v \in Workers \ {w} : Locals(v)' = Locals(v)
        /\ pc'[w] \notin {"select", "update"}
    BY <1>1, <1>2 DEF Locals
  <2>2. receipts' \subseteq returned'
    BY <1>1, <2>1 DEF ReceiptInv
  <2> HIDE DEF TypeInv
  <2> QED BY <1>1, <2>1, <2>2, ReceiptFrame
<1>3. CASE UNCHANGED <<answer, returned>> /\ pc'[w] = "failing"
  <2>1. \A v \in Workers \ {w} : Locals(v)' = Locals(v)
    BY <1>1, <1>3 DEF Locals
  <2> HIDE DEF TypeInv
  <2> QED BY <1>1, <1>3, <2>1, ReceiptLocal
<1> QED BY <1>2, <1>3 DEF Apply, Raise, Go

\* Recorded now or found recorded: either way the mapping of this readback is on record.
LEMMA ReceiptStepRecord ==
    ASSUME TypeInv, ReceiptInv, NEW w \in Workers, RecordReceipt(w)
    PROVE  /\ ReceiptInv'
           /\ receipts \subseteq receipts' /\ UNCHANGED returned
<1> USE DEF TypeInv, TypeOK, QueueTypeOK, LocalsOK
<1> DEFINE mine == <<job[w], plan[w], answer[w]>>
<1>1. /\ UNCHANGED <<state, job, plan, answer, returned>>
      /\ pc[w] = "receipt" /\ pc' = [pc EXCEPT ![w] = "select"]
      /\ goal' = [goal EXCEPT ![w] = "readback_verified"]
      /\ receipts' = IF OnRecord(answer[w]) THEN receipts ELSE receipts \cup {mine}
  BY DEF RecordReceipt, InsertReceipt, Go, envVars, effects
<1>2. mine \in returned
  BY <1>1 DEF ReceiptInv
<1>3. receipts \subseteq receipts' /\ receipts' \subseteq returned'
  BY <1>1, <1>2 DEF ReceiptInv
<1>4. job[w] \in Events /\ plan[w] \in Snapshots /\ answer[w] \in Mappings
  BY <1>1
<1>5. \E f \in Events, t \in Snapshots : <<f, t, answer[w]>> \in receipts'
  <2>1. CASE OnRecord(answer[w])
    BY <1>1, <2>1 DEF OnRecord
  <2>2. CASE ~OnRecord(answer[w])
    BY <1>1, <1>4, <2>2
  <2> QED BY <2>1, <2>2
<1>6. Receipted(job[w], plan[w])'
  <2> HIDE DEF TypeInv
  <2>1. returned' = returned
    BY <1>1
  <2>2. job' = job /\ plan' = plan
    BY <1>1
  <2>3. <<job[w], plan[w], answer[w]>> \in returned'
    BY <1>2, <2>1
  <2>4. \E f \in Events, t \in Snapshots : <<f, t, answer[w]>> \in receipts' \cap returned'
    BY <1>3, <1>5
  <2> QED BY <1>4, <2>2, <2>3, <2>4 DEF Receipted
<1>7. \A v \in Workers \ {w} : Locals(v)' = Locals(v)
  BY <1>1 DEF Locals
<1>8. pc'[w] = "select" /\ UNCHANGED <<job, plan, state, returned>>
  BY <1>1
<1> HIDE DEF TypeInv, mine
<1> QED BY <1>3, <1>6, <1>7, <1>8, ReceiptFrame

LEMMA ReceiptStepWorker ==
    ASSUME TypeInv, ReceiptInv, NEW w \in Workers, Work(w)
    PROVE  ReceiptInv'
<1> USE DEF TypeInv, TypeOK, LocalsOK, Reported
<1>1. CASE Claim(w)
  <2>1. /\ UNCHANGED <<state, receipts, plan, answer, returned>>
        /\ pc' = [pc EXCEPT ![w] = "select"] /\ goal' = [goal EXCEPT ![w] = "validated"]
        /\ \A v \in Workers \ {w} : job'[v] = job[v]
    BY <1>1 DEF Claim, ClaimEvent, envVars, effects
  <2>2. \A v \in Workers \ {w} : Locals(v)' = Locals(v)
    BY <2>1 DEF Locals
  <2>3. pc'[w] = "select" /\ goal'[w] = "validated"
    BY <2>1
  <2> HIDE DEF TypeInv
  <2> QED BY <2>1, <2>2, <2>3, ReceiptLocal
<1>2. CASE SelectRow(w)
  <2>1. /\ UNCHANGED <<state, receipts, job, plan, answer, returned>>
        /\ pc[w] = "select" /\ pc' = [pc EXCEPT ![w] = "update"]
        /\ goal' = [goal EXCEPT ![w] = goal[w]]
    BY <1>2 DEF SelectRow, Go, queueVars, envVars, effects
  <2>2. /\ \A v \in Workers \ {w} : Locals(v)' = Locals(v)
        /\ pc'[w] = "update" /\ goal'[w] = goal[w] /\ receipts' \subseteq returned'
        /\ goal[w] \in Reported => Receipted(job[w], plan[w])
    BY <2>1 DEF Locals, ReceiptInv
  <2>3. Receipted(job[w], plan[w]) => Receipted(job[w], plan[w])'
    BY <2>1 DEF Receipted
  <2> HIDE DEF TypeInv, Reported
  <2> QED BY <2>1, <2>2, <2>3, ReceiptFrame
<1>3. CASE UpdateRow(w)
  <2>1. /\ pc[w] = "update" /\ goal[w] \in WorkGoals /\ job[w] \in Events
        /\ state' = [state EXCEPT ![job[w]] = goal[w]]
        /\ UNCHANGED <<receipts, returned>>
        /\ goal[w] # "validated" => plan[w] \in Snapshots
    BY <1>3 DEF UpdateRow, WriteTransition, envVars, effects
  <2>2. ASSUME NEW e \in Events, state'[e] \in Reported
        PROVE  state[e] \in Reported \/ \E s \in Snapshots : Receipted(e, s)'
    <3>1. CASE e = job[w]
      <4>1. goal[w] \in Reported /\ plan[w] \in Snapshots
        BY <2>1, <2>2, <3>1 DEF QueueTypeOK
      <4>2. Receipted(e, plan[w])
        BY <2>1, <3>1, <4>1 DEF ReceiptInv
      <4> QED BY <2>1, <4>1, <4>2, ReceiptedKept
    <3>2. CASE e # job[w]
      BY <2>1, <2>2, <3>2 DEF QueueTypeOK
    <3> QED BY <3>1, <3>2
  <2>3. CASE ReleasesLease(goal[w])
    <3>1. Return(w)
      BY <1>3, <2>3 DEF UpdateRow
    <3>2. (\A v \in Workers \ {w} : Locals(v)' = Locals(v)) /\ pc'[w] = "idle"
      BY <3>1 DEF Return, Locals
    <3>3. receipts' \subseteq returned'
      BY <2>1 DEF ReceiptInv
    <3> HIDE DEF TypeInv, Reported
    <3> QED BY <2>1, <2>2, <3>2, <3>3, ReceiptFrame
  <2>4. CASE ~ReleasesLease(goal[w])
    <3>1. /\ UNCHANGED <<job, plan, answer>>
          /\ pc' = [pc EXCEPT ![w] = After(goal[w])]
          /\ goal' = [goal EXCEPT ![w] = NextGoal(goal[w])]
      BY <1>3, <2>4 DEF UpdateRow, Go
    <3>2. /\ After(goal[w]) \in {"load", "plan", "select", "decide", "recheck"}
          /\ After(goal[w]) = "select" /\ NextGoal(goal[w]) \in Reported
               => goal[w] = "readback_verified"
      BY <2>1, <2>4, AfterStage
    <3>3. /\ \A v \in Workers \ {w} : Locals(v)' = Locals(v)
          /\ pc'[w] = After(goal[w]) /\ goal'[w] = NextGoal(goal[w])
          /\ receipts' \subseteq returned'
      BY <2>1, <3>1 DEF Locals, ReceiptInv
    <3>4. goal[w] = "readback_verified" => Receipted(job[w], plan[w])'
      <4>1. goal[w] = "readback_verified" => Receipted(job[w], plan[w])
        BY <2>1 DEF ReceiptInv
      <4> QED BY <2>1, <3>1, <4>1 DEF Receipted
    <3> HIDE DEF TypeInv, Reported
    <3> QED BY <2>1, <2>2, <3>2, <3>3, <3>4, ReceiptFrame
  <2> QED BY <2>3, <2>4
<1>4. CASE BindSnapshot(w)
  <2>1. /\ UNCHANGED <<state, receipts, job, plan, answer, returned>>
        /\ pc' = [pc EXCEPT ![w] = "select"] /\ goal' = [goal EXCEPT ![w] = goal[w]]
        /\ goal[w] \notin Reported
    BY <1>4 DEF BindSnapshot, WriteDigest, Go, envVars, effects
  <2>2. /\ \A v \in Workers \ {w} : Locals(v)' = Locals(v)
        /\ pc'[w] = "select" /\ goal'[w] \notin Reported
    BY <2>1 DEF Locals
  <2> HIDE DEF TypeInv, Reported
  <2> QED BY <2>1, <2>2, ReceiptLocal
<1>5. ASSUME RefuseTransition(w) \/ LoadSnapshot(w) \/ FindDuplicate(w) \/ PlanEvent(w)
               \/ Decide(w) \/ Recheck(w) \/ CallFails(w) \/ SelectAttempts(w)
      PROVE  ReceiptInv'
  <2>1. /\ UNCHANGED <<state, receipts, job, answer, returned>>
        /\ \A v \in Workers \ {w} : plan'[v] = plan[v]
        /\ \E t, g : /\ pc' = [pc EXCEPT ![w] = t] /\ goal' = [goal EXCEPT ![w] = g]
                     /\ t # "receipt" /\ t # "update"
                     /\ t = "select" => g \notin Reported
    BY <1>5 DEF RefuseTransition, LoadSnapshot, FindDuplicate, PlanEvent, Decide, Recheck,
                CallFails, SelectAttempts, Raise, Go, queueVars, envVars, effects
  <2>2. /\ \A v \in Workers \ {w} : Locals(v)' = Locals(v)
        /\ \/ pc'[w] \notin {"select", "update", "receipt"}
           \/ pc'[w] # "receipt" /\ goal'[w] \notin Reported
    BY <2>1 DEF Locals
  <2> HIDE DEF TypeInv, Reported
  <2> QED BY <2>1, <2>2, ReceiptLocal
<1>6. CASE UpdateFailure(w)
  <2>1. /\ UNCHANGED <<receipts, returned>>
        /\ \E s \in {"failed", "dead_letter"} : state' = [state EXCEPT ![job[w]] = s]
    BY <1>6 DEF UpdateFailure, WriteFailure, FailureState, envVars, effects
  <2>2. (\A v \in Workers \ {w} : Locals(v)' = Locals(v)) /\ pc'[w] = "idle"
    BY <1>6 DEF UpdateFailure, Return, Locals
  <2>3. \A e \in Events : state'[e] \in Reported => state[e] \in Reported
    BY <2>1 DEF QueueTypeOK
  <2> HIDE DEF TypeInv, Reported
  <2> QED BY <2>1, <2>2, <2>3, ReceiptLocal
<1>7. CASE Crash(w)
  <2>1. /\ UNCHANGED <<state, receipts, returned>> /\ pc'[w] = "idle"
        /\ \A v \in Workers \ {w} : Locals(v)' = Locals(v)
    BY <1>7 DEF Crash, Return, queueVars, effects, Locals
  <2> HIDE DEF TypeInv, Reported
  <2> QED BY <2>1, ReceiptLocal
<1> HIDE DEF TypeInv, Reported
<1> QED
  BY <1>1, <1>2, <1>3, <1>4, <1>5, <1>6, <1>7, ReceiptStepApply, ReceiptStepRecord
     DEF Work, Process

LEMMA ReceiptStepOthers ==
    ASSUME TypeInv, ReceiptInv,
           Operate \/ Accept
             \/ (\E o \in Objects : ProviderChanges(o)) \/ Tick
    PROVE  ReceiptInv'
<1>1. ASSUME UNCHANGED <<receipts, returned, pc, goal, job, plan, answer>>,
             \A e \in Events : state'[e] \in Reported => state[e] \in Reported
      PROVE  ReceiptInv'
  BY <1>1 DEF ReceiptInv, Receipted
<1> USE DEF TypeInv, TypeOK, QueueTypeOK, LocalsOK
<1>2. CASE RejectUpdate
  <2>1. /\ UNCHANGED <<receipts, returned, pc, goal, job, plan, answer>>
        /\ state' = [state EXCEPT ![op.event] = "blocked"]
    BY <1>2 DEF RejectUpdate, WriteTransition, workerVars, effects
  <2> QED BY <1>1, <2>1 DEF Reported
<1>3. CASE ReleaseUpdate
  <2>1. /\ UNCHANGED <<receipts, returned, pc, goal, job, plan, answer>>
        /\ state' = [state EXCEPT ![op.event] = "failed"]
    BY <1>3 DEF ReleaseUpdate, WriteRelease, workerVars, effects
  <2> QED BY <1>1, <2>1 DEF Reported
<1>4. CASE AcceptInsert
  <2>1. /\ UNCHANGED <<receipts, returned, pc, goal, job, plan, answer>>
        /\ \E s \in {"received", "duplicate"} :
              state' = [state EXCEPT ![arrival.event] = s]
    BY <1>4 DEF AcceptInsert, InsertEvent, workerVars, effects
  <2> QED BY <1>1, <2>1 DEF Reported
<1>5. ASSUME (\E f \in Events : RejectSelect(f) \/ ReleaseSelect(f) \/ AcceptSelect(f))
               \/ SetKillSwitch
               \/ (\E o \in Objects : ProviderChanges(o)) \/ Tick
      PROVE  ReceiptInv'
  <2>1. UNCHANGED <<state, receipts, returned, pc, goal, job, plan, answer>>
    BY <1>5 DEF RejectSelect, ReleaseSelect, AcceptSelect, SetKillSwitch, ProviderChanges, Tick,
                LeaseLapses, LapseEventLease, ObjectLeaseLapses, LapseObjectLease, BackoffEnds,
                EndBackoff, queueVars, workerVars, envVars, effects
  <2> QED BY <1>1, <2>1
<1> QED BY <1>2, <1>3, <1>4, <1>5 DEF Operate, Accept

\* A worker adds to the receipts and to the readbacks, and takes none back.
LEMMA LogsGrow ==
    ASSUME NEW w \in Workers, Work(w)
    PROVE  receipts \subseteq receipts' /\ returned \subseteq returned'
<1>1. CASE Claim(w) \/ UpdateRow(w) \/ UpdateFailure(w)
  BY <1>1 DEF Claim, ClaimEvent, UpdateRow, WriteTransition, UpdateFailure, WriteFailure, envVars,
              effects
<1>2. CASE BindSnapshot(w) \/ RecordReceipt(w)
  BY <1>2 DEF BindSnapshot, WriteDigest, RecordReceipt, InsertReceipt, envVars, effects
<1>3. CASE Apply(w) \/ Crash(w)
  BY <1>3 DEF Apply, Crash, queueVars, effects
<1>4. CASE \/ SelectRow(w) \/ RefuseTransition(w) \/ LoadSnapshot(w) \/ FindDuplicate(w)
           \/ PlanEvent(w) \/ Decide(w) \/ Recheck(w) \/ CallFails(w) \/ SelectAttempts(w)
  BY <1>4 DEF SelectRow, RefuseTransition, LoadSnapshot, FindDuplicate, PlanEvent, Decide, Recheck,
              CallFails, SelectAttempts, queueVars, envVars, effects
<1> QED BY <1>1, <1>2, <1>3, <1>4 DEF Work, Process

LEMMA ReceiptInvariant == Spec => []ReceiptInv
<1>1. Init => ReceiptInv
  BY DEF Init, QueueInit, ReceiptInv, Reported
<1>2. TypeInv /\ ReceiptInv /\ [Next]_vars => ReceiptInv'
  <2>1. TypeInv /\ ReceiptInv /\ UNCHANGED vars => ReceiptInv'
    BY DEF ReceiptInv, Receipted, vars, queueVars, workerVars, envVars, effects
  <2> QED BY <2>1, ReceiptStepWorker, ReceiptStepOthers DEF Next
<1> QED BY TypeCorrect, <1>1, <1>2, PTL DEF Spec

\* process() reports READBACK_VERIFIED or APPLIED only after a consistent readback for the
\* event, whose mapping is on record, under this event or another: however leases lapse,
\* whatever the operator does, and whichever mappings are equal.
THEOREM ReceiptsCorrect == Spec => []AppliedHasReceipt
<1>1. ReceiptInv => AppliedHasReceipt
  BY DEF ReceiptInv, AppliedHasReceipt
<1> QED BY ReceiptInvariant, <1>1, PTL

\* A FAILED row always has an attempt left: retries are bounded by MaxAttempts.
THEOREM BudgetCorrect == Spec => []FailedHasBudget
<1> USE MaxAttemptsAssumption
<1> USE DEF FailedHasBudget
<1>1. Init => FailedHasBudget
  BY DEF Init, QueueInit
<1>2. TypeInv /\ FailedHasBudget /\ [Next]_vars => FailedHasBudget'
  <2> SUFFICES ASSUME TypeInv, FailedHasBudget, [Next]_vars PROVE FailedHasBudget'
    OBVIOUS
  <2> USE DEF TypeInv, TypeOK, QueueTypeOK, LocalsOK
  <2>1. CASE UNCHANGED <<state, attempts>>
    BY <2>1
  <2>2. ASSUME NEW w \in Workers, Claim(w) PROVE FailedHasBudget'
    BY <2>2 DEF Claim, ClaimEvent
  <2>3. ASSUME NEW w \in Workers, UpdateRow(w) PROVE FailedHasBudget'
    <3>1. goal[w] # "failed"
      BY <2>3 DEF UpdateRow, WorkGoals
    <3> QED BY <2>3, <3>1 DEF UpdateRow, WriteTransition
  <2>4. ASSUME NEW w \in Workers, UpdateFailure(w) PROVE FailedHasBudget'
    BY <2>4 DEF UpdateFailure, WriteFailure, FailureState
  <2>5. CASE RejectUpdate
    BY <2>5 DEF RejectUpdate, WriteTransition
  <2>6. CASE ReleaseUpdate
    BY <2>6 DEF ReleaseUpdate, WriteRelease
  <2>7. CASE Accept
    BY <2>7 DEF Accept, AcceptSelect, AcceptInsert, InsertEvent, queueVars
  <2>8. ASSUME NEW w \in Workers,
               SelectRow(w) \/ RefuseTransition(w) \/ LoadSnapshot(w) \/ FindDuplicate(w)
                 \/ BindSnapshot(w) \/ PlanEvent(w) \/ Decide(w) \/ Recheck(w) \/ Apply(w)
                 \/ RecordReceipt(w) \/ CallFails(w) \/ SelectAttempts(w) \/ Crash(w)
        PROVE  UNCHANGED <<state, attempts>>
    BY <2>8 DEF SelectRow, RefuseTransition, LoadSnapshot, FindDuplicate, BindSnapshot, WriteDigest,
                PlanEvent, Decide, Recheck, Apply, RecordReceipt, InsertReceipt, CallFails,
                SelectAttempts, Crash, queueVars
  <2>9. ASSUME (\E e \in Events : RejectSelect(e) \/ ReleaseSelect(e)) \/ SetKillSwitch
                 \/ (\E o \in Objects : ProviderChanges(o)) \/ Tick
        PROVE  UNCHANGED <<state, attempts>>
    BY <2>9 DEF RejectSelect, ReleaseSelect, SetKillSwitch, ProviderChanges, Tick, LeaseLapses,
                LapseEventLease, ObjectLeaseLapses, LapseObjectLease, BackoffEnds, EndBackoff,
                queueVars
  <2>10. CASE UNCHANGED vars
    BY <2>10 DEF vars, queueVars
  <2> QED
    BY <2>1, <2>2, <2>3, <2>4, <2>5, <2>6, <2>7, <2>8, <2>9, <2>10
       DEF Next, Work, Process, Operate
<1> QED BY TypeCorrect, <1>1, <1>2, PTL DEF Spec

-----------------------------------------------------------------------------
(* What the leases buy.  While no lease ends under a working worker and    *)
(* operators reject waiting proposals only (TimelyAssumption), the queue   *)
(* serialises the events of an object, a worker applies only the plan of   *)
(* the row it holds, and a terminal state is final.                        *)

TimelyAssumption == Timely /\ RejectStates \subseteq {"awaiting_approval"}

\* The states a row has while a worker is at work on it.
WorkStates == ActiveStates \cup {"received", "failed"}

\* A busy worker holds the live lease of a row that is still in work.
HoldsItsRow ==
    \A w \in Workers : pc[w] # "idle" =>
        /\ holder[job[w]] = w
        /\ lease[job[w]] = "live"
        /\ state[job[w]] \in WorkStates
        /\ pc[w] = "update" => seen[w].holder = w /\ seen[w].lease = "live"

\* An operator's call in progress is about a row no worker can have.
CallIsAboutRestingRow ==
    /\ op.call = "reject" => state[op.event] = "awaiting_approval"
    /\ op.call = "release" => state[op.event] = "dead_letter"

LeaseInv == LeaseTablesAgree /\ HoldsItsRow /\ CallIsAboutRestingRow /\ OneWorkerPerObject

\* Deleting the object lease of event e, whose own lease ends too, keeps the lease
\* tables in agreement.
LEMMA DeleteAgrees ==
    ASSUME TypeInv, LeaseTablesAgree, NEW e \in Events,
           lease' = [lease EXCEPT ![e] = "none"], DeleteObjectLease(e)
    PROVE  LeaseTablesAgree'
<1> USE ObjectOfAssumption, NullAssumption
<1> USE DEF TypeInv, TypeOK, QueueTypeOK, DeleteObjectLease
<1>1. ASSUME NEW f \in Events, lease'[f] = "live"
      PROVE  objectRow'[ObjectOf[f]] = f /\ objectLive'[ObjectOf[f]]
  <2>1. f # e /\ lease[f] = "live" /\ ObjectOf[f] \in Objects
    BY <1>1
  <2>2. objectRow[ObjectOf[f]] = f /\ objectLive[ObjectOf[f]]
    BY <2>1 DEF LeaseTablesAgree
  <2> QED BY <2>1, <2>2
<1>2. ASSUME NEW o \in Objects, objectLive'[o]
      PROVE  objectRow'[o] # NoEvent /\ lease'[objectRow'[o]] = "live"
  <2>1. objectLive[o] /\ objectRow[o] # e /\ objectRow[o] # NoEvent /\ lease[objectRow[o]] = "live"
    BY <1>2 DEF LeaseTablesAgree
  <2>2. objectRow'[o] = objectRow[o]
    BY <2>1
  <2> QED BY <2>1, <2>2
<1> QED BY <1>1, <1>2 DEF LeaseTablesAgree

LEMMA LeaseStepClaim ==
    ASSUME TypeInv, LeaseInv, NEW w \in Workers, Claim(w)
    PROVE  LeaseInv'
<1> USE ObjectOfAssumption, NullAssumption
<1> USE DEF TypeInv, TypeOK, QueueTypeOK, LocalsOK, LeaseInv
<1>1. PICK e \in Events : ClaimEvent(w, e) /\ job' = [job EXCEPT ![w] = e]
  BY DEF Claim
<1>2. /\ pc[w] = "idle" /\ pc' = [pc EXCEPT ![w] = "select"]
      /\ UNCHANGED <<state, seen, op>>
      /\ holder' = [holder EXCEPT ![e] = w]
      /\ lease' = [lease EXCEPT ![e] = "live"]
      /\ objectRow' = [objectRow EXCEPT ![ObjectOf[e]] = e]
      /\ objectLive' = [objectLive EXCEPT ![ObjectOf[e]] = TRUE]
      /\ state[e] \in {"received", "failed"} /\ lease[e] # "live" /\ ~objectLive[ObjectOf[e]]
  BY <1>1 DEF Claim, ClaimEvent, Claimable, envVars, effects
<1>3. \A v \in Workers : pc[v] # "idle" => ObjectOf[job[v]] # ObjectOf[e] /\ job[v] # e
  BY <1>2 DEF LeaseTablesAgree, HoldsItsRow
<1>4. LeaseTablesAgree'
  BY <1>2 DEF LeaseTablesAgree
<1>5. HoldsItsRow'
  BY <1>1, <1>2, <1>3 DEF HoldsItsRow, WorkStates
<1>6. OneWorkerPerObject'
  BY <1>1, <1>2, <1>3 DEF OneWorkerPerObject, Busy
<1> QED BY <1>2, <1>4, <1>5, <1>6 DEF CallIsAboutRestingRow

\* A step of a busy worker that writes no lease and no state.
LEMMA LeaseStepQuiet ==
    ASSUME TypeInv, LeaseInv, NEW w \in Workers, pc[w] # "idle",
           UNCHANGED <<state, leaseVars, job, op>>, NEW to \in Stages \ {"idle"},
           pc' = [pc EXCEPT ![w] = to],
           \/ to # "update" /\ \A v \in Workers \ {w} : seen'[v] = seen[v]
           \/ seen' = [seen EXCEPT ![w] = Row(holder[job[w]], lease[job[w]], 0)]
    PROVE  LeaseInv'
<1> USE DEF TypeInv, TypeOK, LocalsOK, LeaseInv, leaseVars
<1>1. LeaseTablesAgree'
  BY DEF LeaseTablesAgree
<1>2. HoldsItsRow'
  <2> SUFFICES ASSUME NEW v \in Workers, pc'[v] # "idle"
               PROVE  /\ holder'[job'[v]] = v /\ lease'[job'[v]] = "live"
                      /\ state'[job'[v]] \in WorkStates
                      /\ pc'[v] = "update" => seen'[v].holder = v /\ seen'[v].lease = "live"
    BY DEF HoldsItsRow
  <2>1. pc[v] # "idle"
    OBVIOUS
  <2>2. holder[job[v]] = v /\ lease[job[v]] = "live" /\ state[job[v]] \in WorkStates
    BY <2>1 DEF HoldsItsRow
  <2>3. pc'[v] = "update" => seen'[v].holder = v /\ seen'[v].lease = "live"
    BY <2>1, <2>2 DEF HoldsItsRow, Row
  <2> QED BY <2>2, <2>3
<1>3. OneWorkerPerObject'
  BY DEF OneWorkerPerObject, Busy
<1> QED BY <1>1, <1>2, <1>3 DEF CallIsAboutRestingRow

\* A worker that returns gives up the lease, the object lease, or crashes.
LEMMA LeaseStepReturn ==
    ASSUME TypeInv, LeaseInv, NEW w \in Workers, pc[w] # "idle", Return(w), UNCHANGED op,
           NEW new \in EventStates,
           state' = [state EXCEPT ![job[w]] = new],
           holder' = [holder EXCEPT ![job[w]] = Nobody],
           lease' = [lease EXCEPT ![job[w]] = "none"],
           DeleteObjectLease(job[w])
    PROVE  LeaseInv'
<1> USE ObjectOfAssumption, NullAssumption
<1> USE DEF TypeInv, TypeOK, QueueTypeOK, LocalsOK, LeaseInv, Return
<1>0. job[w] \in Events /\ state[job[w]] \in WorkStates
  BY DEF HoldsItsRow
<1>1. LeaseTablesAgree'
  BY <1>0, DeleteAgrees
<1>2. \A v \in Workers \ {w} : pc[v] # "idle" => job[v] # job[w]
  BY DEF OneWorkerPerObject, Busy
<1>3. HoldsItsRow'
  BY <1>0, <1>2 DEF HoldsItsRow
<1>4. OneWorkerPerObject'
  BY DEF OneWorkerPerObject, Busy
<1>5. CallIsAboutRestingRow'
  BY <1>0 DEF CallIsAboutRestingRow, WorkStates, ActiveStates
<1> QED BY <1>1, <1>3, <1>4, <1>5

LEMMA LeaseStepUpdate ==
    ASSUME TypeInv, LeaseInv, NEW w \in Workers, UpdateRow(w)
    PROVE  LeaseInv'
<1> USE DEF TypeInv, TypeOK, LocalsOK
<1>1. /\ pc[w] = "update" /\ job[w] \in Events /\ goal[w] \in WorkGoals
      /\ WriteTransition(job[w], goal[w], seen[w].holder, seen[w].lease)
      /\ UNCHANGED op
  BY DEF UpdateRow, envVars
<1>2. goal[w] \in EventStates
  BY <1>1 DEF WorkGoals, Goals, EventStates, TerminalStates, ActiveStates
<1>3. CASE ReleasesLease(goal[w])
  <2>1. Return(w)
    BY <1>3 DEF UpdateRow
  <2>2. /\ state' = [state EXCEPT ![job[w]] = goal[w]]
        /\ holder' = [holder EXCEPT ![job[w]] = Nobody]
        /\ lease' = [lease EXCEPT ![job[w]] = "none"]
        /\ DeleteObjectLease(job[w])
    BY <1>1, <1>3 DEF WriteTransition
  <2> QED BY <1>1, <1>2, <2>1, <2>2, LeaseStepReturn
<1>4. CASE ~ReleasesLease(goal[w])
  <2>1. /\ UNCHANGED job /\ seen' = [seen EXCEPT ![w] = Unread]
        /\ pc' = [pc EXCEPT ![w] = After(goal[w])]
    BY <1>4 DEF UpdateRow, Go
  <2>2. After(goal[w]) \notin {"idle", "update"} /\ goal[w] \in ActiveStates
    BY <1>1, <1>4, AfterStage
  <2>3. seen[w].holder = w /\ seen[w].lease = "live" /\ holder[job[w]] = w /\ lease[job[w]] = "live"
    BY <1>1 DEF LeaseInv, HoldsItsRow
  <2>4. UNCHANGED leaseVars /\ state' = [state EXCEPT ![job[w]] = goal[w]]
    <3>1. /\ holder' = [holder EXCEPT ![job[w]] = holder[job[w]]]
          /\ lease' = [lease EXCEPT ![job[w]] = lease[job[w]]]
          /\ UNCHANGED <<objectRow, objectLive>>
          /\ state' = [state EXCEPT ![job[w]] = goal[w]]
      BY <1>1, <1>4, <2>3 DEF WriteTransition
    <3>2. holder \in [Events -> Workers \cup {Nobody}] /\ lease \in [Events -> Leases]
      BY DEF QueueTypeOK
    <3>3. holder' = holder /\ lease' = lease
      BY <3>1, <3>2
    <3> QED BY <3>1, <3>3 DEF leaseVars
  <2>5. \A v \in Workers \ {w} : pc[v] # "idle" => job[v] # job[w]
    BY <1>1 DEF LeaseInv, OneWorkerPerObject, Busy
  <2>6. LeaseTablesAgree'
    BY <2>4 DEF LeaseInv, LeaseTablesAgree, leaseVars
  <2>7. HoldsItsRow'
    BY <1>1, <2>1, <2>2, <2>3, <2>4, <2>5 DEF LeaseInv, HoldsItsRow, WorkStates, leaseVars, QueueTypeOK
  <2>8. OneWorkerPerObject'
    BY <1>1, <2>1 DEF LeaseInv, OneWorkerPerObject, Busy
  <2>9. CallIsAboutRestingRow'
    <3>1. state[job[w]] \in WorkStates
      BY <1>1 DEF LeaseInv, HoldsItsRow
    <3> QED BY <1>1, <2>4, <3>1 DEF LeaseInv, CallIsAboutRestingRow, WorkStates, ActiveStates, QueueTypeOK
  <2> QED BY <2>6, <2>7, <2>8, <2>9 DEF LeaseInv
<1> QED BY <1>3, <1>4

LEMMA LeaseStepWorker ==
    ASSUME TypeInv, LeaseInv, NEW w \in Workers, Work(w)
    PROVE  LeaseInv'
<1> USE DEF Stages, leaseVars, queueVars, envVars
<1>1. CASE Claim(w)
  BY <1>1, LeaseStepClaim
<1>2. CASE SelectRow(w)
  BY <1>2, LeaseStepQuiet DEF SelectRow, Go
<1>3. CASE RefuseTransition(w)
  BY <1>3, LeaseStepQuiet DEF RefuseTransition, Raise, Go
<1>4. CASE UpdateRow(w)
  BY <1>4, LeaseStepUpdate
<1>5. CASE LoadSnapshot(w)
  BY <1>5, LeaseStepQuiet DEF LoadSnapshot, Go
<1>6. CASE FindDuplicate(w)
  BY <1>6, LeaseStepQuiet DEF FindDuplicate, Go
<1>7. CASE BindSnapshot(w)
  BY <1>7, LeaseStepQuiet DEF BindSnapshot, WriteDigest, Go
<1>8. CASE PlanEvent(w)
  BY <1>8, LeaseStepQuiet DEF PlanEvent, Go
<1>9. CASE Decide(w)
  BY <1>9, LeaseStepQuiet DEF Decide, Go
<1>10. CASE Recheck(w)
  BY <1>10, LeaseStepQuiet DEF Recheck, Raise, Go
<1>11. CASE Apply(w)
  BY <1>11, LeaseStepQuiet DEF Apply, Raise, Go
<1>12. CASE RecordReceipt(w)
  BY <1>12, LeaseStepQuiet DEF RecordReceipt, InsertReceipt, Go
<1>13. CASE CallFails(w)
  BY <1>13, LeaseStepQuiet DEF CallFails, Raise, Go
<1>14. CASE SelectAttempts(w)
  <2>1. \A v \in Workers \ {w} : seen'[v] = seen[v]
    BY <1>14 DEF SelectAttempts, TypeInv, TypeOK
  <2> QED BY <1>14, <2>1, LeaseStepQuiet DEF SelectAttempts, Go
<1>15. CASE UpdateFailure(w)
  <2>1. PICK new \in EventStates : state' = [state EXCEPT ![job[w]] = new]
    BY <1>15 DEF UpdateFailure, WriteFailure, FailureState, EventStates, TerminalStates
  <2> QED BY <1>15, <2>1, LeaseStepReturn DEF UpdateFailure, WriteFailure
<1>16. CASE Crash(w)
  <2> USE DEF TypeInv, TypeOK, LocalsOK, LeaseInv
  <2>1. LeaseTablesAgree'
    BY <1>16 DEF Crash, LeaseTablesAgree
  <2>2. HoldsItsRow'
    BY <1>16 DEF Crash, Return, HoldsItsRow
  <2>3. OneWorkerPerObject'
    BY <1>16 DEF Crash, Return, OneWorkerPerObject, Busy
  <2> QED BY <1>16, <2>1, <2>2, <2>3 DEF Crash, CallIsAboutRestingRow
<1> QED
  BY <1>1, <1>2, <1>3, <1>4, <1>5, <1>6, <1>7, <1>8, <1>9, <1>10, <1>11, <1>12, <1>13, <1>14,
     <1>15, <1>16 DEF Work, Process

LEMMA LeaseStepOthers ==
    ASSUME TimelyAssumption, TypeInv, LeaseInv,
           Operate \/ Accept
             \/ (\E o \in Objects : ProviderChanges(o)) \/ Tick
    PROVE  LeaseInv'
<1> USE ObjectOfAssumption, NullAssumption
<1> USE DEF TypeInv, TypeOK, QueueTypeOK, LocalsOK, LeaseInv
<1>1. ASSUME UNCHANGED <<leaseVars, job, pc, seen>>,
             \A w \in Workers : pc[w] # "idle" => state'[job[w]] = state[job[w]],
             CallIsAboutRestingRow'
      PROVE  LeaseInv'
  BY <1>1 DEF LeaseTablesAgree, HoldsItsRow, OneWorkerPerObject, Busy, leaseVars
<1>2. ASSUME NEW e \in Events, RejectSelect(e) \/ ReleaseSelect(e) PROVE LeaseInv'
  <2>1. UNCHANGED <<state, leaseVars, job, pc, seen>>
    BY <1>2 DEF RejectSelect, ReleaseSelect, queueVars, leaseVars, workerVars
  <2>2. \/ op' = [call |-> "reject", event |-> e] /\ state[e] = "awaiting_approval"
        \/ op' = [call |-> "release", event |-> e] /\ state[e] = "dead_letter"
    BY <1>2 DEF RejectSelect, ReleaseSelect, TimelyAssumption
  <2>3. CallIsAboutRestingRow'
    BY <2>1, <2>2 DEF CallIsAboutRestingRow
  <2> QED BY <1>1, <2>1, <2>3
<1>3. CASE RejectUpdate
  <2>1. /\ op.event \in Events /\ state[op.event] = "awaiting_approval"
        /\ state' = [state EXCEPT ![op.event] = "blocked"]
        /\ holder' = [holder EXCEPT ![op.event] = Nobody]
        /\ lease' = [lease EXCEPT ![op.event] = "none"]
        /\ DeleteObjectLease(op.event)
        /\ UNCHANGED workerVars /\ op' = NoCall
    BY <1>3 DEF RejectUpdate, WriteTransition, ReleasesLease, TerminalStates, CallIsAboutRestingRow
  <2>2. \A w \in Workers : pc[w] # "idle" => job[w] # op.event
    BY <2>1 DEF HoldsItsRow, WorkStates, ActiveStates
  <2>3. LeaseTablesAgree'
    BY <2>1, DeleteAgrees
  <2>4. HoldsItsRow'
    BY <2>1, <2>2 DEF HoldsItsRow, workerVars
  <2> QED BY <2>1, <2>3, <2>4 DEF OneWorkerPerObject, Busy, CallIsAboutRestingRow, NoCall, workerVars
<1>4. CASE ReleaseUpdate
  <2>1. \A w \in Workers : pc[w] # "idle" => job[w] # op.event
    BY <1>4 DEF ReleaseUpdate, CallIsAboutRestingRow, HoldsItsRow, WorkStates, ActiveStates
  <2> QED BY <1>1, <1>4, <2>1 DEF ReleaseUpdate, WriteRelease, CallIsAboutRestingRow, NoCall, workerVars
<1>5. CASE SetKillSwitch
  BY <1>1, <1>5 DEF SetKillSwitch, CallIsAboutRestingRow, queueVars, leaseVars, workerVars
<1>6. CASE Accept
  <2>1. ASSUME NEW e \in Events, AcceptSelect(e) PROVE LeaseInv'
    BY <1>1, <2>1 DEF AcceptSelect, CallIsAboutRestingRow, queueVars, leaseVars, workerVars
  <2>2. CASE AcceptInsert
    <3> DEFINE e == arrival.event
    <3>1. /\ e \in Events /\ state[e] = "absent" /\ UNCHANGED <<leaseVars, op, workerVars>>
          /\ \A f \in Events \ {e} : state'[f] = state[f]
      BY <2>2 DEF AcceptInsert, InsertEvent
    <3> HIDE DEF e
    <3>2. \A w \in Workers : pc[w] # "idle" => job[w] # e
      BY <3>1 DEF HoldsItsRow, WorkStates, ActiveStates
    <3>3. CallIsAboutRestingRow'
      BY <3>1 DEF CallIsAboutRestingRow
    <3> QED BY <1>1, <3>1, <3>2, <3>3 DEF workerVars
  <2> QED BY <1>6, <2>1, <2>2 DEF Accept
<1>7. ASSUME NEW o \in Objects, ProviderChanges(o) PROVE LeaseInv'
  BY <1>1, <1>7 DEF ProviderChanges, CallIsAboutRestingRow, queueVars, leaseVars, workerVars
<1>8. ASSUME NEW e \in Events, LeaseLapses(e) PROVE LeaseInv'
  <2>1. /\ \A w \in Workers : job[w] # e
        /\ lease' = [lease EXCEPT ![e] = "lapsed"]
        /\ objectLive' = [o \in Objects |-> objectLive[o] /\ objectRow[o] # e]
        /\ UNCHANGED <<state, holder, objectRow, pc, job, op>>
        /\ \A w \in Workers : seen'[w] = seen[w]
    BY <1>8 DEF LeaseLapses, LapseEventLease, TimelyAssumption, envVars
  <2>2. LeaseTablesAgree'
    <3>1. ASSUME NEW f \in Events, lease'[f] = "live"
          PROVE  objectRow'[ObjectOf[f]] = f /\ objectLive'[ObjectOf[f]]
      <4>1. f # e /\ lease[f] = "live"
        BY <2>1, <3>1
      <4> QED BY <2>1, <4>1 DEF LeaseTablesAgree
    <3>2. ASSUME NEW o \in Objects, objectLive'[o]
          PROVE  objectRow'[o] # NoEvent /\ lease'[objectRow'[o]] = "live"
      <4>1. objectLive[o] /\ objectRow[o] # e
        BY <2>1, <3>2
      <4> QED BY <2>1, <4>1 DEF LeaseTablesAgree
    <3> QED BY <3>1, <3>2 DEF LeaseTablesAgree
  <2>3. HoldsItsRow'
    BY <2>1 DEF HoldsItsRow
  <2> QED BY <2>1, <2>2, <2>3 DEF OneWorkerPerObject, Busy, CallIsAboutRestingRow
<1>9. ASSUME NEW o \in Objects, ObjectLeaseLapses(o) PROVE FALSE
  BY <1>9 DEF ObjectLeaseLapses, LapseObjectLease, LeaseTablesAgree
<1>10. ASSUME NEW e \in Events, BackoffEnds(e) PROVE LeaseInv'
  BY <1>1, <1>10 DEF BackoffEnds, EndBackoff, CallIsAboutRestingRow, workerVars, envVars
<1> QED
  BY <1>2, <1>3, <1>4, <1>5, <1>6, <1>7, <1>8, <1>9, <1>10 DEF Operate, Tick

LEMMA LeaseInvariant == ASSUME TimelyAssumption PROVE Spec => []LeaseInv
<1>1. Init => LeaseInv
  BY DEF Init, QueueInit, NoCall, LeaseInv, LeaseTablesAgree, HoldsItsRow, CallIsAboutRestingRow,
         OneWorkerPerObject, Busy
<1>2. TypeInv /\ LeaseInv /\ UNCHANGED vars => LeaseInv'
  BY DEF LeaseInv, LeaseTablesAgree, HoldsItsRow, CallIsAboutRestingRow, OneWorkerPerObject, Busy,
         vars, queueVars, leaseVars, workerVars, envVars
<1>3. TypeInv /\ LeaseInv /\ [Next]_vars => LeaseInv'
  BY <1>2, LeaseStepWorker, LeaseStepOthers DEF Next
<1> QED BY TypeCorrect, <1>1, <1>3, PTL DEF Spec

\* claim() serialises the events of one object, for any number of workers.
THEOREM SerialisationCorrect == ASSUME TimelyAssumption PROVE Spec => []OneWorkerPerObject
<1>1. Spec => []LeaseInv
  BY LeaseInvariant
<1>2. LeaseInv => OneWorkerPerObject
  BY DEF LeaseInv
<1> QED BY <1>1, <1>2, PTL

\* The event lease and the object lease of a row are live together.
THEOREM LeaseTablesCorrect == ASSUME TimelyAssumption PROVE Spec => []LeaseTablesAgree
<1>1. Spec => []LeaseInv
  BY LeaseInvariant
<1>2. LeaseInv => LeaseTablesAgree
  BY DEF LeaseInv
<1> QED BY <1>1, <1>2, PTL

-----------------------------------------------------------------------------
(* A terminal state is final. *)

\* Which row a step may change, and from where.
LEMMA StateStep ==
    ASSUME TypeInv, LeaseInv, Next, NEW e \in Events, state'[e] # state[e]
    PROVE  \/ state[e] \in WorkStates \cup {"absent", "awaiting_approval"}
           \/ state[e] = "dead_letter" /\ state'[e] = "failed" /\ attempts'[e] = 0
<1> USE DEF TypeInv, TypeOK, QueueTypeOK, LocalsOK, LeaseInv
<1>1. ASSUME NEW w \in Workers, Claim(w) PROVE FALSE
  BY <1>1 DEF Claim, ClaimEvent
<1>2. ASSUME NEW w \in Workers, UpdateRow(w) PROVE state[e] \in WorkStates
  BY <1>2 DEF UpdateRow, WriteTransition, HoldsItsRow
<1>3. ASSUME NEW w \in Workers, UpdateFailure(w) PROVE state[e] \in WorkStates
  BY <1>3 DEF UpdateFailure, WriteFailure, HoldsItsRow
<1>4. CASE RejectUpdate
  BY <1>4 DEF RejectUpdate, WriteTransition, CallIsAboutRestingRow
<1>5. CASE ReleaseUpdate
  BY <1>5 DEF ReleaseUpdate, WriteRelease, CallIsAboutRestingRow
<1>6. CASE AcceptInsert
  BY <1>6 DEF AcceptInsert, InsertEvent
<1>7. ASSUME NEW w \in Workers,
             SelectRow(w) \/ RefuseTransition(w) \/ LoadSnapshot(w) \/ FindDuplicate(w)
               \/ BindSnapshot(w) \/ PlanEvent(w) \/ Decide(w) \/ Recheck(w) \/ Apply(w)
               \/ RecordReceipt(w) \/ CallFails(w) \/ SelectAttempts(w) \/ Crash(w)
      PROVE  FALSE
  BY <1>7 DEF SelectRow, RefuseTransition, LoadSnapshot, FindDuplicate, BindSnapshot, WriteDigest,
              PlanEvent, Decide, Recheck, Apply, RecordReceipt, InsertReceipt, CallFails,
              SelectAttempts, Crash, queueVars
<1>8. ASSUME (\E f \in Events : RejectSelect(f) \/ ReleaseSelect(f) \/ AcceptSelect(f))
               \/ SetKillSwitch
               \/ (\E o \in Objects : ProviderChanges(o)) \/ Tick
      PROVE  FALSE
  BY <1>8 DEF RejectSelect, ReleaseSelect, AcceptSelect, SetKillSwitch, ProviderChanges, Tick, LeaseLapses,
              LapseEventLease, ObjectLeaseLapses, LapseObjectLease, BackoffEnds, EndBackoff,
              queueVars
<1> QED
  BY <1>1, <1>2, <1>3, <1>4, <1>5, <1>6, <1>7, <1>8 DEF Next, Work, Process, Operate, Accept

\* Nothing but release_dead_letter() moves a row out of a terminal state.
THEOREM FinalityCorrect == ASSUME TimelyAssumption PROVE Spec => TerminalIsFinal
<1>1. TypeInv /\ LeaseInv /\ [Next]_vars =>
        [\A e \in Events : state[e] \in TerminalStates /\ state'[e] # state[e] =>
           state[e] = "dead_letter" /\ state'[e] = "failed" /\ attempts'[e] = 0]_vars
  BY StateStep DEF TerminalStates, WorkStates, ActiveStates
<1>2. Spec => []LeaseInv
  BY LeaseInvariant
<1> QED BY TypeCorrect, <1>1, <1>2, PTL DEF Spec, TerminalIsFinal

-----------------------------------------------------------------------------
(* A worker applies the plan of the row it holds. *)

\* From the statement after bind_snapshot() on, worker w's row carries its digest.
PastBinding(w) ==
    \/ pc[w] \in {"plan", "decide", "recheck", "apply", "receipt"}
    \/ pc[w] \in {"select", "update"} /\ goal[w] # "validated"

\* How far the row and its digest have come when worker w is at a statement.
RowMatchesStage(w) ==
    /\ pc[w] \in {"load", "bind", "bound"} => state[job[w]] = "validated"
    /\ PastBinding(w) => digest[job[w]] = plan[w]
    /\ pc[w] \in {"recheck", "apply"} => state[job[w]] = "applying"

ReceiptIsBound(e) == state[e] \in Reported => Receipted(e, digest[e])

StageInv == /\ \A w \in Workers : RowMatchesStage(w)
            /\ \A e \in Events : ReceiptIsBound(e)

LEMMA AfterState ==
    ASSUME NEW s \in WorkGoals, ~ReleasesLease(s)
    PROVE  /\ After(s) \in {"load", "select", "plan", "decide", "recheck"}
           /\ After(s) = "load" => s = "validated"
           /\ After(s) = "recheck" => s = "applying"
           /\ s = "validated" => After(s) = "load"
  BY DEF WorkGoals, Goals, ReleasesLease, TerminalStates, After

\* Worker w touches its own row and its own memory only.
LEMMA StageFrame ==
    ASSUME TypeInv, LeaseInv, StageInv, NEW w \in Workers, pc[w] # "idle",
           NEW e \in Events, e = job[w],
           \A v \in Workers \ {w} : /\ pc'[v] = pc[v] /\ goal'[v] = goal[v]
                                    /\ plan'[v] = plan[v] /\ job'[v] = job[v],
           \A f \in Events \ {e} : state'[f] = state[f] /\ digest'[f] = digest[f],
           receipts \subseteq receipts', returned \subseteq returned',
           RowMatchesStage(w)', ReceiptIsBound(e)'
    PROVE  StageInv'
<1> USE DEF TypeInv, TypeOK, LocalsOK, LeaseInv, StageInv
<1>1. ASSUME NEW v \in Workers \ {w} PROVE RowMatchesStage(v)'
  <2>1. RowMatchesStage(v)
    OBVIOUS
  <2>2. CASE pc[v] = "idle"
    BY <2>2 DEF RowMatchesStage, PastBinding
  <2>3. CASE pc[v] # "idle"
    <3>1. job[v] \in Events \ {job[w]}
      BY <2>3 DEF OneWorkerPerObject, Busy
    <3> QED BY <2>1, <3>1 DEF RowMatchesStage, PastBinding
  <2> QED BY <2>2, <2>3
<1>2. ASSUME NEW f \in Events \ {e} PROVE ReceiptIsBound(f)'
  BY ReceiptedKept DEF ReceiptIsBound
<1> QED BY <1>1, <1>2

\* A step of worker w that leaves its row alone.
LEMMA StageStepLocal ==
    ASSUME TypeInv, LeaseInv, StageInv, NEW w \in Workers, pc[w] # "idle",
           UNCHANGED <<state, digest, job>>, receipts \subseteq receipts', returned \subseteq returned',
           \A v \in Workers \ {w} : pc'[v] = pc[v] /\ goal'[v] = goal[v] /\ plan'[v] = plan[v],
           RowMatchesStage(w)'
    PROVE  StageInv'
<1>1. job[w] \in Events
  BY DEF TypeInv, LocalsOK
<1>2. ReceiptIsBound(job[w])'
  BY <1>1, ReceiptedKept DEF StageInv, ReceiptIsBound
<1> QED BY <1>1, <1>2, StageFrame

LEMMA StageStepWorker ==
    ASSUME TypeInv, ReceiptInv, LeaseInv, StageInv, NEW w \in Workers, Work(w)
    PROVE  StageInv'
<1> USE DEF TypeInv, TypeOK, QueueTypeOK, LocalsOK, RowMatchesStage, PastBinding
<1>0. RowMatchesStage(w) /\ receipts \subseteq receipts' /\ returned \subseteq returned'
  BY LogsGrow DEF StageInv
<1>1. CASE Claim(w)
  <2>1. /\ UNCHANGED <<state, digest, receipts, plan>>
        /\ pc' = [pc EXCEPT ![w] = "select"] /\ goal' = [goal EXCEPT ![w] = "validated"]
        /\ \A v \in Workers \ {w} : job'[v] = job[v]
    BY <1>1 DEF Claim, ClaimEvent
  <2>2. ASSUME NEW v \in Workers PROVE RowMatchesStage(v)'
    BY <2>1 DEF StageInv
  <2>3. ASSUME NEW e \in Events PROVE ReceiptIsBound(e)'
    BY <1>0, <2>1, ReceiptedKept DEF StageInv, ReceiptIsBound
  <2> QED BY <2>2, <2>3 DEF StageInv
<1>2. CASE SelectRow(w)
  BY <1>0, <1>2, StageStepLocal DEF SelectRow, Go, queueVars
<1>3. CASE RefuseTransition(w)
  BY <1>0, <1>3, StageStepLocal DEF RefuseTransition, Raise, Go, queueVars
<1>4. CASE UpdateRow(w)
  <2>0. PICK e \in Events : e = job[w]
    BY <1>4 DEF UpdateRow
  <2>1. /\ pc[w] = "update" /\ goal[w] \in WorkGoals /\ job[w] \in Events
        /\ state' = [state EXCEPT ![job[w]] = goal[w]]
        /\ UNCHANGED <<digest, receipts>>
        /\ goal[w] # "validated" => digest[job[w]] = plan[w]
    BY <1>0, <1>4 DEF UpdateRow, WriteTransition
  <2>2. ReceiptIsBound(e)'
    <3>1. state'[e] = goal[w] /\ digest'[e] = digest[e]
      BY <2>0, <2>1
    <3>2. goal[w] \in Reported => Receipted(e, digest[e])
      BY <2>0, <2>1 DEF ReceiptInv, Reported
    <3> QED BY <1>0, <3>1, <3>2, ReceiptedKept DEF ReceiptIsBound
  <2>3. CASE ReleasesLease(goal[w])
    <3>1. Return(w)
      BY <1>4, <2>3 DEF UpdateRow
    <3> QED BY <1>0, <2>0, <2>1, <2>2, <3>1, StageFrame DEF Return
  <2>4. CASE ~ReleasesLease(goal[w])
    <3>1. /\ UNCHANGED <<job, plan>>
          /\ pc' = [pc EXCEPT ![w] = After(goal[w])]
          /\ goal' = [goal EXCEPT ![w] = NextGoal(goal[w])]
      BY <1>4, <2>4 DEF UpdateRow, Go
    <3>2. RowMatchesStage(w)'
      BY <2>1, <2>4, <3>1, AfterState
    <3> QED BY <1>0, <2>0, <2>1, <2>2, <3>1, <3>2, StageFrame
  <2> QED BY <2>3, <2>4
<1>5. CASE LoadSnapshot(w)
  BY <1>0, <1>5, StageStepLocal DEF LoadSnapshot, Go, queueVars
<1>6. CASE FindDuplicate(w)
  BY <1>0, <1>6, StageStepLocal DEF FindDuplicate, Go, queueVars
<1>7. CASE BindSnapshot(w)
  <2>0. PICK e \in Events : e = job[w]
    BY <1>7 DEF BindSnapshot, Go
  <2>1. /\ pc[w] = "bound" /\ job[w] \in Events /\ state[job[w]] = "validated"
        /\ pc' = [pc EXCEPT ![w] = "select"] /\ goal' = [goal EXCEPT ![w] = goal[w]]
        /\ digest' = [digest EXCEPT ![job[w]] = plan[w]]
        /\ UNCHANGED <<state, receipts, job, plan>>
    BY <1>0, <1>7 DEF BindSnapshot, WriteDigest, Go
  <2>2. ReceiptIsBound(job[w])'
    BY <2>1 DEF ReceiptIsBound, Reported
  <2> QED BY <1>0, <2>1, <2>2, StageFrame
<1>8. CASE PlanEvent(w)
  BY <1>0, <1>8, StageStepLocal DEF PlanEvent, Go, queueVars
<1>9. CASE Decide(w)
  BY <1>0, <1>9, StageStepLocal DEF Decide, Go, queueVars
<1>10. CASE Recheck(w)
  BY <1>0, <1>10, StageStepLocal DEF Recheck, Raise, Go, queueVars
<1>11. CASE Apply(w)
  BY <1>0, <1>11, StageStepLocal DEF Apply, Raise, Go, queueVars
<1>12. CASE RecordReceipt(w)
  BY <1>0, <1>12, StageStepLocal DEF RecordReceipt, InsertReceipt, Go
<1>13. CASE CallFails(w)
  BY <1>0, <1>13, StageStepLocal DEF CallFails, Raise, Go, queueVars
<1>14. CASE SelectAttempts(w)
  BY <1>0, <1>14, StageStepLocal DEF SelectAttempts, Go, queueVars
<1>15. CASE UpdateFailure(w)
  <2>0. PICK e \in Events : e = job[w]
    BY <1>15 DEF UpdateFailure
  <2>1. /\ job[w] \in Events /\ pc[w] = "fail_update" /\ Return(w) /\ UNCHANGED <<digest, receipts>>
        /\ \E new \in {"failed", "dead_letter"} : state' = [state EXCEPT ![job[w]] = new]
    BY <1>15 DEF UpdateFailure, WriteFailure, FailureState
  <2>2. ReceiptIsBound(e)'
    BY <2>0, <2>1 DEF ReceiptIsBound, Reported
  <2> QED BY <1>0, <2>0, <2>1, <2>2, StageFrame DEF Return
<1>16. CASE Crash(w)
  <2>0. PICK e \in Events : e = job[w]
    BY <1>16 DEF Crash
  <2>1. /\ pc[w] # "idle" /\ job[w] \in Events /\ Return(w)
        /\ UNCHANGED <<state, digest, receipts>>
    BY <1>16 DEF Crash, queueVars
  <2>2. ReceiptIsBound(e)'
    BY <1>0, <2>0, <2>1, ReceiptedKept DEF StageInv, ReceiptIsBound
  <2> QED BY <1>0, <2>0, <2>1, <2>2, StageFrame DEF Return
<1> QED
  BY <1>1, <1>2, <1>3, <1>4, <1>5, <1>6, <1>7, <1>8, <1>9, <1>10, <1>11, <1>12, <1>13, <1>14,
     <1>15, <1>16 DEF Work, Process

LEMMA StageStepOthers ==
    ASSUME TypeInv, LeaseInv, StageInv,
           Operate \/ Accept
             \/ (\E o \in Objects : ProviderChanges(o)) \/ Tick
    PROVE  StageInv'
<1> USE DEF TypeInv, TypeOK, QueueTypeOK, LocalsOK, LeaseInv
<1>1. ASSUME NEW e \in Events, state[e] \notin WorkStates,
             \A f \in Events \ {e} : state'[f] = state[f] /\ digest'[f] = digest[f],
             state'[e] \notin Reported, UNCHANGED <<receipts, returned, pc, goal, plan, job>>
      PROVE  StageInv'
  <2>1. \A w \in Workers : pc[w] # "idle" => job[w] \in Events \ {e}
    BY <1>1 DEF HoldsItsRow
  <2>2. ASSUME NEW w \in Workers PROVE RowMatchesStage(w)'
    BY <1>1, <2>1 DEF StageInv, RowMatchesStage, PastBinding
  <2>3. ASSUME NEW f \in Events PROVE ReceiptIsBound(f)'
    BY <1>1, ReceiptedKept DEF StageInv, ReceiptIsBound
  <2> QED BY <2>2, <2>3 DEF StageInv
<1>2. ASSUME UNCHANGED <<state, digest, receipts, returned, pc, goal, plan, job>> PROVE StageInv'
  BY <1>2 DEF StageInv, RowMatchesStage, PastBinding, ReceiptIsBound, Receipted
<1>3. CASE RejectUpdate
  <2>1. /\ op.event \in Events /\ state[op.event] = "awaiting_approval"
        /\ state' = [state EXCEPT ![op.event] = "blocked"]
        /\ UNCHANGED <<digest, receipts, returned, pc, goal, plan, job>>
    BY <1>3 DEF RejectUpdate, WriteTransition, CallIsAboutRestingRow, workerVars, effects
  <2> QED BY <1>1, <2>1 DEF WorkStates, ActiveStates, Reported
<1>4. CASE ReleaseUpdate
  <2>1. /\ op.event \in Events /\ state[op.event] = "dead_letter"
        /\ state' = [state EXCEPT ![op.event] = "failed"]
        /\ UNCHANGED <<digest, receipts, returned, pc, goal, plan, job>>
    BY <1>4 DEF ReleaseUpdate, WriteRelease, CallIsAboutRestingRow, workerVars, effects
  <2> QED BY <1>1, <2>1 DEF WorkStates, ActiveStates, Reported
<1>5. CASE AcceptInsert
  <2> DEFINE e == arrival.event
  <2>1. /\ e \in Events /\ state[e] = "absent" /\ state'[e] \in {"received", "duplicate"}
        /\ \A f \in Events \ {e} : state'[f] = state[f] /\ digest'[f] = digest[f]
        /\ UNCHANGED <<receipts, returned, pc, goal, plan, job>>
    BY <1>5 DEF AcceptInsert, InsertEvent, workerVars, effects
  <2> HIDE DEF e
  <2> QED BY <1>1, <2>1 DEF WorkStates, ActiveStates, Reported
<1>6. ASSUME (\E f \in Events : RejectSelect(f) \/ ReleaseSelect(f) \/ AcceptSelect(f))
               \/ SetKillSwitch
               \/ (\E o \in Objects : ProviderChanges(o)) \/ Tick
      PROVE  StageInv'
  <2>1. UNCHANGED <<state, digest, receipts, returned, pc, goal, plan, job>>
    BY <1>6 DEF RejectSelect, ReleaseSelect, AcceptSelect, SetKillSwitch, ProviderChanges, Tick, LeaseLapses,
                LapseEventLease, ObjectLeaseLapses, LapseObjectLease, BackoffEnds, EndBackoff,
                queueVars, workerVars, envVars, effects
  <2> QED BY <1>2, <2>1
<1> QED BY <1>3, <1>4, <1>5, <1>6 DEF Operate, Accept

LEMMA StageInvariant == ASSUME TimelyAssumption PROVE Spec => []StageInv
<1>1. Init => StageInv
  BY DEF Init, QueueInit, StageInv, RowMatchesStage, PastBinding, ReceiptIsBound, Reported
<1>2. TypeInv /\ StageInv /\ UNCHANGED vars => StageInv'
  BY DEF StageInv, RowMatchesStage, PastBinding, ReceiptIsBound, Receipted, vars, queueVars, workerVars,
         envVars, effects
<1>3. TypeInv /\ ReceiptInv /\ LeaseInv /\ StageInv /\ [Next]_vars => StageInv'
  BY <1>2, StageStepWorker, StageStepOthers DEF Next
<1>4. Spec => []LeaseInv
  BY LeaseInvariant
<1> QED BY TypeCorrect, ReceiptInvariant, <1>1, <1>3, <1>4, PTL DEF Spec

\* The applier is called for an APPLYING row its worker holds, with the plan of
\* the snapshot that row is bound to.
THEOREM ApplierCorrect == ASSUME TimelyAssumption PROVE Spec => []AppliesItsOwnRow
<1>1. Spec => []LeaseInv
  BY LeaseInvariant
<1>2. Spec => []StageInv
  BY StageInvariant
<1>3. LeaseInv /\ StageInv => AppliesItsOwnRow
  BY DEF LeaseInv, HoldsItsRow, StageInv, RowMatchesStage, PastBinding, AppliesItsOwnRow
<1> QED BY <1>1, <1>2, <1>3, PTL

\* A reported event has a consistent readback of the very snapshot its row is bound to, and
\* the mapping of that readback is on record.
THEOREM BindingCorrect == ASSUME TimelyAssumption PROVE Spec => []AppliedSnapshotIsBound
<1>1. Spec => []StageInv
  BY StageInvariant
<1>2. StageInv => AppliedSnapshotIsBound
  BY DEF StageInv, ReceiptIsBound, AppliedSnapshotIsBound
<1> QED BY <1>1, <1>2, PTL

-----------------------------------------------------------------------------
(* EventProcessor implements EventDelivery: under TimelyAssumption every     *)
(* step of the queue, its workers and its operator is one step of            *)
(* EventDelivery on one event, or leaves every event's status alone.         *)

LEMMA StatusValues ==
    ASSUME NEW s
    PROVE  /\ s = "absent" => RestingStatus(s) = "absent"
           /\ s \in {"received", "failed"} => RestingStatus(s) = "queued"
           /\ s = "awaiting_approval" => RestingStatus(s) = "waiting"
           /\ s \in TerminalStates => RestingStatus(s) = "closed"
           /\ s \in ActiveStates => RestingStatus(s) = "stranded"
  BY DEF RestingStatus, TerminalStates, ActiveStates

\* The row e moves and every other row's status stays.
LEMMA MoveOne ==
    ASSUME NEW e \in Events, NEW from, NEW to,
           DeliveryStatus(e) = from, DeliveryStatus(e)' = to,
           \A f \in Events \ {e} : DeliveryStatus(f)' = DeliveryStatus(f)
    PROVE  Delivery!Move(e, from, to)
  BY DEF Delivery!Move

LEMMA NoMove ==
    ASSUME \A f \in Events : DeliveryStatus(f)' = DeliveryStatus(f)
    PROVE  UNCHANGED [e \in Events |-> DeliveryStatus(e)]
  OBVIOUS

Refined == [Delivery!DeliveryNext]_([e \in Events |-> DeliveryStatus(e)])

\* The job of a busy worker is working, and no one else has it.
LEMMA BusyIsWorking ==
    ASSUME TypeInv, LeaseInv, NEW w \in Workers, pc[w] # "idle"
    PROVE  /\ job[w] \in Events
           /\ DeliveryStatus(job[w]) = "working"
           /\ \A v \in Workers \ {w} : job[v] # job[w]
<1> USE DEF TypeInv, TypeOK, QueueTypeOK, LocalsOK, LeaseInv
<1>1. job[w] \in Events /\ state[job[w]] \in WorkStates
  BY DEF HoldsItsRow
<1>2. \A v \in Workers \ {w} : job[v] # job[w]
  BY <1>1, NullAssumption DEF OneWorkerPerObject, Busy
<1> QED BY <1>1, <1>2 DEF DeliveryStatus, InWork

\* A worker returns with its row in state s.
LEMMA RefineReturn ==
    ASSUME TypeInv, LeaseInv, NEW w \in Workers, pc[w] # "idle", Return(w),
           NEW s \in EventStates, state' = [state EXCEPT ![job[w]] = s]
    PROVE  Refined
<1> USE DEF TypeInv, TypeOK, QueueTypeOK, LocalsOK
<1>1. PICK e \in Events : e = job[w]
  BY BusyIsWorking
<1>2. DeliveryStatus(e) = "working" /\ \A v \in Workers \ {w} : job[v] # e
  BY <1>1, BusyIsWorking
<1>3. DeliveryStatus(e)' = RestingStatus(s)
  <2>1. ~InWork(e)'
    BY <1>1, <1>2, NullAssumption DEF InWork, Return
  <2>2. state'[e] = s
    BY <1>1
  <2> QED BY <2>1, <2>2 DEF DeliveryStatus
<1>4. ASSUME NEW f \in Events \ {e} PROVE DeliveryStatus(f)' = DeliveryStatus(f)
  <2>1. state'[f] = state[f]
    BY <1>1
  <2>2. InWork(f)' <=> InWork(f)
    BY <1>1, NullAssumption DEF InWork, Return
  <2> QED BY <2>1, <2>2 DEF DeliveryStatus
<1>5. RestingStatus(s) \in {"queued", "waiting", "closed", "stranded"}
  BY StatusValues DEF EventStates
<1>6. Delivery!Move(e, "working", RestingStatus(s))
  BY <1>2, <1>3, <1>4, MoveOne
<1>7. Delivery!Finish(e) \/ Delivery!Abandon(e)
  BY <1>5, <1>6 DEF Delivery!Finish, Delivery!Abandon
<1>8. Delivery!DeliveryNext
  BY <1>7 DEF Delivery!DeliveryNext
<1> QED BY <1>8 DEF Refined

LEMMA RefineQuiet ==
    ASSUME UNCHANGED job, \A f \in Events : state'[f] = state[f] \/ InWork(f)
    PROVE  Refined
<1>1. ASSUME NEW f \in Events PROVE DeliveryStatus(f)' = DeliveryStatus(f)
  <2>1. InWork(f)' <=> InWork(f)
    BY DEF InWork
  <2> QED BY <2>1 DEF DeliveryStatus
<1> QED BY <1>1, NoMove DEF Refined

\* An event no worker has moves on its own.
LEMMA RefineResting ==
    ASSUME UNCHANGED job, NEW e \in Events, ~InWork(e),
           \A f \in Events \ {e} : state'[f] = state[f]
    PROVE  Delivery!Move(e, RestingStatus(state[e]), RestingStatus(state'[e]))
<1>1. ASSUME NEW f \in Events PROVE InWork(f)' <=> InWork(f)
  BY DEF InWork
<1>2. DeliveryStatus(e) = RestingStatus(state[e]) /\ DeliveryStatus(e)' = RestingStatus(state'[e])
  BY <1>1 DEF DeliveryStatus
<1>3. \A f \in Events \ {e} : DeliveryStatus(f)' = DeliveryStatus(f)
  BY <1>1 DEF DeliveryStatus
<1> QED BY <1>2, <1>3, MoveOne

LEMMA RefineWorker ==
    ASSUME TypeInv, LeaseInv, NEW w \in Workers, Work(w)
    PROVE  Refined
<1> USE DEF TypeInv, TypeOK, QueueTypeOK, LocalsOK
<1>1. CASE Claim(w)
  <2>1. PICK e \in Events : ClaimEvent(w, e) /\ job' = [job EXCEPT ![w] = e]
    BY <1>1 DEF Claim
  <2>2. /\ pc[w] = "idle" /\ job[w] = NoEvent /\ UNCHANGED state
        /\ state[e] \in {"received", "failed"} /\ ~objectLive[ObjectOf[e]]
    BY <1>1, <2>1 DEF Claim, ClaimEvent, Claimable
  <2>3. \A v \in Workers : pc[v] # "idle" => ObjectOf[job[v]] # ObjectOf[e] /\ job[v] # e
    BY <2>2 DEF LeaseInv, LeaseTablesAgree, HoldsItsRow
  <2>4. \A v \in Workers : job[v] \in Events => ObjectOf[job[v]] # ObjectOf[e] /\ job[v] # e
    BY <2>3, NullAssumption
  <2>5. ASSUME NEW f \in Events, ObjectOf[f] = ObjectOf[e] PROVE DeliveryStatus(f) # "working"
    <3>1. ~InWork(f)
      BY <2>4, <2>5 DEF InWork
    <3>2. DeliveryStatus(f) = RestingStatus(state[f])
      BY <3>1 DEF DeliveryStatus
    <3> QED BY <3>2, StatusValues DEF EventStates
  <2>6. DeliveryStatus(e) = "queued"
    <3>1. ~InWork(e)
      BY <2>4 DEF InWork
    <3> QED BY <2>2, <3>1, StatusValues DEF DeliveryStatus
  <2>7. DeliveryStatus(e)' = "working"
    BY <2>1 DEF DeliveryStatus, InWork
  <2>8. ASSUME NEW f \in Events \ {e} PROVE DeliveryStatus(f)' = DeliveryStatus(f)
    <3>1. InWork(f)' <=> InWork(f)
      BY <2>1, <2>2, NullAssumption DEF InWork
    <3> QED BY <2>2, <3>1 DEF DeliveryStatus
  <2>9. Delivery!Start(e)
    BY <2>5, <2>6, <2>7, <2>8, MoveOne DEF Delivery!Start
  <2>10. Delivery!DeliveryNext
    BY <2>9 DEF Delivery!DeliveryNext
  <2> QED BY <2>10 DEF Refined
<1>2. CASE UpdateRow(w)
  <2>1. /\ pc[w] = "update" /\ job[w] \in Events /\ goal[w] \in WorkGoals
        /\ state' = [state EXCEPT ![job[w]] = goal[w]]
    BY <1>2 DEF UpdateRow, WriteTransition
  <2>2. goal[w] \in EventStates
    BY <2>1 DEF WorkGoals, Goals, EventStates, TerminalStates, ActiveStates
  <2>3. CASE ReleasesLease(goal[w])
    BY <1>2, <2>1, <2>2, <2>3, RefineReturn DEF UpdateRow
  <2>4. CASE ~ReleasesLease(goal[w])
    <3>1. UNCHANGED job
      BY <1>2, <2>4 DEF UpdateRow
    <3>2. \A f \in Events : state'[f] = state[f] \/ InWork(f)
      BY <2>1 DEF InWork
    <3> QED BY <3>1, <3>2, RefineQuiet
  <2> QED BY <2>3, <2>4
<1>3. CASE UpdateFailure(w)
  <2>1. PICK s \in EventStates : state' = [state EXCEPT ![job[w]] = s]
    BY <1>3 DEF UpdateFailure, WriteFailure, FailureState, EventStates, TerminalStates
  <2> QED BY <1>3, <2>1, RefineReturn DEF UpdateFailure
<1>4. CASE Crash(w)
  <2>1. pc[w] # "idle" /\ Return(w) /\ UNCHANGED state
    BY <1>4 DEF Crash, queueVars
  <2>2. state[job[w]] \in EventStates
    BY <2>1 DEF LeaseInv, HoldsItsRow, WorkStates, EventStates
  <2>3. state' = [state EXCEPT ![job[w]] = state[job[w]]]
    <3>1. state \in [Events -> EventStates \cup {"absent"}]
      OBVIOUS
    <3> QED BY <2>1, <3>1
  <2> HIDE DEF TypeInv
  <2> QED BY <2>1, <2>2, <2>3, RefineReturn
<1>5. ASSUME SelectRow(w) \/ RefuseTransition(w) \/ LoadSnapshot(w) \/ FindDuplicate(w)
               \/ BindSnapshot(w) \/ PlanEvent(w) \/ Decide(w) \/ Recheck(w) \/ Apply(w)
               \/ RecordReceipt(w) \/ CallFails(w) \/ SelectAttempts(w)
      PROVE  Refined
  <2>1. UNCHANGED <<job, state>>
    BY <1>5 DEF SelectRow, RefuseTransition, LoadSnapshot, FindDuplicate, BindSnapshot, WriteDigest,
                PlanEvent, Decide, Recheck, Apply, RecordReceipt, InsertReceipt, CallFails,
                SelectAttempts, queueVars
  <2> QED BY <2>1, RefineQuiet
<1> QED BY <1>1, <1>2, <1>3, <1>4, <1>5 DEF Work, Process

LEMMA RefineOthers ==
    ASSUME TypeInv, LeaseInv,
           Operate \/ Accept
             \/ (\E o \in Objects : ProviderChanges(o)) \/ Tick
    PROVE  Refined
<1> USE DEF TypeInv, TypeOK, QueueTypeOK, LocalsOK
<1>0. \A e \in Events : InWork(e) => state[e] \in WorkStates
  BY NullAssumption DEF InWork, LeaseInv, HoldsItsRow
<1>1. CASE RejectUpdate
  <2>1. /\ op.event \in Events /\ state[op.event] = "awaiting_approval" /\ UNCHANGED job
        /\ state' = [state EXCEPT ![op.event] = "blocked"]
    BY <1>1 DEF RejectUpdate, WriteTransition, LeaseInv, CallIsAboutRestingRow, workerVars
  <2>2. ~InWork(op.event)
    BY <1>0, <2>1 DEF WorkStates, ActiveStates
  <2>3. Delivery!Move(op.event, "waiting", "closed")
    BY <2>1, <2>2, RefineResting, StatusValues DEF TerminalStates
  <2>4. Delivery!DeliveryNext
    BY <2>1, <2>3 DEF Delivery!DeliveryNext, Delivery!Reject
  <2> QED BY <2>4 DEF Refined
<1>2. CASE ReleaseUpdate
  <2>1. /\ op.event \in Events /\ state[op.event] = "dead_letter" /\ UNCHANGED job
        /\ state' = [state EXCEPT ![op.event] = "failed"]
    BY <1>2 DEF ReleaseUpdate, WriteRelease, LeaseInv, CallIsAboutRestingRow, workerVars
  <2>2. ~InWork(op.event)
    BY <1>0, <2>1 DEF WorkStates, ActiveStates
  <2>3. Delivery!Move(op.event, "closed", "queued")
    BY <2>1, <2>2, RefineResting, StatusValues DEF TerminalStates
  <2>4. Delivery!DeliveryNext
    BY <2>1, <2>3 DEF Delivery!DeliveryNext, Delivery!Release
  <2> QED BY <2>4 DEF Refined
<1>3. CASE AcceptInsert
  <2> DEFINE e == arrival.event
  <2>1. /\ e \in Events
        /\ state[e] = "absent" /\ state'[e] \in {"received", "duplicate"} /\ UNCHANGED job
        /\ \A f \in Events \ {e} : state'[f] = state[f]
    BY <1>3 DEF AcceptInsert, InsertEvent, workerVars
  <2> HIDE DEF e
  <2>2. ~InWork(e)
    BY <1>0, <2>1 DEF WorkStates, ActiveStates
  <2>3. RestingStatus(state'[e]) \in {"queued", "closed"} /\ RestingStatus(state[e]) = "absent"
    BY <2>1, StatusValues DEF TerminalStates
  <2>4. Delivery!Move(e, "absent", RestingStatus(state'[e]))
    BY <2>1, <2>2, <2>3, RefineResting
  <2>5. Delivery!Arrive(e)
    BY <2>3, <2>4 DEF Delivery!Arrive
  <2>6. Delivery!DeliveryNext
    BY <2>1, <2>5 DEF Delivery!DeliveryNext
  <2> QED BY <2>6 DEF Refined
<1>4. ASSUME (\E f \in Events : RejectSelect(f) \/ ReleaseSelect(f) \/ AcceptSelect(f))
               \/ SetKillSwitch
               \/ (\E o \in Objects : ProviderChanges(o)) \/ Tick
      PROVE  Refined
  <2>1. UNCHANGED <<state, job>>
    BY <1>4 DEF RejectSelect, ReleaseSelect, AcceptSelect, SetKillSwitch, ProviderChanges, Tick, LeaseLapses,
                LapseEventLease, ObjectLeaseLapses, LapseObjectLease, BackoffEnds, EndBackoff,
                queueVars, workerVars
  <2> QED BY <2>1, RefineQuiet
<1> QED BY <1>1, <1>2, <1>3, <1>4 DEF Operate, Accept

\* Each event is queued, worked on alone among the events of its object, and ends
\* closed, requeued or waiting: EventProcessor implements EventDelivery.
THEOREM RefinementCorrect == ASSUME TimelyAssumption PROVE Spec => ImplementsDelivery
<1>1. Init => Delivery!DeliveryInit
  <2> SUFFICES ASSUME Init, NEW e \in Events PROVE DeliveryStatus(e) = "absent"
    BY DEF Delivery!DeliveryInit
  <2>1. ~InWork(e) /\ state[e] = "absent"
    BY NullAssumption DEF Init, QueueInit, InWork
  <2> QED BY <2>1, StatusValues DEF DeliveryStatus
<1>2. TypeInv /\ LeaseInv /\ [Next]_vars => Refined
  <2>1. CASE UNCHANGED vars
    BY <2>1, RefineQuiet DEF vars, queueVars, workerVars
  <2> QED BY <2>1, RefineWorker, RefineOthers DEF Next
<1>3. Spec => []LeaseInv
  BY LeaseInvariant
<1> QED
  BY TypeCorrect, <1>1, <1>2, <1>3, PTL DEF Spec, Refined, ImplementsDelivery, Delivery!DeliverySpec
=============================================================================
