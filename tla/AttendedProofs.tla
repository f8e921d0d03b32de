--------------------------- MODULE AttendedProofs ---------------------------
(***************************************************************************)
(* What holds of AttendedExecution for every set of plans, transactions,   *)
(* keys and executors.  The first part needs no assumption on executors;   *)
(* the second assumes that nobody executes a transaction that is being     *)
(* executed (Exclusive), and ends with the refinement of ExactTransaction.  *)
(***************************************************************************)
EXTENDS AttendedExecution, TLAPS

\* A busy executor has a plan and a position in it; an idle one begins at the first.
LocalsOK ==
    \A x \in Executors :
        IF pc[x] = "idle" THEN plan[x] = NoPlan /\ step[x] = 1
                          ELSE plan[x] \in Plans /\ step[x] \in 1..Len(KeysOf[plan[x]])

TypeInv == TypeOK /\ LocalsOK

LEMMA PlanFacts ==
    ASSUME NEW p \in Plans
    PROVE  /\ TxOf[p] \in Transactions
           /\ Len(KeysOf[p]) \in Nat \ {0}
           /\ \A i \in 1..Len(KeysOf[p]) : KeysOf[p][i] \in Keys /\ KeysOf[p][i] \in KeySet(p)
           /\ KeySet(p) \subseteq Keys
<1>1. TxOf[p] \in Transactions /\ KeysOf[p] \in Seq(Keys) /\ KeysOf[p] # << >>
  BY PlansAssumption
<1>2. Len(KeysOf[p]) \in Nat \ {0}
  BY <1>1
<1>3. \A i \in 1..Len(KeysOf[p]) : KeysOf[p][i] \in Keys
  BY <1>1
<1> QED BY <1>1, <1>2, <1>3 DEF KeySet

\* The key of a busy executor's current operation is one of its plan's.
LEMMA KeyFacts ==
    ASSUME TypeInv, NEW x \in Executors, Busy(x)
    PROVE  /\ plan[x] \in Plans /\ Tx(x) \in Transactions
           /\ Key(x) \in Keys /\ Key(x) \in KeySet(plan[x])
<1>1. plan[x] \in Plans /\ step[x] \in 1..Len(KeysOf[plan[x]])
  BY DEF TypeInv, LocalsOK, Busy
<1> QED BY <1>1, PlanFacts DEF Tx, Key

-----------------------------------------------------------------------------
(* Type correctness. *)

\* The journal's tables are well typed after each of its writes.
LEMMA JournalTypes ==
    ASSUME JournalTypeOK, NEW p \in Plans, NEW k \in Keys, NEW d \in Contents, NEW t \in Transactions,
           \/ InsertPlan(p) \/ PrepareAgain(t) \/ JournalWrite(t, k, d) \/ JournalReadback(k, d)
           \/ JournalFailure(t, k) \/ JournalCompletion(t) \/ UNCHANGED journalVars
    PROVE  JournalTypeOK'
<1> USE PlanFacts DEF JournalTypeOK, TxStates, OpStates
<1>1. CASE InsertPlan(p)
  BY <1>1 DEF InsertPlan
<1>2. CASE PrepareAgain(t)
  BY <1>2 DEF PrepareAgain
<1>3. CASE JournalWrite(t, k, d)
  BY <1>3 DEF JournalWrite
<1>4. CASE JournalReadback(k, d)
  BY <1>4 DEF JournalReadback
<1>5. CASE JournalFailure(t, k)
  BY <1>5 DEF JournalFailure
<1>6. CASE JournalCompletion(t)
  BY <1>6 DEF JournalCompletion
<1>7. CASE UNCHANGED journalVars
  BY <1>7 DEF journalVars
<1> QED BY <1>1, <1>2, <1>3, <1>4, <1>5, <1>6, <1>7

LEMMA TypeInit == Init => TypeInv
  BY ExecutorAssumption
     DEF Init, JournalInit, TypeInv, TypeOK, JournalTypeOK, LocalsOK, TxStates, OpStates, Contents, Stages

\* When execute() is left, the executor's memory is the initial one.
LEMMA LeaveKeepsLocals ==
    ASSUME TypeInv, NEW x \in Executors, Leave(x)
    PROVE  /\ pc' \in [Executors -> Stages]
           /\ plan' \in [Executors -> Plans \cup {NoPlan}]
           /\ known' \in [Executors -> BOOLEAN]
           /\ step' \in [Executors -> Nat]
           /\ wrote' \in [Executors -> Contents]
           /\ readBack' \in [Executors -> Contents]
           /\ LocalsOK'
<1> USE DEF TypeInv, TypeOK, Leave
<1>1. /\ pc' \in [Executors -> Stages] /\ plan' \in [Executors -> Plans \cup {NoPlan}]
      /\ known' \in [Executors -> BOOLEAN] /\ step' \in [Executors -> Nat]
  BY DEF Stages
<1>2. wrote' \in [Executors -> Contents] /\ readBack' \in [Executors -> Contents]
  BY DEF Contents
<1>3. LocalsOK'
  BY DEF LocalsOK
<1> QED BY <1>1, <1>2, <1>3

\* A step of x that stays inside execute(), at the same operation.
LEMMA LocalStep ==
    ASSUME TypeInv, NEW x \in Executors, pc[x] # "idle",
           NEW s \in Stages, pc' = [pc EXCEPT ![x] = s], s # "idle",
           UNCHANGED <<plan, known, step>>,
           wrote' \in [Executors -> Contents], readBack' \in [Executors -> Contents]
    PROVE  /\ pc' \in [Executors -> Stages]
           /\ plan' \in [Executors -> Plans \cup {NoPlan}]
           /\ known' \in [Executors -> BOOLEAN]
           /\ step' \in [Executors -> Nat]
           /\ LocalsOK'
  BY DEF TypeInv, TypeOK, LocalsOK

\* The provider's variables are well typed after a create, an edit or neither.
LEMMA CreateTypes ==
    ASSUME TypeInv, NEW k \in Keys, CreateOnce(k)
    PROVE  content' \in [Keys -> Contents]
  BY DEF TypeInv, TypeOK, CreateOnce, Contents

LEMMA TypeStepExecute ==
    ASSUME TypeInv, NEW x \in Executors, Execute(x)
    PROVE  TypeInv'
<1> USE DEF Stages, providerVars, Go
<1>1. TypeOK /\ JournalTypeOK /\ Busy(x) /\ pc[x] # "idle"
  BY DEF TypeInv, TypeOK, Execute, Journal, JournalRefuses, Create, CreateTimesOut, Fetch, RecordWrite,
         ReadBack, MatchReadback, Verify, CallFails, Fail, CheckCompletion, Complete, Busy
<1>2. plan[x] \in Plans /\ Tx(x) \in Transactions /\ Key(x) \in Keys /\ Key(x) \in KeySet(plan[x])
  BY <1>1, KeyFacts
<1>3. wrote[x] \in Contents /\ readBack[x] \in Contents /\ content[Key(x)] \in Contents
  BY <1>1, <1>2 DEF TypeOK
<1> HIDE DEF Stages, providerVars, Go
<1>4. CASE Journal(x)
  <2>1. JournalTypeOK'
    BY <1>1, <1>2, <1>3, <1>4, JournalTypes DEF Journal
  <2> QED BY <1>1, <1>4, <2>1, LocalStep DEF Journal, Go, Stages, TypeInv, TypeOK, providerVars
<1>5. CASE JournalRefuses(x)
  <2>1. JournalTypeOK'
    BY <1>1, <1>2, <1>3, <1>5, JournalTypes DEF JournalRefuses
  <2> QED BY <1>1, <1>5, <2>1, LeaveKeepsLocals DEF JournalRefuses, TypeInv, TypeOK, providerVars
<1>6. CASE Create(x)
  <2>1. JournalTypeOK'
    BY <1>1, <1>2, <1>3, <1>6, JournalTypes DEF Create
  <2>2. content' \in [Keys -> Contents]
    BY <1>2, <1>6, CreateTypes DEF Create
  <2> QED BY <1>1, <1>6, <2>1, <2>2, LocalStep DEF Create, Go, Stages, TypeInv, TypeOK
<1>7. CASE CreateTimesOut(x)
  <2>1. JournalTypeOK'
    BY <1>1, <1>2, <1>3, <1>7, JournalTypes DEF CreateTimesOut
  <2>2. inFlight' \subseteq Keys
    BY <1>1, <1>2, <1>7 DEF CreateTimesOut, TypeOK
  <2> QED BY <1>1, <1>7, <2>1, <2>2, LocalStep DEF CreateTimesOut, Go, Stages, TypeInv, TypeOK
<1>8. CASE Fetch(x)
  <2>1. JournalTypeOK'
    BY <1>1, <1>2, <1>3, <1>8, JournalTypes DEF Fetch
  <2> QED BY <1>1, <1>3, <1>8, <2>1, LocalStep DEF Fetch, Go, Stages, TypeInv, TypeOK, providerVars
<1>9. CASE RecordWrite(x)
  <2>1. JournalTypeOK'
    BY <1>1, <1>2, <1>3, <1>9, JournalTypes DEF RecordWrite
  <2> QED BY <1>1, <1>9, <2>1, LocalStep DEF RecordWrite, Go, Stages, TypeInv, TypeOK, providerVars
<1>10. CASE ReadBack(x)
  <2>1. JournalTypeOK'
    BY <1>1, <1>2, <1>3, <1>10, JournalTypes DEF ReadBack
  <2>2. \E s \in {"match", "fail"} : pc' = [pc EXCEPT ![x] = s]
    BY <1>10 DEF ReadBack, Go
  <2> QED BY <1>1, <1>3, <1>10, <2>1, <2>2, LocalStep DEF ReadBack, Stages, TypeInv, TypeOK, providerVars
<1>11. CASE MatchReadback(x)
  <2>1. JournalTypeOK'
    BY <1>1, <1>2, <1>3, <1>11, JournalTypes DEF MatchReadback
  <2>2. \E s \in {"verify", "fail"} : pc' = [pc EXCEPT ![x] = s]
    BY <1>11 DEF MatchReadback, Go
  <2> QED BY <1>1, <1>11, <2>1, <2>2, LocalStep DEF MatchReadback, Stages, TypeInv, TypeOK, providerVars
<1>12. CASE Verify(x)
  <2>1. JournalTypeOK'
    BY <1>1, <1>2, <1>3, <1>12, JournalTypes DEF Verify
  <2>2. step[x] \in 1..Len(KeysOf[plan[x]]) /\ Len(KeysOf[plan[x]]) \in Nat
    BY <1>1, <1>2, PlanFacts DEF TypeInv, LocalsOK
  <2>3. \E s \in {"check", "create"} : pc' = [pc EXCEPT ![x] = s]
    BY <1>12 DEF Verify, Go
  <2>4. \E n \in 1..Len(KeysOf[plan[x]]) : step' = [step EXCEPT ![x] = n]
    <3>1. CASE step[x] = Len(KeysOf[plan[x]])
      BY <1>12, <2>2, <3>1 DEF Verify
    <3>2. CASE step[x] # Len(KeysOf[plan[x]])
      <4>1. step[x] + 1 \in 1..Len(KeysOf[plan[x]])
        BY <2>2, <3>2
      <4> QED BY <1>12, <3>2, <4>1 DEF Verify
    <3> QED BY <3>1, <3>2
  <2>5. /\ wrote' = [wrote EXCEPT ![x] = "none"] /\ readBack' = [readBack EXCEPT ![x] = "none"]
        /\ UNCHANGED <<plan, known, content, inFlight, edits, crashes>>
    BY <1>12 DEF Verify, providerVars
  <2>6. TypeOK'
    BY <1>1, <2>1, <2>2, <2>3, <2>4, <2>5 DEF TypeOK, Stages, Contents
  <2>7. LocalsOK'
    BY <1>1, <1>2, <2>3, <2>4, <2>5 DEF TypeInv, TypeOK, LocalsOK
  <2> QED BY <2>6, <2>7 DEF TypeInv
<1>13. CASE CallFails(x)
  <2>1. JournalTypeOK'
    BY <1>1, <1>2, <1>3, <1>13, JournalTypes DEF CallFails
  <2> QED BY <1>1, <1>13, <2>1, LocalStep DEF CallFails, Go, Stages, TypeInv, TypeOK, providerVars
<1>14. CASE Fail(x)
  <2>1. JournalTypeOK'
    BY <1>1, <1>2, <1>3, <1>14, JournalTypes DEF Fail
  <2> QED BY <1>1, <1>14, <2>1, LeaveKeepsLocals DEF Fail, TypeInv, TypeOK, providerVars
<1>15. CASE CheckCompletion(x)
  <2>1. JournalTypeOK'
    BY <1>1, <1>2, <1>3, <1>15, JournalTypes DEF CheckCompletion
  <2>2. CASE Leave(x)
    BY <1>1, <1>15, <2>1, <2>2, LeaveKeepsLocals DEF CheckCompletion, TypeInv, TypeOK, providerVars
  <2>3. CASE ~Leave(x)
    BY <1>1, <1>15, <2>1, <2>3, LocalStep DEF CheckCompletion, Go, Stages, TypeInv, TypeOK, providerVars
  <2> QED BY <2>2, <2>3
<1>16. CASE Complete(x)
  <2>1. JournalTypeOK'
    BY <1>1, <1>2, <1>3, <1>16, JournalTypes DEF Complete
  <2> QED BY <1>1, <1>16, <2>1, LeaveKeepsLocals DEF Complete, TypeInv, TypeOK, providerVars
<1> QED
  BY <1>4, <1>5, <1>6, <1>7, <1>8, <1>9, <1>10, <1>11, <1>12, <1>13, <1>14, <1>15, <1>16 DEF Execute

LEMMA TypeStepOthers ==
    ASSUME TypeInv,
           \/ \E x \in Executors : (\E p \in Plans : Begin(x, p)) \/ Crash(x)
           \/ \E k \in Keys : Arrive(k) \/ Edit(k)
    PROVE  TypeInv'
<1>1. ASSUME NEW x \in Executors, NEW p \in Plans, Begin(x, p) PROVE TypeInv'
  <2>1. /\ UNCHANGED <<journalVars, step, wrote, readBack, content, inFlight, edits, crashes>>
        /\ pc' = [pc EXCEPT ![x] = "begin"] /\ plan' = [plan EXCEPT ![x] = p]
        /\ \E b \in BOOLEAN : known' = [known EXCEPT ![x] = b]
        /\ pc[x] = "idle"
    BY <1>1 DEF Begin, Go, Known, providerVars
  <2>2. JournalTypeOK'
    BY <2>1 DEF TypeInv, TypeOK, JournalTypeOK, journalVars
  <2>3. TypeOK'
    BY <2>1, <2>2 DEF TypeInv, TypeOK, Stages
  <2>4. LocalsOK'
    BY <2>1, PlanFacts DEF TypeInv, TypeOK, LocalsOK
  <2> QED BY <2>3, <2>4 DEF TypeInv
<1>2. ASSUME NEW x \in Executors, Crash(x) PROVE TypeInv'
  <2>1. /\ UNCHANGED <<journalVars, content, edits>>
        /\ Leave(x) /\ Busy(x)
        /\ inFlight' = inFlight \/ inFlight' = inFlight \cup {Key(x)}
        /\ crashes < MaxCrashes /\ crashes' = crashes + 1
    BY <1>2 DEF Crash
  <2>2. JournalTypeOK'
    BY <2>1 DEF TypeInv, TypeOK, JournalTypeOK, journalVars
  <2>3. inFlight' \subseteq Keys
    BY <2>1, KeyFacts DEF TypeInv, TypeOK
  <2>4. crashes' \in 0..MaxCrashes
    BY <2>1, ExecutorAssumption DEF TypeInv, TypeOK
  <2> QED BY <2>1, <2>2, <2>3, <2>4, LeaveKeepsLocals DEF TypeInv, TypeOK
<1>3. ASSUME NEW k \in Keys, Arrive(k) PROVE TypeInv'
  <2>1. content' \in [Keys -> Contents]
    BY <1>3, CreateTypes DEF Arrive
  <2>2. inFlight' \subseteq Keys
    BY <1>3 DEF TypeInv, TypeOK, Arrive
  <2> QED BY <1>3, <2>1, <2>2
          DEF Arrive, TypeInv, TypeOK, JournalTypeOK, LocalsOK, journalVars, executorVars
<1>4. ASSUME NEW k \in Keys, Edit(k) PROVE TypeInv'
  <2>1. content' \in [Keys -> Contents]
    BY <1>4 DEF Edit, TypeInv, TypeOK, Contents
  <2>2. edits' \in 0..MaxEdits
    BY <1>4, ExecutorAssumption DEF Edit, TypeInv, TypeOK
  <2> QED BY <1>4, <2>1, <2>2
          DEF Edit, TypeInv, TypeOK, JournalTypeOK, LocalsOK, journalVars, executorVars
<1> QED BY <1>1, <1>2, <1>3, <1>4

LEMMA TypeNext == TypeInv /\ [Next]_vars => TypeInv'
<1>1. TypeInv /\ Next => TypeInv'
  BY TypeStepExecute, TypeStepOthers DEF Next
<1>2. TypeInv /\ UNCHANGED vars => TypeInv'
  BY DEF TypeInv, TypeOK, JournalTypeOK, LocalsOK, vars, journalVars, executorVars, providerVars
<1> QED BY <1>1, <1>2

\* Type correctness, with what an executor's memory holds: a busy executor has a
\* plan and a position in it.
THEOREM TypeCorrect == Spec => []TypeInv
  BY TypeInit, TypeNext, PTL DEF Spec

\* TypeOK, the type invariant of the runs.
THEOREM TypeOKCorrect == Spec => []TypeOK
<1>1. TypeInv => TypeOK
  BY DEF TypeInv
<1> QED BY <1>1, TypeCorrect, PTL

-----------------------------------------------------------------------------
(* The journal is written ahead, whatever the executors do. *)

\* Past begin(), and in a begin() that found the transaction, the transaction's
\* identity is the executor's plan.
BoundToJournal(x) ==
    pc[x] \notin {"idle", "begin"} \/ (pc[x] = "begin" /\ known[x]) => txPlan[Tx(x)] = plan[x]

\* A transaction's row is under the id of its plan, with all the plan's operations.
RowsOfPlan(t) ==
    IF txPlan[t] = NoPlan
      THEN txState[t] = "absent"
      ELSE TxOf[txPlan[t]] = t /\ \A k \in KeySet(txPlan[t]) : opState[k] # "absent"

JournalInv ==
    /\ \A x \in Executors : BoundToJournal(x)
    /\ \A t \in Transactions : RowsOfPlan(t)
    /\ KeysAreExclusive
    /\ EffectsAreJournaled

\* A step that inserts no transaction, deletes no operation, and adds at most an
\* effect of an executor that is past begin().
LEMMA JournalKept ==
    ASSUME TypeInv, JournalInv, UNCHANGED txPlan,
           \A t \in Transactions : txPlan[t] = NoPlan => txState'[t] = txState[t],
           \A k \in Keys : opState[k] # "absent" => opState'[k] # "absent",
           \A x \in Executors : BoundToJournal(x)',
           \A k \in Keys : content'[k] # "none" \/ k \in inFlight' =>
              \/ content[k] # "none" \/ k \in inFlight
              \/ \E x \in Executors : /\ pc[x] \notin {"idle", "begin"}
                                      /\ k = Key(x)
    PROVE  JournalInv'
<1>1. \A t \in Transactions : RowsOfPlan(t)'
  BY PlanFacts DEF JournalInv, RowsOfPlan, TypeInv, TypeOK, JournalTypeOK
<1>2. KeysAreExclusive'
  BY DEF JournalInv, KeysAreExclusive
<1>3. ASSUME NEW k \in Keys, content'[k] # "none" \/ k \in inFlight'
      PROVE  \E t \in Transactions : txPlan[t] # NoPlan /\ k \in KeySet(txPlan[t])
  <2>1. CASE content[k] # "none" \/ k \in inFlight
    BY <2>1 DEF JournalInv, EffectsAreJournaled
  <2>2. CASE \E x \in Executors : pc[x] \notin {"idle", "begin"} /\ k = Key(x)
    <3>1. PICK x \in Executors : pc[x] \notin {"idle", "begin"} /\ k = Key(x)
      BY <2>2
    <3>2. txPlan[Tx(x)] = plan[x]
      BY <3>1 DEF JournalInv, BoundToJournal
    <3> QED BY <3>1, <3>2, KeyFacts, PlansAssumption DEF Busy
  <2> QED BY <1>3, <2>1, <2>2
<1> QED BY <1>1, <1>2, <1>3 DEF JournalInv, EffectsAreJournaled

\* A step of executor x that changes neither the journal's identities nor the
\* memory of any other executor leaves every executor bound.
LEMMA BoundKept ==
    ASSUME TypeInv, JournalInv, UNCHANGED txPlan, NEW x \in Executors, pc[x] \notin {"idle", "begin"},
           \/ Leave(x)
           \/ UNCHANGED <<plan, known>> /\ \E s \in Stages \ {"begin"} : pc' = [pc EXCEPT ![x] = s]
    PROVE  \A y \in Executors : BoundToJournal(y)'
<1>1. \A y \in Executors \ {x} : /\ pc'[y] = pc[y] /\ plan'[y] = plan[y] /\ known'[y] = known[y]
  BY DEF TypeInv, TypeOK, Leave
<1>2. pc'[x] # "begin" /\ (pc'[x] = "idle" \/ plan'[x] = plan[x])
  BY DEF TypeInv, TypeOK, Leave
<1> QED BY <1>1, <1>2 DEF JournalInv, BoundToJournal, Tx

\* Every step of execute() after begin().
LEMMA JournalStepExecute ==
    ASSUME TypeInv, JournalInv, NEW x \in Executors, Execute(x), pc[x] # "begin"
    PROVE  JournalInv'
<1>1. pc[x] \notin {"idle", "begin"} /\ Busy(x)
  BY DEF Execute, Journal, JournalRefuses, Create, CreateTimesOut, Fetch, RecordWrite,
         ReadBack, MatchReadback, Verify, CallFails, Fail, CheckCompletion, Complete, Go, Busy
<1>2. txPlan[Tx(x)] = plan[x] /\ txPlan[Tx(x)] # NoPlan
  BY <1>1, KeyFacts, PlansAssumption DEF JournalInv, BoundToJournal
<1>3. Tx(x) \in Transactions /\ Key(x) \in Keys
  BY <1>1, KeyFacts
<1>4. /\ UNCHANGED txPlan
      /\ \/ Leave(x)
         \/ UNCHANGED <<plan, known>> /\ \E s \in Stages \ {"begin"} : pc' = [pc EXCEPT ![x] = s]
  BY <1>1 DEF Execute, Journal, JournalRefuses, Create, CreateTimesOut, Fetch, RecordWrite,
         ReadBack, MatchReadback, Verify, CallFails, Fail, CheckCompletion, Complete, Go, Stages,
         JournalWrite, JournalReadback, JournalFailure, JournalCompletion, journalVars
<1>5. /\ \/ UNCHANGED txState
         \/ \E s \in TxStates : txState' = [txState EXCEPT ![Tx(x)] = s]
      /\ \/ UNCHANGED opState
         \/ \E s \in OpStates \ {"absent"} : opState' = [opState EXCEPT ![Key(x)] = s]
  BY <1>1 DEF Execute, Journal, JournalRefuses, Create, CreateTimesOut, Fetch, RecordWrite,
         ReadBack, MatchReadback, Verify, CallFails, Fail, CheckCompletion, Complete, Go,
         JournalWrite, JournalReadback, JournalFailure, JournalCompletion, journalVars,
         TxStates, OpStates
<1>6. /\ UNCHANGED content \/ CreateOnce(Key(x))
      /\ inFlight' = inFlight \/ inFlight' = inFlight \cup {Key(x)}
  BY <1>1 DEF Execute, Journal, JournalRefuses, Create, CreateTimesOut, Fetch, RecordWrite,
         ReadBack, MatchReadback, Verify, CallFails, Fail, CheckCompletion, Complete, Go, providerVars
<1>7. \A t \in Transactions : txPlan[t] = NoPlan => txState'[t] = txState[t]
  BY <1>2, <1>5 DEF TypeInv, TypeOK, JournalTypeOK
<1>8. \A k \in Keys : opState[k] # "absent" => opState'[k] # "absent"
  BY <1>3, <1>5 DEF TypeInv, TypeOK, JournalTypeOK
<1>9. \A y \in Executors : BoundToJournal(y)'
  BY <1>1, <1>4, BoundKept
<1>10. \A k \in Keys : content'[k] # "none" \/ k \in inFlight' =>
          \/ content[k] # "none" \/ k \in inFlight
          \/ \E y \in Executors : pc[y] \notin {"idle", "begin"} /\ k = Key(y)
  BY <1>1, <1>6 DEF CreateOnce, TypeInv, TypeOK
<1> QED BY <1>4, <1>7, <1>8, <1>9, <1>10, JournalKept

\* begin() stores the plan with all its operations, or nothing.
LEMMA JournalStepBegin ==
    ASSUME TypeInv, JournalInv, NEW x \in Executors, Journal(x) \/ JournalRefuses(x)
    PROVE  JournalInv'
<1>1. pc[x] = "begin" /\ plan[x] \in Plans /\ Tx(x) \in Transactions /\ KeySet(plan[x]) \subseteq Keys
  BY KeyFacts, PlanFacts DEF Journal, JournalRefuses, Go, Busy
<1>2. CASE JournalRefuses(x)
  <2>1. UNCHANGED <<txPlan, txState, opState, content, inFlight>> /\ Leave(x)
    BY <1>2 DEF JournalRefuses, journalVars, providerVars
  <2>2. \A y \in Executors : BoundToJournal(y)'
    <3>1. \A y \in Executors \ {x} : pc'[y] = pc[y] /\ plan'[y] = plan[y] /\ known'[y] = known[y]
      BY <2>1 DEF Leave, TypeInv, TypeOK
    <3>2. pc'[x] = "idle"
      BY <2>1 DEF Leave, TypeInv, TypeOK
    <3> QED BY <2>1, <3>1, <3>2 DEF JournalInv, BoundToJournal, Tx
  <2> QED BY <2>1, <2>2, JournalKept
<1>3. CASE Journal(x) /\ known[x]
  <2>1. /\ UNCHANGED <<txPlan, opState, content, inFlight, plan, known>>
        /\ txState' = [txState EXCEPT ![Tx(x)] = "prepared"]
        /\ pc' = [pc EXCEPT ![x] = "create"]
    BY <1>3 DEF Journal, PrepareAgain, Go, providerVars
  <2>2. txPlan[Tx(x)] = plan[x] /\ txPlan[Tx(x)] # NoPlan
    BY <1>1, <1>3, PlansAssumption DEF JournalInv, BoundToJournal
  <2>3. \A y \in Executors : BoundToJournal(y)'
    BY <2>1, <2>2 DEF JournalInv, BoundToJournal, Tx, TypeInv, TypeOK
  <2>4. \A t \in Transactions : txPlan[t] = NoPlan => txState'[t] = txState[t]
    BY <2>1, <2>2
  <2> QED BY <2>1, <2>3, <2>4, JournalKept
<1>4. CASE Journal(x) /\ ~known[x]
  <2>1. /\ CanInsert(plan[x])
        /\ txPlan' = [txPlan EXCEPT ![Tx(x)] = plan[x]]
        /\ txState' = [txState EXCEPT ![Tx(x)] = "prepared"]
        /\ opState' = [k \in Keys |-> IF k \in KeySet(plan[x]) THEN "prepared" ELSE opState[k]]
        /\ UNCHANGED <<content, inFlight, plan, known>>
        /\ pc' = [pc EXCEPT ![x] = "create"]
    BY <1>4 DEF Journal, InsertPlan, Go, providerVars, Tx
  <2>2. txPlan[Tx(x)] = NoPlan /\ \A k \in KeySet(plan[x]) : opState[k] = "absent"
    BY <2>1 DEF CanInsert, Known, Tx
  <2>3. /\ txPlan'[Tx(x)] = plan[x]
        /\ \A t \in Transactions \ {Tx(x)} : txPlan'[t] = txPlan[t] /\ txState'[t] = txState[t]
    BY <1>1, <2>1 DEF TypeInv, TypeOK, JournalTypeOK
  <2>4. \A y \in Executors : BoundToJournal(y)'
    <3>1. ASSUME NEW y \in Executors \ {x} PROVE BoundToJournal(y)'
      <4>1. pc'[y] = pc[y] /\ plan'[y] = plan[y] /\ known'[y] = known[y] /\ BoundToJournal(y)
        BY <2>1 DEF JournalInv, TypeInv, TypeOK
      <4>2. CASE pc[y] \notin {"idle", "begin"} \/ (pc[y] = "begin" /\ known[y])
        <5>1. txPlan[Tx(y)] = plan[y] /\ plan[y] \in Plans /\ Tx(y) \in Transactions
          BY <4>1, <4>2, KeyFacts DEF BoundToJournal, Busy
        <5>2. Tx(y) # Tx(x)
          BY <2>2, <5>1, PlansAssumption
        <5> QED BY <2>3, <4>1, <5>1, <5>2 DEF BoundToJournal, Tx
      <4>3. CASE ~(pc[y] \notin {"idle", "begin"} \/ (pc[y] = "begin" /\ known[y]))
        BY <4>1, <4>3 DEF BoundToJournal
      <4> QED BY <4>2, <4>3
    <3>2. BoundToJournal(x)'
      BY <2>1, <2>3 DEF BoundToJournal, Tx
    <3> QED BY <3>1, <3>2
  <2>5. ASSUME NEW t \in Transactions PROVE RowsOfPlan(t)'
    <3>1. CASE t = Tx(x)
      BY <1>1, <2>1, <2>3, <3>1, PlansAssumption DEF RowsOfPlan, Tx
    <3>2. CASE t # Tx(x)
      <4>1. RowsOfPlan(t)
        BY DEF JournalInv
      <4>2. txPlan[t] # NoPlan => txPlan[t] \in Plans /\ KeySet(txPlan[t]) \subseteq Keys
        BY PlanFacts DEF TypeInv, TypeOK, JournalTypeOK
      <4> QED BY <2>1, <2>3, <3>2, <4>1, <4>2 DEF RowsOfPlan
    <3> QED BY <3>1, <3>2
  <2>6. KeysAreExclusive'
    <3>1. \A t \in Transactions : txPlan[t] # NoPlan => KeySet(txPlan[t]) \cap KeySet(plan[x]) = {}
      BY <2>2 DEF JournalInv, RowsOfPlan
    <3>2. KeysAreExclusive
      BY DEF JournalInv
    <3> QED BY <2>3, <3>1, <3>2 DEF KeysAreExclusive
  <2>7. EffectsAreJournaled'
    <3>1. \A t \in Transactions : txPlan[t] # NoPlan => txPlan'[t] = txPlan[t]
      BY <2>2, <2>3
    <3>2. EffectsAreJournaled /\ UNCHANGED <<content, inFlight>>
      BY <2>1 DEF JournalInv
    <3>3. ASSUME NEW k \in Keys, content'[k] # "none" \/ k \in inFlight'
          PROVE  \E t \in Transactions : txPlan'[t] # NoPlan /\ k \in KeySet(txPlan'[t])
      <4>1. PICK t \in Transactions : txPlan[t] # NoPlan /\ k \in KeySet(txPlan[t])
        BY <3>2, <3>3 DEF EffectsAreJournaled
      <4> QED BY <3>1, <4>1
    <3> QED BY <3>3 DEF EffectsAreJournaled
  <2> QED BY <2>4, <2>5, <2>6, <2>7 DEF JournalInv
<1> QED BY <1>2, <1>3, <1>4

LEMMA JournalStepOthers ==
    ASSUME TypeInv, JournalInv,
           \/ \E x \in Executors : (\E p \in Plans : Begin(x, p)) \/ Crash(x)
           \/ \E k \in Keys : Arrive(k) \/ Edit(k)
    PROVE  JournalInv'
<1>1. ASSUME NEW x \in Executors, NEW p \in Plans, Begin(x, p) PROVE JournalInv'
  <2>1. /\ UNCHANGED <<txPlan, txState, opState, content, inFlight>>
        /\ pc' = [pc EXCEPT ![x] = "begin"] /\ plan' = [plan EXCEPT ![x] = p]
        /\ known' = [known EXCEPT ![x] = Known(TxOf[p])]
        /\ Known(TxOf[p]) => txPlan[TxOf[p]] = p
    BY <1>1 DEF Begin, Go, Admits, journalVars, providerVars
  <2>2. \A y \in Executors : BoundToJournal(y)'
    BY <2>1 DEF JournalInv, BoundToJournal, Tx, TypeInv, TypeOK
  <2> QED BY <2>1, <2>2, JournalKept
<1>2. ASSUME NEW x \in Executors, Crash(x) PROVE JournalInv'
  <2>1. /\ UNCHANGED <<txPlan, txState, opState, content>> /\ Leave(x)
        /\ inFlight' = inFlight \/ (pc[x] = "create" /\ inFlight' = inFlight \cup {Key(x)})
    BY <1>2 DEF Crash, journalVars
  <2>2. \A y \in Executors : BoundToJournal(y)'
    <3>1. \A y \in Executors \ {x} : pc'[y] = pc[y] /\ plan'[y] = plan[y] /\ known'[y] = known[y]
      BY <2>1 DEF Leave, TypeInv, TypeOK
    <3>2. pc'[x] = "idle"
      BY <2>1 DEF Leave, TypeInv, TypeOK
    <3> QED BY <2>1, <3>1, <3>2 DEF JournalInv, BoundToJournal, Tx
  <2>3. \A k \in Keys : content'[k] # "none" \/ k \in inFlight' =>
           \/ content[k] # "none" \/ k \in inFlight
           \/ \E y \in Executors : pc[y] \notin {"idle", "begin"} /\ k = Key(y)
    BY <2>1
  <2> QED BY <2>1, <2>2, <2>3, JournalKept
<1>3. ASSUME NEW k \in Keys, Arrive(k) \/ Edit(k) PROVE JournalInv'
  <2>1. /\ UNCHANGED <<txPlan, txState, opState, pc, plan, known>>
        /\ \A l \in Keys : content'[l] # "none" \/ l \in inFlight' =>
                              content[l] # "none" \/ l \in inFlight
    BY <1>3 DEF Arrive, Edit, CreateOnce, journalVars, executorVars, TypeInv, TypeOK
  <2>2. \A y \in Executors : BoundToJournal(y)'
    BY <2>1 DEF JournalInv, BoundToJournal, Tx
  <2> QED BY <2>1, <2>2, JournalKept
<1> QED BY <1>1, <1>2, <1>3

LEMMA JournalInvInit == Init => JournalInv
  BY DEF Init, JournalInit, JournalInv, BoundToJournal, RowsOfPlan, KeysAreExclusive, EffectsAreJournaled

LEMMA JournalNext == TypeInv /\ JournalInv /\ [Next]_vars => JournalInv'
<1>1. TypeInv /\ JournalInv /\ Next => JournalInv'
  <2>1. ASSUME TypeInv, JournalInv, NEW x \in Executors, Execute(x), pc[x] = "begin"
        PROVE  Journal(x) \/ JournalRefuses(x)
    BY <2>1 DEF Execute, Create, CreateTimesOut, Fetch, RecordWrite, ReadBack, MatchReadback, Verify,
                CallFails, Fail, CheckCompletion, Complete, Go
  <2> QED BY <2>1, JournalStepExecute, JournalStepBegin, JournalStepOthers DEF Next
<1>2. TypeInv /\ JournalInv /\ UNCHANGED vars => JournalInv'
  BY DEF JournalInv, BoundToJournal, RowsOfPlan, KeysAreExclusive, EffectsAreJournaled, Tx,
         vars, journalVars, executorVars, providerVars
<1> QED BY <1>1, <1>2

LEMMA JournalInvariant == Spec => []JournalInv
  BY TypeCorrect, JournalInvInit, JournalNext, PTL DEF Spec

\* The provider holds, or may still receive, only tasks of journaled plans --
\* with any number of executors racing on any transactions, and with crashes.
THEOREM EffectsCorrect == Spec => []EffectsAreJournaled
<1>1. JournalInv => EffectsAreJournaled
  BY DEF JournalInv
<1> QED BY <1>1, JournalInvariant, PTL

\* An executor past begin() executes the plan its transaction is journaled with.
THEOREM IdentityCorrect == Spec => []ExecutesJournaledPlan
<1>1. JournalInv => ExecutesJournaledPlan
  BY DEF JournalInv, BoundToJournal, ExecutesJournaledPlan
<1> QED BY <1>1, JournalInvariant, PTL

\* No idempotency key belongs to two journaled transactions.
THEOREM KeysCorrect == Spec => []KeysAreExclusive
<1>1. JournalInv => KeysAreExclusive
  BY DEF JournalInv
<1> QED BY <1>1, JournalInvariant, PTL

-----------------------------------------------------------------------------
(* What holds while nobody executes a transaction that is being executed     *)
(* (Exclusive): a completed transaction is verified and final, evidence      *)
(* agrees, and ExactTransaction is implemented.                              *)

Running(x) == pc[x] \notin {"idle", "begin"}

\* What an executor has achieved when it is about to make a call: the operations
\* before its current one are verified, the task of a fetched one exists, and a
\* readback about to be recorded matches the write the journal holds.
Achieved(x) ==
    /\ pc[x] = "begin" => step[x] = 1
    /\ Running(x) => \A i \in 1..Len(KeysOf[plan[x]]) :
                        i < step[x] => opState[KeysOf[plan[x]][i]] = "verified"
    /\ pc[x] \in {"check", "complete"} => AllVerified(plan[x])
    /\ pc[x] \in {"fetch", "record", "read", "match", "verify"} => content[Key(x)] # "none"
    /\ pc[x] = "verify" => opState[Key(x)] = "written" /\ writeDigest[Key(x)] = readBack[x]

ExecutionInv ==
    /\ \A x, y \in Executors : Busy(x) /\ Busy(y) /\ x # y => Tx(x) # Tx(y)
    /\ \A x \in Executors : Busy(x) => txState[Tx(x)] # "completed"
    /\ \A x \in Executors : Achieved(x)
    /\ CompletedIsVerified
    /\ EvidenceAgrees

\* The operations of a running executor are those of its transaction, so no other
\* transaction's and no other running executor's.
LEMMA OwnKeys ==
    ASSUME TypeInv, JournalInv, ExecutionInv, NEW x \in Executors, Running(x)
    PROVE  /\ txPlan[Tx(x)] = plan[x] /\ Tx(x) \in Transactions /\ plan[x] \in Plans
           /\ Key(x) \in Keys /\ Key(x) \in KeySet(plan[x])
           /\ \A t \in Transactions \ {Tx(x)} :
                 txPlan[t] # NoPlan => KeySet(plan[x]) \cap KeySet(txPlan[t]) = {}
           /\ \A y \in Executors \ {x} :
                 Running(y) => KeySet(plan[x]) \cap KeySet(plan[y]) = {}
<1>1. Busy(x)
  BY DEF Running, Busy
<1>2. /\ Tx(x) \in Transactions /\ plan[x] \in Plans
      /\ Key(x) \in Keys /\ Key(x) \in KeySet(plan[x])
  BY <1>1, KeyFacts
<1>3. txPlan[Tx(x)] = plan[x]
  BY DEF JournalInv, BoundToJournal, Running
<1>4. \A t \in Transactions \ {Tx(x)} :
         txPlan[t] # NoPlan => KeySet(plan[x]) \cap KeySet(txPlan[t]) = {}
  BY <1>2, <1>3, PlansAssumption DEF JournalInv, KeysAreExclusive
<1>5. ASSUME NEW y \in Executors \ {x}, Running(y)
      PROVE  KeySet(plan[x]) \cap KeySet(plan[y]) = {}
  <2>1. Busy(y) /\ txPlan[Tx(y)] = plan[y]
    BY <1>5 DEF JournalInv, BoundToJournal, Running, Busy
  <2>2. Tx(y) \in Transactions /\ plan[y] \in Plans
    BY <2>1, KeyFacts
  <2>3. Tx(y) # Tx(x)
    BY <1>1, <2>1 DEF ExecutionInv
  <2> QED BY <1>4, <2>1, <2>2, <2>3, PlansAssumption
<1> QED BY <1>2, <1>3, <1>4, <1>5

\* A step of running executor x on its current operation.
LEMMA RunningStep ==
    ASSUME TypeInv, JournalInv, ExecutionInv, NEW x \in Executors, Running(x),
           UNCHANGED txPlan,
           \A t \in Transactions \ {Tx(x)} : txState'[t] = txState[t],
           txState'[Tx(x)] = "completed" => AllVerified(plan[x]) /\ opState' = opState,
           \A k \in Keys \ {Key(x)} : /\ opState'[k] = opState[k]
                                      /\ writeDigest'[k] = writeDigest[k]
                                      /\ readDigest'[k] = readDigest[k],
           opState'[Key(x)] = "verified" =>
              readDigest'[Key(x)] = writeDigest'[Key(x)] /\ content'[Key(x)] # "none",
           \A k \in Keys : content[k] # "none" => content'[k] # "none",
           \A y \in Executors \ {x} : /\ pc'[y] = pc[y] /\ plan'[y] = plan[y] /\ step'[y] = step[y]
                                      /\ readBack'[y] = readBack[y],
           \/ pc'[x] = "idle"
           \/ Running(x)' /\ plan'[x] = plan[x] /\ txState'[Tx(x)] # "completed" /\ Achieved(x)'
    PROVE  ExecutionInv'
<1>1. /\ txPlan[Tx(x)] = plan[x] /\ Tx(x) \in Transactions /\ plan[x] \in Plans
      /\ Key(x) \in Keys /\ Key(x) \in KeySet(plan[x])
  BY OwnKeys
<1>2. ASSUME NEW y \in Executors \ {x}, Busy(y)
      PROVE  Tx(y)' = Tx(y) /\ Tx(y) \in Transactions /\ Tx(y) # Tx(x)
  BY <1>2, KeyFacts DEF ExecutionInv, Tx, Busy, Running
<1>3. \A y, z \in Executors : Busy(y)' /\ Busy(z)' /\ y # z => Tx(y)' # Tx(z)'
  BY <1>2 DEF ExecutionInv, Busy, Tx, Running
<1>4. \A y \in Executors : Busy(y)' => txState'[Tx(y)'] # "completed"
  BY <1>2 DEF ExecutionInv, Busy, Tx, Running
<1>5. ASSUME NEW y \in Executors PROVE Achieved(y)'
  <2>1. CASE y = x
    BY <2>1 DEF Achieved, Running
  <2>2. CASE y # x /\ pc[y] \in {"idle", "begin"}
    BY <2>2 DEF ExecutionInv, Achieved, Running
  <2>3. CASE y # x /\ Running(y)
    <3>1. KeySet(plan[y]) \subseteq Keys \ {Key(x)} /\ plan[y] \in Plans
      <4>1. plan[y] \in Plans
        BY <2>3, OwnKeys
      <4>2. KeySet(plan[x]) \cap KeySet(plan[y]) = {}
        BY <2>3, OwnKeys
      <4>3. KeySet(plan[y]) \subseteq Keys
        BY <4>1, PlanFacts
      <4> QED BY <1>1, <4>1, <4>2, <4>3
    <3>2. \A i \in 1..Len(KeysOf[plan[y]]) : KeysOf[plan[y]][i] \in KeySet(plan[y])
      BY <3>1, PlanFacts
    <3>3. Key(y) \in KeySet(plan[y]) /\ Key(y)' = Key(y)
      BY <2>3, OwnKeys DEF Key
    <3>4. Achieved(y)
      BY DEF ExecutionInv
    <3> QED BY <2>3, <3>1, <3>2, <3>3, <3>4 DEF Achieved, AllVerified, Running
  <2> QED BY <2>1, <2>2, <2>3 DEF Running
<1>6. CompletedIsVerified'
  <2>1. ASSUME NEW t \in Transactions, txState'[t] = "completed", NEW k \in KeySet(txPlan[t])
        PROVE  opState'[k] = "verified"
    <3>1. CASE t = Tx(x)
      BY <1>1, <2>1, <3>1 DEF AllVerified
    <3>2. CASE t # Tx(x)
      <4>1. txState[t] = "completed" /\ opState[k] = "verified"
        BY <2>1, <3>2 DEF ExecutionInv, CompletedIsVerified
      <4>2. txPlan[t] # NoPlan
        BY <4>1 DEF JournalInv, RowsOfPlan
      <4>3. k # Key(x) /\ k \in Keys
        BY <1>1, <2>1, <3>2, <4>2, OwnKeys, PlanFacts DEF TypeInv, TypeOK, JournalTypeOK
      <4> QED BY <4>1, <4>3
    <3> QED BY <3>1, <3>2
  <2> QED BY <2>1 DEF CompletedIsVerified
<1>7. EvidenceAgrees'
  BY DEF ExecutionInv, EvidenceAgrees
<1> QED BY <1>3, <1>4, <1>5, <1>6, <1>7 DEF ExecutionInv

\* What leaving execute() means for the memory of the executors.
LEMMA LeaveMemory ==
    ASSUME TypeInv, NEW x \in Executors, Leave(x)
    PROVE  /\ pc'[x] = "idle"
           /\ \A y \in Executors \ {x} : /\ pc'[y] = pc[y] /\ plan'[y] = plan[y] /\ step'[y] = step[y]
                                         /\ readBack'[y] = readBack[y]
  BY DEF TypeInv, TypeOK, Leave

\* Every step of execute() on an operation.
LEMMA ExecutionStepOperation ==
    ASSUME TypeInv, JournalInv, ExecutionInv, NEW x \in Executors,
           \/ Create(x) \/ CreateTimesOut(x) \/ Fetch(x) \/ RecordWrite(x)
           \/ ReadBack(x) \/ MatchReadback(x) \/ Verify(x) \/ CallFails(x) \/ Fail(x)
    PROVE  ExecutionInv'
<1>1. Running(x) /\ Busy(x)
  BY DEF Create, CreateTimesOut, Fetch, RecordWrite, ReadBack, MatchReadback, Verify, CallFails, Fail,
         Go, Running, Busy
<1>2. /\ Tx(x) \in Transactions /\ plan[x] \in Plans /\ Key(x) \in Keys
      /\ txState[Tx(x)] # "completed" /\ Achieved(x) /\ EvidenceAgrees
  BY <1>1, OwnKeys DEF ExecutionInv
<1>3. /\ Len(KeysOf[plan[x]]) \in Nat /\ step[x] \in 1..Len(KeysOf[plan[x]])
      /\ \A i \in 1..Len(KeysOf[plan[x]]) : KeysOf[plan[x]][i] \in Keys
      /\ \A i \in 1..Len(KeysOf[plan[x]]) : i # step[x] => KeysOf[plan[x]][i] # Key(x)
  BY <1>1, <1>2, PlanFacts, PlansAssumption DEF TypeInv, LocalsOK, Busy, Key
<1>4. /\ JournalTypeOK /\ content \in [Keys -> Contents]
      /\ pc \in [Executors -> Stages] /\ plan \in [Executors -> Plans \cup {NoPlan}]
      /\ step \in [Executors -> Nat] /\ readBack \in [Executors -> Contents]
  BY DEF TypeInv, TypeOK
<1>5. CASE Create(x)
  <2>1. /\ UNCHANGED <<txPlan, txState, opState, writeDigest, readDigest, plan, step, readBack>>
        /\ pc' = [pc EXCEPT ![x] = "fetch"] /\ pc[x] = "create" /\ CreateOnce(Key(x))
    BY <1>5 DEF Create, Go, journalVars
  <2>2. content'[Key(x)] # "none" /\ \A k \in Keys : content[k] # "none" => content'[k] # "none"
    BY <1>2, <1>4, <2>1 DEF CreateOnce
  <2>3. Running(x)' /\ Achieved(x)'
    BY <1>2, <1>4, <2>1, <2>2 DEF Running, Achieved, AllVerified, Key
  <2>4. opState'[Key(x)] = "verified" =>
           readDigest'[Key(x)] = writeDigest'[Key(x)] /\ content'[Key(x)] # "none"
    BY <1>2, <2>1, <2>2 DEF EvidenceAgrees
  <2> QED BY <1>1, <1>2, <1>4, <2>1, <2>2, <2>3, <2>4, RunningStep
<1>6. CASE CreateTimesOut(x) \/ Fetch(x) \/ ReadBack(x) \/ MatchReadback(x) \/ CallFails(x)
  <2>1. /\ UNCHANGED <<txPlan, txState, opState, writeDigest, readDigest, content, plan, step>>
        /\ \A y \in Executors \ {x} : pc'[y] = pc[y] /\ readBack'[y] = readBack[y]
        /\ pc'[x] \in {"fail", "record", "match", "verify"}
    BY <1>4, <1>6 DEF CreateTimesOut, Fetch, ReadBack, MatchReadback, CallFails, Go, journalVars,
                      providerVars
  <2>2. pc'[x] \in {"record", "match", "verify"} => content[Key(x)] # "none"
    BY <1>2, <1>4, <1>6 DEF CreateTimesOut, Fetch, ReadBack, MatchReadback, CallFails, Go, Achieved
  <2>3. pc'[x] = "verify" => opState[Key(x)] = "written" /\ writeDigest[Key(x)] = readBack'[x]
    BY <1>4, <1>6 DEF CreateTimesOut, Fetch, ReadBack, MatchReadback, CallFails, Go, MatchesWrite
  <2>4. Running(x)' /\ Achieved(x)'
    BY <1>1, <1>2, <2>1, <2>2, <2>3 DEF Running, Achieved, AllVerified, Key
  <2>5. opState'[Key(x)] = "verified" =>
           readDigest'[Key(x)] = writeDigest'[Key(x)] /\ content'[Key(x)] # "none"
    BY <1>2, <2>1 DEF EvidenceAgrees
  <2> QED BY <1>1, <1>2, <2>1, <2>4, <2>5, RunningStep
<1>7. CASE RecordWrite(x)
  <2>1. /\ UNCHANGED <<txPlan, readDigest, content, plan, step, readBack>>
        /\ pc' = [pc EXCEPT ![x] = "read"] /\ pc[x] = "record"
        /\ txState' = [txState EXCEPT ![Tx(x)] = "executing"]
        /\ opState' = [opState EXCEPT ![Key(x)] = "written"]
        /\ writeDigest' = [writeDigest EXCEPT ![Key(x)] = wrote[x]]
    BY <1>7 DEF RecordWrite, Go, JournalWrite, providerVars
  <2>2. /\ \A t \in Transactions \ {Tx(x)} : txState'[t] = txState[t]
        /\ txState'[Tx(x)] = "executing" /\ opState'[Key(x)] = "written"
        /\ \A k \in Keys \ {Key(x)} : opState'[k] = opState[k] /\ writeDigest'[k] = writeDigest[k]
    BY <1>2, <1>4, <2>1 DEF JournalTypeOK
  <2>3. Running(x)' /\ Achieved(x)'
    <3>1. pc'[x] = "read" /\ content[Key(x)] # "none"
      BY <1>2, <1>4, <2>1 DEF Achieved
    <3>2. \A i \in 1..Len(KeysOf[plan[x]]) : i < step[x] => opState'[KeysOf[plan[x]][i]] = "verified"
      BY <1>1, <1>2, <1>3, <2>2 DEF Achieved
    <3> QED BY <2>1, <3>1, <3>2 DEF Running, Achieved, Key
  <2> QED BY <1>1, <1>2, <1>4, <2>1, <2>2, <2>3, RunningStep
<1>8. CASE Verify(x)
  <2>1. /\ UNCHANGED <<txPlan, txState, writeDigest, content, plan>>
        /\ pc[x] = "verify"
        /\ opState' = [opState EXCEPT ![Key(x)] = "verified"]
        /\ readDigest' = [readDigest EXCEPT ![Key(x)] = readBack[x]]
        /\ readBack' = [readBack EXCEPT ![x] = "none"]
    BY <1>8 DEF Verify, Go, JournalReadback, providerVars
  <2>2. /\ opState'[Key(x)] = "verified" /\ readDigest'[Key(x)] = readBack[x]
        /\ \A k \in Keys \ {Key(x)} : opState'[k] = opState[k] /\ readDigest'[k] = readDigest[k]
    BY <1>2, <1>4, <2>1 DEF JournalTypeOK
  <2>3. readDigest'[Key(x)] = writeDigest'[Key(x)] /\ content'[Key(x)] # "none"
    BY <1>2, <2>1, <2>2 DEF Achieved
  <2>4. \A i \in 1..Len(KeysOf[plan[x]]) : i < step[x] + 1 => opState'[KeysOf[plan[x]][i]] = "verified"
    BY <1>1, <1>2, <1>3, <2>2 DEF Achieved, Key
  <2>5. CASE step[x] = Len(KeysOf[plan[x]])
    <3>1. pc' = [pc EXCEPT ![x] = "check"] /\ step' = [step EXCEPT ![x] = step[x]]
      BY <1>8, <2>5 DEF Verify, Go
    <3>2. AllVerified(plan[x])'
      BY <1>3, <2>1, <2>4, <2>5 DEF AllVerified, KeySet
    <3>3. Running(x)' /\ Achieved(x)'
      <4>1. pc'[x] = "check" /\ step'[x] = step[x] /\ plan'[x] = plan[x]
        BY <1>4, <2>1, <3>1
      <4>2. \A i \in 1..Len(KeysOf[plan[x]]) : i < step[x] => opState'[KeysOf[plan[x]][i]] = "verified"
        BY <1>3, <2>4
      <4> QED BY <3>2, <4>1, <4>2 DEF Running, Achieved
    <3> QED BY <1>1, <1>2, <1>4, <2>1, <2>2, <2>3, <3>1, <3>3, RunningStep
  <2>6. CASE step[x] # Len(KeysOf[plan[x]])
    <3>1. pc' = [pc EXCEPT ![x] = "create"] /\ step' = [step EXCEPT ![x] = step[x] + 1]
      BY <1>8, <2>6 DEF Verify, Go
    <3>2. Running(x)' /\ Achieved(x)'
      BY <1>3, <1>4, <2>1, <2>4, <3>1 DEF Running, Achieved
    <3> QED BY <1>1, <1>2, <1>4, <2>1, <2>2, <2>3, <3>1, <3>2, RunningStep
  <2> QED BY <2>5, <2>6
<1>9. CASE Fail(x)
  <2>1. /\ UNCHANGED <<txPlan, writeDigest, readDigest, content>> /\ Leave(x)
        /\ txState' = [txState EXCEPT ![Tx(x)] = "failed"]
        /\ opState' = [opState EXCEPT ![Key(x)] = "failed"]
    BY <1>9 DEF Fail, JournalFailure, providerVars
  <2>2. /\ \A t \in Transactions \ {Tx(x)} : txState'[t] = txState[t]
        /\ txState'[Tx(x)] = "failed" /\ opState'[Key(x)] = "failed"
        /\ \A k \in Keys \ {Key(x)} : opState'[k] = opState[k]
    BY <1>2, <1>4, <2>1 DEF JournalTypeOK
  <2> QED BY <1>1, <1>2, <2>1, <2>2, LeaveMemory, RunningStep
<1> QED BY <1>5, <1>6, <1>7, <1>8, <1>9

\* complete(), and a crash: the journal's operations stay as they are.
LEMMA ExecutionStepCompletion ==
    ASSUME TypeInv, JournalInv, ExecutionInv, NEW x \in Executors,
           CheckCompletion(x) \/ Complete(x) \/ (Running(x) /\ Crash(x))
    PROVE  ExecutionInv'
<1>1. Running(x)
  BY DEF CheckCompletion, Complete, Running
<1>2. /\ Tx(x) \in Transactions /\ Key(x) \in Keys
      /\ txState[Tx(x)] # "completed" /\ Achieved(x) /\ EvidenceAgrees
  BY <1>1, OwnKeys DEF ExecutionInv, Running, Busy
<1>3. /\ UNCHANGED <<txPlan, opState, writeDigest, readDigest, content>>
      /\ \/ UNCHANGED txState
         \/ pc[x] = "complete" /\ txState' = [txState EXCEPT ![Tx(x)] = "completed"]
      /\ \/ Leave(x)
         \/ /\ pc[x] = "check" /\ AllVerified(plan[x]) /\ pc' = [pc EXCEPT ![x] = "complete"]
            /\ UNCHANGED <<txState, plan, step, readBack>>
  BY DEF CheckCompletion, Complete, Crash, JournalCompletion, Go, journalVars, providerVars
<1>4. \A t \in Transactions \ {Tx(x)} : txState'[t] = txState[t]
  BY <1>2, <1>3 DEF TypeInv, TypeOK, JournalTypeOK
<1>5. txState'[Tx(x)] = "completed" => AllVerified(plan[x]) /\ opState' = opState
  BY <1>2, <1>3 DEF Achieved
<1>6. opState'[Key(x)] = "verified" =>
         readDigest'[Key(x)] = writeDigest'[Key(x)] /\ content'[Key(x)] # "none"
  BY <1>2, <1>3 DEF EvidenceAgrees
<1>7. CASE Leave(x)
  BY <1>1, <1>3, <1>4, <1>5, <1>6, <1>7, LeaveMemory, RunningStep
<1>8. CASE ~Leave(x)
  <2>1. /\ \A y \in Executors \ {x} : pc'[y] = pc[y]
        /\ pc'[x] = "complete" /\ UNCHANGED <<txState, plan, step, readBack>>
        /\ pc[x] = "check" /\ AllVerified(plan[x])
    BY <1>3, <1>8 DEF TypeInv, TypeOK
  <2>2. Running(x)' /\ Achieved(x)'
    BY <1>1, <1>2, <1>3, <2>1 DEF Running, Achieved, AllVerified
  <2> QED BY <1>1, <1>2, <1>3, <1>4, <1>5, <1>6, <2>1, <2>2, RunningStep
<1> QED BY <1>7, <1>8

\* begin(): a transaction becomes busy, and the operations it stores are new.
LEMMA ExecutionStepBegin ==
    ASSUME TypeInv, JournalInv, ExecutionInv, Exclusive, NEW x \in Executors, NEW p \in Plans, Begin(x, p)
    PROVE  ExecutionInv'
<1>1. /\ pc[x] = "idle" /\ step[x] = 1
      /\ pc' = [pc EXCEPT ![x] = "begin"] /\ plan' = [plan EXCEPT ![x] = p]
      /\ UNCHANGED <<txPlan, txState, opState, writeDigest, readDigest, content, step, readBack>>
      /\ \A y \in Executors : Busy(y) => Tx(y) # TxOf[p]
  BY DEF Begin, Go, TypeInv, LocalsOK, journalVars, providerVars
<1>2. txState[TxOf[p]] # "completed"
  <2>1. Known(TxOf[p]) => txState[TxOf[p]] # "completed"
    BY DEF Begin, Admits
  <2>2. TxOf[p] \in Transactions
    BY PlanFacts
  <2> QED BY <2>1, <2>2 DEF Known, JournalInv, RowsOfPlan
<1>3. /\ pc'[x] = "begin" /\ plan'[x] = p
      /\ \A y \in Executors \ {x} : pc'[y] = pc[y] /\ plan'[y] = plan[y]
  BY <1>1 DEF TypeInv, TypeOK
<1>4. \A y, z \in Executors : Busy(y)' /\ Busy(z)' /\ y # z => Tx(y)' # Tx(z)'
  BY <1>1, <1>3 DEF ExecutionInv, Busy, Tx
<1>5. \A y \in Executors : Busy(y)' => txState'[Tx(y)'] # "completed"
  BY <1>1, <1>2, <1>3 DEF ExecutionInv, Busy, Tx
<1>6. \A y \in Executors : Achieved(y)'
  BY <1>1, <1>3 DEF ExecutionInv, Achieved, Running, AllVerified, Key
<1>7. CompletedIsVerified' /\ EvidenceAgrees'
  BY <1>1 DEF ExecutionInv, CompletedIsVerified, EvidenceAgrees
<1> QED BY <1>4, <1>5, <1>6, <1>7 DEF ExecutionInv

LEMMA ExecutionStepJournal ==
    ASSUME TypeInv, JournalInv, ExecutionInv, NEW x \in Executors, Journal(x)
    PROVE  ExecutionInv'
<1>1. /\ pc[x] = "begin" /\ step[x] = 1 /\ Busy(x)
      /\ plan[x] \in Plans /\ Tx(x) \in Transactions
      /\ UNCHANGED <<writeDigest, readDigest, content, plan, step, readBack>>
      /\ pc' = [pc EXCEPT ![x] = "create"]
      /\ txState' = [txState EXCEPT ![Tx(x)] = "prepared"]
  BY KeyFacts DEF Journal, PrepareAgain, InsertPlan, Go, Busy, Tx, ExecutionInv, Achieved, providerVars
<1>2. /\ \/ UNCHANGED <<txPlan, opState>>
         \/ /\ txPlan' = [txPlan EXCEPT ![Tx(x)] = plan[x]] /\ CanInsert(plan[x])
            /\ opState' = [k \in Keys |-> IF k \in KeySet(plan[x]) THEN "prepared" ELSE opState[k]]
  BY DEF Journal, PrepareAgain, InsertPlan, Tx
<1>3. /\ pc'[x] = "create" /\ \A y \in Executors \ {x} : pc'[y] = pc[y]
      /\ txState'[Tx(x)] = "prepared"
      /\ \A t \in Transactions \ {Tx(x)} : txState'[t] = txState[t] /\ txPlan'[t] = txPlan[t]
  BY <1>1, <1>2 DEF TypeInv, TypeOK, JournalTypeOK
<1>4. \A k \in Keys : /\ opState[k] # "absent" => opState'[k] = opState[k]
                      /\ opState'[k] # opState[k] => opState'[k] = "prepared"
  BY <1>2 DEF CanInsert, TypeInv, TypeOK, JournalTypeOK
<1>5. \A y, z \in Executors : Busy(y)' /\ Busy(z)' /\ y # z => Tx(y)' # Tx(z)'
  BY <1>1, <1>3 DEF ExecutionInv, Busy, Tx
<1>6. ASSUME NEW y \in Executors, Busy(y)' PROVE txState'[Tx(y)'] # "completed"
  <2>1. Busy(y) /\ Tx(y)' = Tx(y) /\ Tx(y) \in Transactions
    BY <1>1, <1>3, <1>6, KeyFacts DEF Busy, Tx
  <2> QED BY <1>3, <2>1 DEF ExecutionInv
<1>7. ASSUME NEW y \in Executors PROVE Achieved(y)'
  <2>1. CASE y = x
    BY <1>1, <1>3, <2>1, PlanFacts DEF Achieved, Running
  <2>2. CASE y # x /\ ~Running(y)
    BY <1>1, <1>3, <2>2 DEF ExecutionInv, Achieved, Running
  <2>3. CASE y # x /\ Running(y)
    <3>1. plan[y] \in Plans /\ Key(y) \in Keys /\ Key(y)' = Key(y)
      BY <1>1, <2>3, OwnKeys DEF Key
    <3>2. /\ KeySet(plan[y]) \subseteq Keys
          /\ \A i \in 1..Len(KeysOf[plan[y]]) : KeysOf[plan[y]][i] \in Keys
      BY <3>1, PlanFacts
    <3>3. Achieved(y)
      BY DEF ExecutionInv
    <3> QED BY <1>1, <1>3, <1>4, <2>3, <3>1, <3>2, <3>3 DEF Achieved, AllVerified, Running
  <2> QED BY <2>1, <2>2, <2>3
<1>8. CompletedIsVerified'
  <2>1. ASSUME NEW t \in Transactions, txState'[t] = "completed", NEW k \in KeySet(txPlan'[t])
        PROVE  opState'[k] = "verified"
    <3>1. t # Tx(x) /\ txState[t] = "completed" /\ txPlan'[t] = txPlan[t]
      BY <1>3, <2>1
    <3>2. opState[k] = "verified" /\ txPlan[t] # NoPlan
      BY <2>1, <3>1 DEF ExecutionInv, CompletedIsVerified, JournalInv, RowsOfPlan
    <3>3. k \in Keys
      BY <2>1, <3>1, <3>2, PlanFacts DEF TypeInv, TypeOK, JournalTypeOK
    <3> QED BY <1>4, <3>2, <3>3
  <2> QED BY <2>1 DEF CompletedIsVerified
<1>9. EvidenceAgrees'
  BY <1>1, <1>4 DEF ExecutionInv, EvidenceAgrees
<1> QED BY <1>5, <1>6, <1>7, <1>8, <1>9 DEF ExecutionInv

\* Leaving begin(), and what the environment does.
LEMMA ExecutionStepQuiet ==
    ASSUME TypeInv, JournalInv, ExecutionInv,
           UNCHANGED <<txPlan, txState, opState, writeDigest, readDigest>>,
           \A k \in Keys : content[k] # "none" => content'[k] # "none",
           \/ UNCHANGED executorVars
           \/ \E x \in Executors : Leave(x)
    PROVE  ExecutionInv'
<1>1. \A y \in Executors : \/ pc'[y] = "idle"
                           \/ /\ pc'[y] = pc[y] /\ plan'[y] = plan[y] /\ step'[y] = step[y]
                              /\ readBack'[y] = readBack[y]
  BY LeaveMemory DEF executorVars
<1>2. \A y, z \in Executors : Busy(y)' /\ Busy(z)' /\ y # z => Tx(y)' # Tx(z)'
  BY <1>1 DEF ExecutionInv, Busy, Tx
<1>3. \A y \in Executors : Busy(y)' => txState'[Tx(y)'] # "completed"
  BY <1>1 DEF ExecutionInv, Busy, Tx
<1>4. ASSUME NEW y \in Executors PROVE Achieved(y)'
  <2>1. CASE pc'[y] = "idle"
    BY <2>1 DEF Achieved, Running
  <2>2. CASE pc'[y] # "idle"
    <3>1. Busy(y) /\ Key(y) \in Keys /\ Key(y)' = Key(y)
      BY <1>1, <2>2, KeyFacts DEF Busy, Key
    <3> QED BY <1>1, <2>2, <3>1 DEF ExecutionInv, Achieved, Running, AllVerified
  <2> QED BY <2>1, <2>2
<1>5. CompletedIsVerified' /\ EvidenceAgrees'
  BY DEF ExecutionInv, CompletedIsVerified, EvidenceAgrees
<1> QED BY <1>2, <1>3, <1>4, <1>5 DEF ExecutionInv

LEMMA ExecutionNext == ASSUME Exclusive PROVE TypeInv /\ JournalInv /\ ExecutionInv /\ [Next]_vars => ExecutionInv'
<1> SUFFICES ASSUME TypeInv, JournalInv, ExecutionInv, [Next]_vars PROVE ExecutionInv'
  OBVIOUS
<1>1. ASSUME NEW x \in Executors, NEW p \in Plans, Begin(x, p) PROVE ExecutionInv'
  BY <1>1, ExecutionStepBegin
<1>2. ASSUME NEW x \in Executors, Execute(x) PROVE ExecutionInv'
  <2>1. CASE JournalRefuses(x)
    BY <2>1, ExecutionStepQuiet DEF JournalRefuses, journalVars, providerVars
  <2> QED BY <1>2, <2>1, ExecutionStepJournal, ExecutionStepOperation, ExecutionStepCompletion DEF Execute
<1>3. ASSUME NEW x \in Executors, Crash(x) PROVE ExecutionInv'
  BY <1>3, ExecutionStepQuiet DEF Crash, journalVars
<1>4. ASSUME NEW k \in Keys, Arrive(k) \/ Edit(k) PROVE ExecutionInv'
  <2>1. /\ UNCHANGED <<txPlan, txState, opState, writeDigest, readDigest, executorVars>>
        /\ \A l \in Keys : content[l] # "none" => content'[l] # "none"
    BY <1>4 DEF Arrive, Edit, CreateOnce, journalVars, TypeInv, TypeOK
  <2> QED BY <2>1, ExecutionStepQuiet
<1>5. CASE UNCHANGED vars
  BY <1>5, ExecutionStepQuiet DEF vars, journalVars, providerVars
<1> QED BY <1>1, <1>2, <1>3, <1>4, <1>5 DEF Next

LEMMA ExecutionInit == Init => ExecutionInv
  BY DEF Init, JournalInit, ExecutionInv, Busy, Achieved, Running, CompletedIsVerified, EvidenceAgrees

LEMMA ExecutionInvariant == ASSUME Exclusive PROVE Spec => []ExecutionInv
  BY TypeCorrect, JournalInvariant, ExecutionInit, ExecutionNext, PTL DEF Spec

\* A completed transaction has every operation verified.
THEOREM CompletionCorrect == ASSUME Exclusive PROVE Spec => []CompletedIsVerified
<1>1. Spec => []ExecutionInv
  BY ExecutionInvariant
<1>2. ExecutionInv => CompletedIsVerified
  BY DEF ExecutionInv
<1> QED BY <1>1, <1>2, PTL

\* A verified operation's readback is of the write the journal holds, and the
\* provider has its task, whatever was retried, edited or lost.
THEOREM EvidenceCorrect == ASSUME Exclusive PROVE Spec => []EvidenceAgrees
<1>1. Spec => []ExecutionInv
  BY ExecutionInvariant
<1>2. ExecutionInv => EvidenceAgrees
  BY DEF ExecutionInv
<1> QED BY <1>1, <1>2, PTL

-----------------------------------------------------------------------------
(* A completed transaction is final. *)

\* Where a step may write the journal: at the current operation of a running
\* executor, or at operations that a begin() stores.
LEMMA WhereJournaled ==
    ASSUME TypeInv, JournalInv, ExecutionInv, Next
    PROVE  \/ UNCHANGED <<txState, opState, writeDigest>>
           \/ \E x \in Executors :
                 /\ Busy(x)
                 /\ \A t \in Transactions \ {Tx(x)} : txState'[t] = txState[t]
                 /\ \A k \in Keys : /\ writeDigest'[k] # writeDigest[k] => Running(x) /\ k = Key(x)
                                    /\ opState'[k] # opState[k] =>
                                          opState[k] = "absent" \/ (Running(x) /\ k = Key(x))
<1>1. ASSUME NEW x \in Executors, Execute(x)
      PROVE  /\ Busy(x)
             /\ \A t \in Transactions \ {Tx(x)} : txState'[t] = txState[t]
             /\ \A k \in Keys : /\ writeDigest'[k] # writeDigest[k] => Running(x) /\ k = Key(x)
                                /\ opState'[k] # opState[k] =>
                                      opState[k] = "absent" \/ (Running(x) /\ k = Key(x))
  <2>1. Busy(x)
    BY <1>1 DEF Execute, Journal, JournalRefuses, Create, CreateTimesOut, Fetch, RecordWrite, ReadBack,
                MatchReadback, Verify, CallFails, Fail, CheckCompletion, Complete, Go, Busy
  <2>2. /\ \/ UNCHANGED txState
           \/ \E s \in TxStates : txState' = [txState EXCEPT ![Tx(x)] = s]
        /\ \/ UNCHANGED opState
           \/ Running(x) /\ \E s \in OpStates : opState' = [opState EXCEPT ![Key(x)] = s]
           \/ /\ CanInsert(plan[x])
              /\ opState' = [k \in Keys |-> IF k \in KeySet(plan[x]) THEN "prepared" ELSE opState[k]]
        /\ \/ UNCHANGED writeDigest
           \/ Running(x) /\ \E d : writeDigest' = [writeDigest EXCEPT ![Key(x)] = d]
    BY <1>1 DEF Execute, Journal, JournalRefuses, Create, CreateTimesOut, Fetch, RecordWrite, ReadBack,
                MatchReadback, Verify, CallFails, Fail, CheckCompletion, Complete, Go, Running,
                PrepareAgain, InsertPlan, JournalWrite, JournalReadback, JournalFailure,
                JournalCompletion, journalVars, Tx, TxStates, OpStates
  <2>3. \A t \in Transactions \ {Tx(x)} : txState'[t] = txState[t]
    BY <2>2 DEF TypeInv, TypeOK, JournalTypeOK
  <2>4. \A k \in Keys : writeDigest'[k] # writeDigest[k] => Running(x) /\ k = Key(x)
    BY <2>2 DEF TypeInv, TypeOK, JournalTypeOK
  <2>5. \A k \in Keys : opState'[k] # opState[k] =>
                           opState[k] = "absent" \/ (Running(x) /\ k = Key(x))
    BY <2>2 DEF CanInsert, TypeInv, TypeOK, JournalTypeOK
  <2> QED BY <2>1, <2>3, <2>4, <2>5
<1>2. ASSUME NEW x \in Executors, (\E p \in Plans : Begin(x, p)) \/ Crash(x)
      PROVE  UNCHANGED <<txState, opState, writeDigest>>
  BY <1>2 DEF Begin, Crash, journalVars
<1>3. ASSUME NEW k \in Keys, Arrive(k) \/ Edit(k)
      PROVE  UNCHANGED <<txState, opState, writeDigest>>
  BY <1>3 DEF Arrive, Edit, journalVars
<1> QED BY <1>1, <1>2, <1>3 DEF Next

LEMMA FinalStep ==
    ASSUME TypeInv, JournalInv, ExecutionInv, Next, NEW t \in Transactions, txState[t] = "completed"
    PROVE  /\ txState'[t] = "completed"
           /\ \A k \in KeySet(txPlan[t]) : opState'[k] = opState[k] /\ writeDigest'[k] = writeDigest[k]
<1>1. /\ txPlan[t] \in Plans /\ KeySet(txPlan[t]) \subseteq Keys
      /\ \A k \in KeySet(txPlan[t]) : opState[k] # "absent"
  BY PlanFacts DEF JournalInv, RowsOfPlan, TypeInv, TypeOK, JournalTypeOK
<1>2. CASE UNCHANGED <<txState, opState, writeDigest>>
  BY <1>2
<1>3. ASSUME NEW x \in Executors, Busy(x),
             \A u \in Transactions \ {Tx(x)} : txState'[u] = txState[u],
             \A k \in Keys : /\ writeDigest'[k] # writeDigest[k] => Running(x) /\ k = Key(x)
                             /\ opState'[k] # opState[k] =>
                                   opState[k] = "absent" \/ (Running(x) /\ k = Key(x))
      PROVE  /\ txState'[t] = "completed"
             /\ \A k \in KeySet(txPlan[t]) : opState'[k] = opState[k] /\ writeDigest'[k] = writeDigest[k]
  <2>1. t # Tx(x)
    BY <1>3 DEF ExecutionInv
  <2>2. Running(x) => Key(x) \notin KeySet(txPlan[t])
    BY <1>1, <2>1, OwnKeys, PlansAssumption
  <2> QED BY <1>1, <1>3, <2>1, <2>2
<1> QED BY <1>2, <1>3, WhereJournaled

\* "completed transaction cannot be executed again": its rows never change again.
THEOREM FinalityCorrect == ASSUME Exclusive PROVE Spec => CompletedIsFinal
<1>1. TypeInv /\ JournalInv /\ ExecutionInv /\ [Next]_vars =>
        [\A t \in Transactions : txState[t] = "completed" =>
          /\ txState'[t] = "completed"
          /\ \A k \in KeySet(txPlan[t]) : opState'[k] = opState[k]
                                          /\ writeDigest'[k] = writeDigest[k]]_vars
  BY FinalStep
<1>2. Spec => []ExecutionInv
  BY ExecutionInvariant
<1> QED BY TypeCorrect, JournalInvariant, <1>1, <1>2, PTL DEF Spec, CompletedIsFinal

\* All tasks of a completed transaction exist, so nothing is created for it.
LEMMA CompletedHasTakenEffect ==
    ASSUME ExecutionInv, JournalInv, TypeInv, NEW t \in Transactions, txState[t] = "completed"
    PROVE  txPlan[t] \in Plans /\ \A k \in KeySet(txPlan[t]) : k \in Keys /\ content[k] # "none"
<1>1. txPlan[t] \in Plans
  BY DEF JournalInv, RowsOfPlan, TypeInv, TypeOK, JournalTypeOK
<1>2. KeySet(txPlan[t]) \subseteq Keys
  BY <1>1, PlanFacts
<1> QED BY <1>1, <1>2 DEF ExecutionInv, CompletedIsVerified, EvidenceAgrees

\* A create request that was given up and arrives after completion has no effect.
THEOREM NoLateEffectCorrect == ASSUME Exclusive PROVE Spec => NoEffectAfterCompletion
<1>1. TypeInv /\ JournalInv /\ ExecutionInv /\ [Next]_vars =>
        [\A t \in Transactions : txState[t] = "completed" =>
          \A k \in KeySet(txPlan[t]) : content[k] = "none" => content'[k] = "none"]_vars
  BY CompletedHasTakenEffect
<1>2. Spec => []ExecutionInv
  BY ExecutionInvariant
<1> QED BY TypeCorrect, JournalInvariant, <1>1, <1>2, PTL DEF Spec, NoEffectAfterCompletion

-----------------------------------------------------------------------------
(* AttendedExecution implements ExactTransaction. *)

Begun == {txPlan[t] : t \in {u \in Transactions : txPlan[u] # NoPlan}}
Created == {k \in Keys : content[k] # "none"}
Done == {t \in Transactions : txState[t] = "completed"}

Refined == [Promise!PromiseNext]_<<Begun, Created, Done>>

LEMMA BegunFacts ==
    ASSUME TypeInv, JournalInv, NEW p \in Begun
    PROVE  p \in Plans /\ TxOf[p] \in Transactions /\ txPlan[TxOf[p]] = p
  BY PlanFacts DEF Begun, JournalInv, RowsOfPlan, TypeInv, TypeOK, JournalTypeOK

\* The abstract actions, in the vocabulary of this module.
LEMMA BeginPlanIs ==
    ASSUME NEW p
    PROVE  Promise!BeginPlan(p) <=>
             /\ \A q \in Begun : TxOf[q] # TxOf[p] /\ KeySet(q) \cap KeySet(p) = {}
             /\ Begun' = Begun \cup {p}
             /\ Created' = Created /\ Done' = Done
  BY Zenon DEF Promise!BeginPlan, Promise!KeysOfPlan, KeySet, Begun, Created, Done

LEMMA FinishIs ==
    ASSUME NEW p
    PROVE  Promise!Finish(p) <=>
             /\ p \in Begun /\ TxOf[p] \notin Done /\ KeySet(p) \subseteq Created
             /\ Done' = Done \cup {TxOf[p]}
             /\ Begun' = Begun /\ Created' = Created
  BY Zenon DEF Promise!Finish, Promise!KeysOfPlan, KeySet, Begun, Created, Done

\* The provider creates a task nobody had created: for a begun plan, not yet done.
LEMMA RefineCreate ==
    ASSUME TypeInv, JournalInv, ExecutionInv, UNCHANGED <<txPlan, txState>>, NEW k \in Keys,
           CreateOnce(k),
           \E t \in Transactions : txPlan[t] # NoPlan /\ k \in KeySet(txPlan[t])
    PROVE  Refined
<1>1. Begun' = Begun /\ Done' = Done
  BY DEF Begun, Done
<1>2. CASE content[k] # "none"
  <2>1. UNCHANGED content
    BY <1>2 DEF CreateOnce, TypeInv, TypeOK
  <2> QED BY <1>1, <2>1 DEF Refined, Created
<1>3. CASE content[k] = "none"
  <2>1. Created' = Created \cup {k} /\ k \notin Created
    BY <1>3 DEF CreateOnce, Created, TypeInv, TypeOK
  <2>2. PICK t \in Transactions : txPlan[t] # NoPlan /\ k \in KeySet(txPlan[t])
    OBVIOUS
  <2>3. txPlan[t] \in Begun /\ TxOf[txPlan[t]] = t
    BY <2>2 DEF Begun, JournalInv, RowsOfPlan
  <2>4. t \notin Done
    BY <1>3, <2>2, CompletedHasTakenEffect DEF Done
  <2>5. k \in Promise!KeysOfPlan(txPlan[t])
    BY <2>2 DEF Promise!KeysOfPlan, KeySet
  <2>6. Promise!TakeEffect(k)
    BY <1>1, <2>1, <2>3, <2>4, <2>5 DEF Promise!TakeEffect, Begun, Created, Done
  <2> QED BY <2>6 DEF Refined, Promise!PromiseNext
<1> QED BY <1>2, <1>3

\* A step that begins no transaction, completes none and creates nothing.
LEMMA RefineQuiet ==
    ASSUME UNCHANGED txPlan,
           \A k \in Keys : content'[k] # "none" <=> content[k] # "none",
           \A t \in Transactions : txState'[t] = "completed" <=> txState[t] = "completed"
    PROVE  Refined
  BY DEF Refined, Begun, Created, Done

\* begin() stores a plan whose transaction and keys are nobody's, or its own again.
LEMMA RefineJournal ==
    ASSUME TypeInv, JournalInv, ExecutionInv, NEW x \in Executors, Journal(x)
    PROVE  Refined
<1>1. /\ plan[x] \in Plans /\ Tx(x) \in Transactions /\ UNCHANGED content
      /\ txState[Tx(x)] # "completed" /\ txState' = [txState EXCEPT ![Tx(x)] = "prepared"]
  BY KeyFacts DEF Journal, PrepareAgain, InsertPlan, Go, Busy, Tx, ExecutionInv, providerVars
<1>2. \A t \in Transactions : txState'[t] = "completed" <=> txState[t] = "completed"
  BY <1>1 DEF TypeInv, TypeOK, JournalTypeOK
<1>3. CASE known[x]
  BY <1>1, <1>2, <1>3, RefineQuiet DEF Journal, PrepareAgain
<1>4. CASE ~known[x]
  <2>1. CanInsert(plan[x]) /\ txPlan' = [txPlan EXCEPT ![Tx(x)] = plan[x]]
    BY <1>4 DEF Journal, InsertPlan, Tx
  <2>2. txPlan[Tx(x)] = NoPlan /\ \A k \in KeySet(plan[x]) : opState[k] = "absent"
    BY <2>1 DEF CanInsert, Known, Tx
  <2>3. /\ txPlan'[Tx(x)] = plan[x]
        /\ \A t \in Transactions \ {Tx(x)} : txPlan'[t] = txPlan[t]
    BY <1>1, <2>1 DEF TypeInv, TypeOK, JournalTypeOK
  <2>4. Begun' = Begun \cup {plan[x]}
    <3>1. plan[x] # NoPlan
      BY <1>1, PlansAssumption
    <3>2. \A q : q \in Begun <=> \E t \in Transactions : txPlan[t] # NoPlan /\ q = txPlan[t]
      BY Zenon DEF Begun
    <3>3. \A q : q \in Begun' <=> \E t \in Transactions : txPlan'[t] # NoPlan /\ q = txPlan'[t]
      BY Zenon DEF Begun
    <3>4. ASSUME NEW q PROVE q \in Begun' <=> q \in Begun \/ q = plan[x]
      <4>1. ASSUME q \in Begun' PROVE q \in Begun \/ q = plan[x]
        BY <2>3, <3>2, <3>3, <4>1
      <4>2. ASSUME q \in Begun PROVE q \in Begun'
        <5>1. PICK t \in Transactions : txPlan[t] # NoPlan /\ q = txPlan[t]
          BY <3>2, <4>2
        <5>2. t # Tx(x)
          BY <2>2, <5>1
        <5> QED BY <2>3, <3>3, <5>1, <5>2
      <4>3. plan[x] \in Begun'
        BY <1>1, <2>3, <3>1, <3>3
      <4> QED BY <4>1, <4>2, <4>3
    <3> QED BY <3>4
  <2>5. ASSUME NEW q \in Begun
        PROVE  TxOf[q] # TxOf[plan[x]] /\ KeySet(q) \cap KeySet(plan[x]) = {}
    <3>1. q \in Plans /\ TxOf[q] \in Transactions /\ txPlan[TxOf[q]] = q
      BY BegunFacts
    <3>2. \A k \in KeySet(q) : opState[k] # "absent"
      BY <3>1, PlansAssumption DEF JournalInv, RowsOfPlan
    <3> QED BY <2>2, <3>1, <3>2, PlansAssumption DEF Tx
  <2>6. Created' = Created /\ Done' = Done
    BY <1>1, <1>2 DEF Created, Done
  <2>7. PICK p \in Plans : p = plan[x]
    BY <1>1
  <2>8. Promise!BeginPlan(p)
    BY <2>4, <2>5, <2>6, <2>7, BeginPlanIs
  <2> QED BY <2>8 DEF Refined, Promise!PromiseNext
<1> QED BY <1>3, <1>4

\* complete() finishes a plan all of whose tasks exist.
LEMMA RefineComplete ==
    ASSUME TypeInv, JournalInv, ExecutionInv, NEW x \in Executors, Complete(x)
    PROVE  Refined
<1>1. /\ Running(x) /\ AllVerified(plan[x]) /\ UNCHANGED <<txPlan, content>>
      /\ txState' = [txState EXCEPT ![Tx(x)] = "completed"]
  BY DEF Complete, Running, ExecutionInv, Achieved, JournalCompletion, providerVars
<1>2. /\ plan[x] \in Plans /\ Tx(x) \in Transactions /\ txPlan[Tx(x)] = plan[x]
      /\ txState[Tx(x)] # "completed"
  BY <1>1, OwnKeys DEF ExecutionInv, Running, Busy
<1>3. plan[x] \in Begun /\ Begun' = Begun /\ Created' = Created
  BY <1>1, <1>2, PlansAssumption DEF Begun, Created
<1>4. Done' = Done \cup {Tx(x)} /\ Tx(x) \notin Done
  BY <1>1, <1>2 DEF Done, TypeInv, TypeOK, JournalTypeOK
<1>5. KeySet(plan[x]) \subseteq Created
  <2>1. KeySet(plan[x]) \subseteq Keys
    BY <1>2, PlanFacts
  <2> QED BY <1>1, <2>1 DEF AllVerified, ExecutionInv, EvidenceAgrees, Created
<1>6. PICK p \in Plans : p = plan[x]
  BY <1>2
<1>7. Promise!Finish(p)
  BY <1>3, <1>4, <1>5, <1>6, FinishIs DEF Tx
<1> QED BY <1>7 DEF Refined, Promise!PromiseNext

LEMMA RefineNext ==
    ASSUME Exclusive, TypeInv, JournalInv, ExecutionInv, [Next]_vars
    PROVE  Refined
<1>1. ASSUME NEW x \in Executors, Execute(x) PROVE Refined
  <2>1. CASE Journal(x)
    BY <2>1, RefineJournal
  <2>2. CASE Complete(x)
    BY <2>2, RefineComplete
  <2>3. CASE Create(x)
    <3>1. Running(x) /\ Key(x) \in Keys /\ CreateOnce(Key(x)) /\ UNCHANGED <<txPlan, txState>>
      BY <2>3, KeyFacts DEF Create, Go, Running, Busy, journalVars
    <3>2. txPlan[Tx(x)] = plan[x] /\ Tx(x) \in Transactions /\ Key(x) \in KeySet(plan[x])
          /\ plan[x] \in Plans
      BY <3>1, OwnKeys
    <3> QED BY <3>1, <3>2, PlansAssumption, RefineCreate
  <2>4. CASE RecordWrite(x) \/ Fail(x)
    <3>1. /\ UNCHANGED <<txPlan, content>> /\ Running(x)
          /\ \E s \in {"executing", "failed"} : txState' = [txState EXCEPT ![Tx(x)] = s]
      BY <2>4 DEF RecordWrite, Fail, JournalWrite, JournalFailure, Go, Running, providerVars
    <3>2. txState[Tx(x)] # "completed"
      BY <3>1 DEF ExecutionInv, Running, Busy
    <3> QED BY <3>1, <3>2, RefineQuiet DEF TypeInv, TypeOK, JournalTypeOK
  <2>5. CASE \/ JournalRefuses(x) \/ CreateTimesOut(x) \/ Fetch(x) \/ ReadBack(x) \/ MatchReadback(x)
             \/ Verify(x) \/ CallFails(x) \/ CheckCompletion(x)
    <3>1. UNCHANGED <<txPlan, txState, content>>
      BY <2>5 DEF JournalRefuses, CreateTimesOut, Fetch, ReadBack, MatchReadback, Verify, CallFails,
                  CheckCompletion, JournalReadback, journalVars, providerVars
    <3> QED BY <3>1, RefineQuiet
  <2> QED BY <1>1, <2>1, <2>2, <2>3, <2>4, <2>5 DEF Execute
<1>2. ASSUME NEW x \in Executors, (\E p \in Plans : Begin(x, p)) \/ Crash(x) PROVE Refined
  <2>1. UNCHANGED <<txPlan, txState, content>>
    BY <1>2 DEF Begin, Crash, journalVars, providerVars
  <2> QED BY <2>1, RefineQuiet
<1>3. ASSUME NEW k \in Keys, Arrive(k) PROVE Refined
  <2>1. UNCHANGED <<txPlan, txState>> /\ CreateOnce(k) /\ k \in inFlight
    BY <1>3 DEF Arrive, journalVars
  <2>2. \E t \in Transactions : txPlan[t] # NoPlan /\ k \in KeySet(txPlan[t])
    BY <2>1 DEF JournalInv, EffectsAreJournaled
  <2> QED BY <2>1, <2>2, RefineCreate
<1>4. ASSUME NEW k \in Keys, Edit(k) PROVE Refined
  <2>1. /\ UNCHANGED <<txPlan, txState>>
        /\ \A l \in Keys : content'[l] # "none" <=> content[l] # "none"
    BY <1>4 DEF Edit, journalVars, TypeInv, TypeOK
  <2> QED BY <2>1, RefineQuiet
<1>5. CASE UNCHANGED vars
  BY <1>5, RefineQuiet DEF vars, journalVars, providerVars
<1> QED BY <1>1, <1>2, <1>3, <1>4, <1>5 DEF Next

LEMMA RefineInit == Init => Promise!PromiseInit
  BY DEF Init, JournalInit, Promise!PromiseInit

\* Every behaviour of the executors and the journal is one of ExactTransaction.
THEOREM RefinementCorrect == ASSUME Exclusive PROVE Spec => ImplementsExactTransaction
<1>1. TypeInv /\ JournalInv /\ ExecutionInv /\ [Next]_vars => [Promise!PromiseNext]_(Promise!promiseVars)
  BY RefineNext DEF Refined, Promise!promiseVars, Begun, Created, Done
<1>2. Spec => []ExecutionInv
  BY ExecutionInvariant
<1> QED
  BY RefineInit, TypeCorrect, JournalInvariant, <1>1, <1>2, PTL
     DEF Spec, ImplementsExactTransaction, Promise!PromiseSpec
=============================================================================
