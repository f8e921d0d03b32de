-------------------------- MODULE AttendedExecution --------------------------
(***************************************************************************)
(* Attended execution (src/atlas_ros/application/execution.py,             *)
(* AttendedExecutionService.execute()): executors that carry out authorized *)
(* plans against a provider, writing the journal of ExecutionJournal around *)
(* every provider call, with the exact Todoist adapter's create-then-fetch  *)
(* as the write (adapters/exact_todoist.py, adapters/todoist.py).           *)
(*                                                                         *)
(* An executor's pc names its next provider call or database access.        *)
(* Between any two of them another executor may run, somebody may edit a    *)
(* created task, a request that timed out may still arrive, or the executor *)
(* may crash; a plan is executed again by executing it from its beginning.  *)
(***************************************************************************)
EXTENDS ExecutionJournal

CONSTANTS
    Executors,   \* processes (or threads) that may call execute()
    Exclusive,   \* TRUE: nobody executes a transaction that is being executed
    MaxEdits,    \* bound on the edits of a behaviour
    MaxCrashes   \* bound on its crashes

ASSUME ExecutorAssumption ==
    Exclusive \in BOOLEAN /\ MaxEdits \in Nat /\ MaxCrashes \in Nat

VARIABLES
    pc,        \* pc[x]: what executor x does next
    plan,      \* plan[x]: the plan it executes, or NoPlan
    known,     \* known[x]: begin()'s SELECT found the transaction
    step,      \* step[x]: the position of its current operation
    wrote,     \* wrote[x]: digest in the write receipt of that operation
    readBack,  \* readBack[x]: digest in its readback receipt
    content,   \* content[k]: what the provider holds under key k
    inFlight,  \* keys of create requests nobody waits for any more
    edits, crashes   \* how much of each bound is used

executorVars == <<pc, plan, known, step, wrote, readBack>>
providerVars == <<content, inFlight, edits>>
vars == <<journalVars, executorVars, providerVars, crashes>>

Stages == {"idle", "begin", "create", "fetch", "record", "read", "match", "verify",
           "fail", "check", "complete"}

TypeOK ==
    /\ JournalTypeOK
    /\ pc \in [Executors -> Stages]
    /\ plan \in [Executors -> Plans \cup {NoPlan}]
    /\ known \in [Executors -> BOOLEAN]
    /\ step \in [Executors -> Nat]
    /\ wrote \in [Executors -> Contents]
    /\ readBack \in [Executors -> Contents]
    /\ content \in [Keys -> Contents]
    /\ inFlight \subseteq Keys
    /\ edits \in 0..MaxEdits
    /\ crashes \in 0..MaxCrashes

Init ==
    /\ JournalInit
    /\ pc = [x \in Executors |-> "idle"]
    /\ plan = [x \in Executors |-> NoPlan]
    /\ known = [x \in Executors |-> FALSE]
    /\ step = [x \in Executors |-> 1]
    /\ wrote = [x \in Executors |-> "none"]
    /\ readBack = [x \in Executors |-> "none"]
    /\ content = [k \in Keys |-> "none"]
    /\ inFlight = {}
    /\ edits = 0
    /\ crashes = 0

-----------------------------------------------------------------------------
(* The control of execute(). *)

Busy(x) == pc[x] # "idle"
Tx(x) == TxOf[plan[x]]
Key(x) == KeysOf[plan[x]][step[x]]      \* of the current operation

Go(x, from, to) ==
    /\ pc[x] = from
    /\ pc' = [pc EXCEPT ![x] = to]

\* execute() returns or raises: nothing of it stays in memory.
Leave(x) ==
    /\ pc' = [pc EXCEPT ![x] = "idle"]
    /\ plan' = [plan EXCEPT ![x] = NoPlan]
    /\ known' = [known EXCEPT ![x] = FALSE]
    /\ step' = [step EXCEPT ![x] = 1]
    /\ wrote' = [wrote EXCEPT ![x] = "none"]
    /\ readBack' = [readBack EXCEPT ![x] = "none"]

-----------------------------------------------------------------------------
(* begin(), outside the try block. *)

\* The write guard permits the authorization and begin()'s SELECT admits the
\* plan; a refusal of either raises before anything changes.
Begin(x, p) ==
    /\ Exclusive => \A y \in Executors : Busy(y) => Tx(y) # TxOf[p]
    /\ Admits(p)
    /\ Go(x, "idle", "begin")
    /\ plan' = [plan EXCEPT ![x] = p]
    /\ known' = [known EXCEPT ![x] = Known(TxOf[p])]
    /\ UNCHANGED <<journalVars, step, wrote, readBack, providerVars, crashes>>

Journal(x) ==
    /\ Go(x, "begin", "create")
    /\ IF known[x] THEN PrepareAgain(Tx(x))
                   ELSE CanInsert(plan[x]) /\ InsertPlan(plan[x])
    /\ UNCHANGED <<plan, known, step, wrote, readBack, providerVars, crashes>>

\* The INSERTs raise IntegrityError: another transaction owns a key of the plan,
\* or another executor has inserted the transaction since the SELECT.
JournalRefuses(x) ==
    /\ pc[x] = "begin"
    /\ ~known[x] /\ ~CanInsert(plan[x])
    /\ Leave(x)
    /\ UNCHANGED <<journalVars, providerVars, crashes>>

-----------------------------------------------------------------------------
(* One operation: create, fetch, record, read back, verify. *)

\* The provider creates what the plan authorized, unless the key is known to it.
CreateOnce(k) ==
    content' = [content EXCEPT ![k] = IF @ = "none" THEN "authorized" ELSE @]

\* port.write(): POST with the idempotency key ...
Create(x) ==
    /\ Go(x, "create", "fetch")
    /\ CreateOnce(Key(x))
    /\ UNCHANGED <<journalVars, plan, known, step, wrote, readBack, inFlight, edits, crashes>>

\* ... which may time out: the request is lost, or arrives later.
CreateTimesOut(x) ==
    /\ Go(x, "create", "fail")
    /\ \E lost \in BOOLEAN : inFlight' = IF lost THEN inFlight ELSE inFlight \cup {Key(x)}
    /\ UNCHANGED <<journalVars, plan, known, step, wrote, readBack, content, edits, crashes>>

\* ... and a GET, whose answer is what the write receipt's digest is taken of.
Fetch(x) ==
    /\ Go(x, "fetch", "record")
    /\ wrote' = [wrote EXCEPT ![x] = content[Key(x)]]
    /\ UNCHANGED <<journalVars, plan, known, step, readBack, providerVars, crashes>>

RecordWrite(x) ==
    /\ Go(x, "record", "read")
    /\ JournalWrite(Tx(x), Key(x), wrote[x])
    /\ UNCHANGED <<plan, known, step, wrote, readBack, providerVars, crashes>>

\* port.readback() and _validate_readback().
ReadBack(x) ==
    /\ Go(x, "read", IF content[Key(x)] = wrote[x] THEN "match" ELSE "fail")
    /\ readBack' = [readBack EXCEPT ![x] = content[Key(x)]]
    /\ UNCHANGED <<journalVars, plan, known, step, wrote, providerVars, crashes>>

\* record_readback(): its SELECT and refusals ...
MatchReadback(x) ==
    /\ Go(x, "match", IF MatchesWrite(Key(x), readBack[x]) THEN "verify" ELSE "fail")
    /\ UNCHANGED <<journalVars, plan, known, step, wrote, readBack, providerVars, crashes>>

\* ... and its UPDATE; then the next operation, or completion.
Verify(x) ==
    LET last == step[x] = Len(KeysOf[plan[x]])
    IN  /\ Go(x, "verify", IF last THEN "check" ELSE "create")
        /\ JournalReadback(Key(x), readBack[x])
        /\ step' = [step EXCEPT ![x] = IF last THEN @ ELSE @ + 1]
        /\ wrote' = [wrote EXCEPT ![x] = "none"]
        /\ readBack' = [readBack EXCEPT ![x] = "none"]
        /\ UNCHANGED <<plan, known, providerVars, crashes>>

\* A GET raises.
CallFails(x) ==
    /\ \E from \in {"fetch", "read"} : Go(x, from, "fail")
    /\ UNCHANGED <<journalVars, plan, known, step, wrote, readBack, providerVars, crashes>>

\* The except clause: fail(), and the exception leaves execute().
Fail(x) ==
    /\ pc[x] = "fail"
    /\ JournalFailure(Tx(x), Key(x))
    /\ Leave(x)
    /\ UNCHANGED <<providerVars, crashes>>

-----------------------------------------------------------------------------
(* complete(), outside the try block. *)

\* Mutation: complete() moved into a finally clause, without its check.
CompleteAnyway(x) ==
    /\ \E from \in {"check", "fail"} : Go(x, from, "complete")
    /\ UNCHANGED <<journalVars, plan, known, step, wrote, readBack, providerVars, crashes>>

CheckCompletion(x) ==
    /\ pc[x] = "check"
    /\ IF AllVerified(plan[x])
         THEN /\ Go(x, "check", "complete")
              /\ UNCHANGED <<plan, known, step, wrote, readBack>>
         ELSE Leave(x)
    /\ UNCHANGED <<journalVars, providerVars, crashes>>

Complete(x) ==
    /\ pc[x] = "complete"
    /\ JournalCompletion(Tx(x))
    /\ Leave(x)
    /\ UNCHANGED <<providerVars, crashes>>

-----------------------------------------------------------------------------
(* The environment. *)

\* The executor's process dies, perhaps with its create request on the way.
Crash(x) ==
    /\ Busy(x)
    /\ crashes < MaxCrashes
    /\ crashes' = crashes + 1
    /\ \/ UNCHANGED inFlight
       \/ pc[x] = "create" /\ inFlight' = inFlight \cup {Key(x)}
    /\ Leave(x)
    /\ UNCHANGED <<journalVars, content, edits>>

\* A create request nobody waits for reaches the provider after all.
Arrive(k) ==
    /\ k \in inFlight
    /\ inFlight' = inFlight \ {k}
    /\ CreateOnce(k)
    /\ UNCHANGED <<journalVars, executorVars, edits, crashes>>

\* Somebody edits a created task, or edits it back.
Edit(k) ==
    /\ edits < MaxEdits
    /\ edits' = edits + 1
    /\ content[k] # "none"
    /\ content' = [content EXCEPT ![k] = IF @ = "edited" THEN "authorized" ELSE "edited"]
    /\ UNCHANGED <<journalVars, executorVars, inFlight, crashes>>

-----------------------------------------------------------------------------
Execute(x) ==
    \/ Journal(x) \/ JournalRefuses(x)
    \/ Create(x) \/ CreateTimesOut(x) \/ Fetch(x) \/ RecordWrite(x)
    \/ ReadBack(x) \/ MatchReadback(x) \/ Verify(x) \/ CallFails(x) \/ Fail(x)
    \/ CheckCompletion(x) \/ Complete(x)

Next ==
    \/ \E x \in Executors : (\E p \in Plans : Begin(x, p)) \/ Execute(x) \/ Crash(x)
    \/ \E k \in Keys : Arrive(k) \/ Edit(k)

Spec == Init /\ [][Next]_vars

-----------------------------------------------------------------------------
(* Safety, whatever the executors do. *)

\* The journal is written ahead: the provider holds, or may still receive, only
\* tasks of operations that begin() has stored under the plan authorizing them.
EffectsAreJournaled ==
    \A k \in Keys : content[k] # "none" \/ k \in inFlight =>
        \E t \in Transactions : txPlan[t] # NoPlan /\ k \in KeySet(txPlan[t])

\* "existing transaction identity disagrees with authorized plan": whoever may
\* call the provider executes the very plan its transaction was begun with.
ExecutesJournaledPlan ==
    \A x \in Executors : pc[x] \notin {"idle", "begin"} => txPlan[Tx(x)] = plan[x]

\* No operation belongs to two transactions: an idempotency key of a plan that
\* was begun cannot be executed under a second transaction id.
KeysAreExclusive ==
    \A t, u \in Transactions : t # u /\ txPlan[t] # NoPlan /\ txPlan[u] # NoPlan =>
        KeySet(txPlan[t]) \cap KeySet(txPlan[u]) = {}

-----------------------------------------------------------------------------
(* Safety, while nobody executes a transaction that is being executed. *)

\* "transaction cannot complete before every operation is verified"
CompletedIsVerified ==
    \A t \in Transactions : txState[t] = "completed" =>
        \A k \in KeySet(txPlan[t]) : opState[k] = "verified"

\* A verified operation's evidence agrees: what was read back is what the journal
\* says was written, and the provider does hold a task under the operation's key.
EvidenceAgrees ==
    \A k \in Keys : opState[k] = "verified" =>
        /\ readDigest[k] = writeDigest[k]
        /\ content[k] # "none"

\* "completed transaction cannot be executed again": its journal rows are final.
CompletedIsFinal ==
    [][\A t \in Transactions : txState[t] = "completed" =>
          /\ txState'[t] = "completed"
          /\ \A k \in KeySet(txPlan[t]) : opState'[k] = opState[k]
                                          /\ writeDigest'[k] = writeDigest[k]]_vars

\* Nothing is created at the provider for a transaction that has completed,
\* not even by a request that was given up and arrives late.
NoEffectAfterCompletion ==
    [][\A t \in Transactions : txState[t] = "completed" =>
          \A k \in KeySet(txPlan[t]) : content[k] = "none" => content'[k] = "none"]_vars

-----------------------------------------------------------------------------
(* Refinement: what ExactTransaction promises. *)

Promise == INSTANCE ExactTransaction WITH
    begun <- {txPlan[t] : t \in {u \in Transactions : txPlan[u] # NoPlan}},
    created <- {k \in Keys : content[k] # "none"},
    done <- {t \in Transactions : txState[t] = "completed"}

ImplementsExactTransaction == Promise!PromiseSpec
=============================================================================
