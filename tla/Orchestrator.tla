---------------------------- MODULE Orchestrator ----------------------------
(***************************************************************************)
(* The execution orchestrator (src/atlas_ros/orchestration/execution.py,    *)
(* ExecutionOrchestratorV2, with the retry loop of execution_v780.py): it   *)
(* runs a command, a sequence of provider operations, one operation at a    *)
(* time with bounded retries, undoes what it can when one fails for good,   *)
(* and stores a transaction and a receipt that say what happened.           *)
(*                                                                         *)
(* A step is one call of a provider port and the state changes up to the    *)
(* next call.  The store is in memory: a crash forgets it, while what was   *)
(* written stays at the provider.                                          *)
(***************************************************************************)
EXTENDS Integers, Sequences, FiniteSets

CONSTANTS
    Commands,     \* the commands that may be run
    NoCommand,    \* not a command
    Ops,          \* Ops[c]: the operations of command c, in order
    MaxAttempts,  \* GovernedRetryPolicy.maximum_attempts
    Ports,        \* kinds of provider port a behaviour may have
    MaxRuns,      \* bound on the runs of a behaviour
    MaxCrashes    \* bound on its crashes

\* What the orchestrator reads of an operation: whether it writes, or verifies,
\* its provider, and compensation_allowed.
Operations == [kind : {"read", "write", "verify"},
               provider : {"todoist", "notion"},
               undoable : BOOLEAN]

ASSUME OrchestratorAssumption ==
    /\ NoCommand \notin Commands
    /\ Ops \in [Commands -> Seq(Operations)]
    /\ MaxAttempts \in 1..5
    /\ Ports \subseteq {"reporting", "live"}
    /\ MaxRuns \in Nat /\ MaxCrashes \in Nat

VARIABLES
    port,        \* "reporting": flags uncertain writes and can undo; "live": neither
    run,         \* the run in progress, or Idle
    record,      \* record[c]: the stored transaction and receipt of command c
    objects,     \* the writes <<c, i>> in effect at the provider
    withdrawn,   \* commands whose authorization was revoked or has expired
    runs, crashes   \* how much of each bound is used

vars == <<port, run, record, objects, withdrawn, runs, crashes>>

-----------------------------------------------------------------------------
(* The transaction's states. *)

Final == {"verified", "simulated", "failed", "compensated", "manual_recovery_required"}

\* The states a transaction passes through after it has left "prepared".
Legal == [applying |-> {"applying", "verifying", "retry_pending", "partially_applied",
                        "failed", "simulated"},
          verifying |-> {"verifying", "verified", "applying", "retry_pending",
                         "partially_applied", "failed", "simulated"},
          retry_pending |-> {"applying", "verifying", "partially_applied", "failed"},
          partially_applied |-> {"compensating", "manual_recovery_required", "failed"},
          compensating |-> {"compensated", "manual_recovery_required", "failed"}]

RunStates == {"idle", "illegal"} \cup Final \cup DOMAIN Legal

\* No command is running.  While one is, attempt counts the calls of the current
\* operation, done the operations that returned, applied those that wrote, toUndo
\* what compensation has still to undo, named the operations the recovery
\* instructions name, and phase whether the next call is an operation, the
\* readback before a retry (after a retryable error or not) or a compensation.
\* before is the history of what the command had at the provider when it started.
Idle == [command |-> NoCommand, mode |-> "execute", state |-> "idle", phase |-> "call",
         retryable |-> FALSE, attempt |-> 1, done |-> 0, applied |-> {}, toUndo |-> {},
         named |-> {}, before |-> {}]

NoRecord == [state |-> "none", applied |-> {}, named |-> {}]

Steps(c) == 1..Len(Ops[c])
Writes(c) == {i \in Steps(c) : Ops[c][i].kind = "write"}
InEffect(c) == {i \in Writes(c) : <<c, i>> \in objects}

RunRecords == [command : Commands \cup {NoCommand}, mode : {"execute", "simulate"},
               state : RunStates, phase : {"call", "readback", "undo"},
               retryable : BOOLEAN, attempt : 1..MaxAttempts, done : Nat,
               applied : SUBSET Nat, toUndo : SUBSET Nat, named : SUBSET Nat,
               before : SUBSET Nat]

TypeOK ==
    /\ port \in Ports
    /\ run \in RunRecords
    /\ record \in [Commands -> [state : Final \cup {"none"}, applied : SUBSET Nat,
                                named : SUBSET Nat]]
    /\ objects \subseteq Commands \X Nat
    /\ withdrawn \subseteq Commands
    /\ runs \in 0..MaxRuns
    /\ crashes \in 0..MaxCrashes

Init ==
    /\ port \in Ports
    /\ run = Idle
    /\ record = [c \in Commands |-> NoRecord]
    /\ objects = {}
    /\ withdrawn = {}
    /\ runs = 0
    /\ crashes = 0

\* The run goes through the states of path, and on with the fields of r; an illegal
\* transition raises.
Advance(r, path) ==
    run' = IF \A k \in 2..Len(path) : path[k] \in Legal[path[k - 1]]
             THEN [r EXCEPT !.state = path[Len(path)]]
             ELSE [run EXCEPT !.state = "illegal"]

-----------------------------------------------------------------------------
(* Starting a run. *)

\* Mutation: the store is not asked.
ReplayedNever(c) == FALSE

\* A command that was applied is answered from the store (or refused, if its
\* authorization was for one time), and nothing changes.
Replayed(c) == record[c].state = "verified"

\* execute() or simulate().
Submit(c, mode) ==
    /\ run = Idle
    /\ runs < MaxRuns
    /\ ~Replayed(c)
    /\ c \notin withdrawn
    /\ run' = [Idle EXCEPT !.command = c, !.mode = mode, !.state = "applying",
                           !.before = InEffect(c)]
    /\ runs' = runs + 1
    /\ UNCHANGED <<port, record, objects, withdrawn, crashes>>

\* The authorization of c is revoked, or its time passes.
Withdraw(c) ==
    /\ withdrawn' = withdrawn \cup {c}
    /\ UNCHANGED <<port, run, record, objects, runs, crashes>>

-----------------------------------------------------------------------------
(* One operation. *)

Current == Ops[run.command][run.done + 1]

Calling ==
    /\ run.state \in {"applying", "verifying"}
    /\ run.phase = "call"
    /\ run.done < Len(Ops[run.command])

Effect == IF run.mode = "execute" /\ Current.kind = "write"
            THEN {<<run.command, run.done + 1>>} ELSE {}

\* Mutation: the list of applied operations starts anew.
ReturnedAlone(wrote) ==
    [run EXCEPT !.done = @ + 1, !.attempt = 1, !.phase = "call", !.retryable = FALSE,
                !.applied = IF wrote THEN {run.done + 1} ELSE @]

\* The operation returned: it is the next result, applied if it wrote.
Returned(wrote) ==
    [run EXCEPT !.done = @ + 1, !.attempt = 1, !.phase = "call", !.retryable = FALSE,
                !.applied = IF wrote THEN @ \cup {run.done + 1} ELSE @]

\* A simulated call reads nothing back; every other one does.
StateAfter == IF run.mode = "execute" THEN "verifying" ELSE "applying"

Succeed ==
    /\ Calling
    /\ objects' = objects \cup Effect
    /\ Advance(Returned(Effect # {}),
               IF Current.kind = "verify" THEN <<run.state, StateAfter, "verifying">>
                                          ELSE <<run.state, StateAfter>>)
    /\ UNCHANGED <<port, record, withdrawn, runs, crashes>>

\* Mutation: the last operation that returned is taken for the one that failed.
CompensableButLast == {i \in 1..(run.done - 1) : Ops[run.command][i].undoable}

\* What may be undone of what returned, in the failure of a later operation.
Compensable == {i \in 1..run.done : Ops[run.command][i].undoable}

\* The operations recovery instructions name if none can be undone.
NamedForRecovery == Steps(run.command) \ (1..run.done)

\* The operation failed for good.
GiveUp ==
    IF run.applied = {}
      THEN Advance([run EXCEPT !.phase = "call"], <<run.state, "failed">>)
      ELSE IF Compensable = {}
             THEN Advance([run EXCEPT !.phase = "call", !.named = NamedForRecovery],
                          <<run.state, "partially_applied", "manual_recovery_required">>)
             ELSE Advance([run EXCEPT !.phase = "undo", !.toUndo = Compensable],
                          <<run.state, "partially_applied", "compensating">>)

\* Mutation: attempts are not counted.
TryAgainUncounted == Advance([run EXCEPT !.phase = "call", !.retryable = FALSE],
                             <<run.state, "retry_pending", "applying">>)

TryAgain == Advance([run EXCEPT !.attempt = @ + 1, !.phase = "call", !.retryable = FALSE],
                    <<run.state, "retry_pending", "applying">>)

AttemptsLeft == run.attempt < MaxAttempts

\* The call failed, and nothing more is to be learnt about it.
Retry(retryable) == IF retryable /\ AttemptsLeft THEN TryAgain ELSE GiveUp

\* Mutation: the flag is not looked at.
AfterErrorBlind(retryable, flagged) == Retry(retryable)

\* An uncertain write is read back before anything else.
AfterError(retryable, flagged) ==
    IF flagged
      THEN run' = [run EXCEPT !.phase = "readback", !.retryable = retryable]
      ELSE Retry(retryable)

\* A port that reports flags an error after which the write may be in effect, a
\* timeout.  The live adapters turn every error into one without the flag, whether
\* the request was lost or its answer was, or what was written read back different.
\* A simulated call fails only where the Notion adapter reads the schema first.
Fail(retryable, landed, flagged) ==
    /\ Calling
    /\ run.mode = "simulate" => port = "live" /\ Current.provider = "notion" /\ ~retryable
    /\ landed => Effect # {}
    /\ IF port = "live" THEN ~flagged ELSE (landed => flagged) /\ (flagged => retryable)
    /\ objects' = IF landed THEN objects \cup Effect ELSE objects
    /\ AfterError(retryable, flagged)
    /\ UNCHANGED <<port, record, withdrawn, runs, crashes>>

\* Mutation: readback is believed to find whatever it looks for.
FoundAlways == TRUE

Found == <<run.command, run.done + 1>> \in objects

\* readback_before_retry: the write is found and counts as applied, or is not and
\* the operation may be tried again.
ReadBack ==
    /\ run.state \in {"applying", "verifying"}
    /\ run.phase = "readback"
    /\ IF Found THEN Advance(Returned(TRUE), <<run.state, "verifying">>)
                ELSE Retry(run.retryable)
    /\ UNCHANGED <<port, record, objects, withdrawn, runs, crashes>>

\* The Notion adapter reads the schema outside its error handling: an error of the
\* transport there is none the orchestrator catches, and nothing is stored.
Escape ==
    /\ Calling
    /\ port = "live"
    /\ Current.provider = "notion"
    /\ run' = Idle
    /\ UNCHANGED <<port, record, objects, withdrawn, runs, crashes>>

-----------------------------------------------------------------------------
(* The end of a run. *)

Complete ==
    /\ run.state \in {"applying", "verifying"}
    /\ run.phase = "call"
    /\ run.done = Len(Ops[run.command])
    /\ Advance(run, <<run.state, IF run.mode = "execute" THEN "verified" ELSE "simulated">>)
    /\ UNCHANGED <<port, record, objects, withdrawn, runs, crashes>>

\* Compensation goes backwards through the operations to undo.
Undoing(i) ==
    /\ run.state = "compensating"
    /\ i \in run.toUndo
    /\ \A j \in run.toUndo : j <= i

Undo(i) ==
    /\ Undoing(i)
    /\ port = "reporting"
    /\ objects' = objects \ {<<run.command, i>>}
    /\ LET rest == [run EXCEPT !.toUndo = @ \ {i}]
       IN  IF rest.toUndo = {} THEN Advance(rest, <<run.state, "compensated">>)
                               ELSE run' = rest
    /\ UNCHANGED <<port, record, withdrawn, runs, crashes>>

UndoFails(i) ==
    /\ Undoing(i)
    /\ Advance([run EXCEPT !.named = {i}], <<run.state, "manual_recovery_required">>)
    /\ UNCHANGED <<port, record, objects, withdrawn, runs, crashes>>

\* What the models of the transaction and of the receipt accept: recovery names
\* something to do, and applied is every operation, of which one was read back.
Storable(r) ==
    /\ r.state = "manual_recovery_required" => r.named # {}
    /\ r.state = "verified" => r.done > 0

\* The transaction and the receipt replace the ones stored before.
Store ==
    /\ run.state \in Final
    /\ record' = IF Storable(run)
                   THEN [record EXCEPT ![run.command] =
                           [state |-> run.state, applied |-> run.applied,
                            named |-> run.named]]
                   ELSE record
    /\ run' = Idle
    /\ UNCHANGED <<port, objects, withdrawn, runs, crashes>>

\* An illegal transition raised: the caller gets the error, and nothing is stored.
Raise ==
    /\ run.state = "illegal"
    /\ run' = Idle
    /\ UNCHANGED <<port, record, objects, withdrawn, runs, crashes>>

\* The process ends; the store was in its memory.
Crash ==
    /\ crashes < MaxCrashes
    /\ run' = Idle
    /\ record' = [c \in Commands |-> NoRecord]
    /\ crashes' = crashes + 1
    /\ UNCHANGED <<port, objects, withdrawn, runs>>

RunStep ==
    \/ Succeed
    \/ \E retryable, landed, flagged \in BOOLEAN : Fail(retryable, landed, flagged)
    \/ ReadBack
    \/ Escape
    \/ Complete
    \/ \E i \in run.toUndo : Undo(i) \/ UndoFails(i)
    \/ Store
    \/ Raise

Next ==
    \/ \E c \in Commands : \/ \E mode \in {"execute", "simulate"} : Submit(c, mode)
                           \/ Withdraw(c)
    \/ RunStep
    \/ Crash

Spec == Init /\ [][Next]_vars

\* A run goes on while its process is alive.
FairSpec == Spec /\ WF_vars(RunStep)

-----------------------------------------------------------------------------
(* Safety. *)

\* A receipt that says applied is true: every write of the command is in effect at
\* the provider, whatever failed, was retried, undone or forgotten before.
VerifiedIsComplete ==
    \A c \in Commands : record[c].state = "verified" => InEffect(c) = Writes(c)

\* Whatever a run leaves at a provider that reports uncertain writes is in its list
\* of applied operations, from which the transaction is stored, in every state of it
\* but between a flagged error and the readback that settles it.
EffectsAreListed ==
    port = "reporting" /\ run.state # "idle" /\ run.phase # "readback"
        => InEffect(run.command) \subseteq run.before \cup run.applied

\* An operation is not called again in a run that has already put it into effect: a
\* flagged timeout is read back first (the retry loop of execution_v780.py).
ReadbackBeforeRetry ==
    Calling => run.done + 1 \notin InEffect(run.command) \ run.before
ReadbackBeforeRetryIfReported == port = "reporting" => ReadbackBeforeRetry

\* "compensated" is true of what compensation covers: nothing of it is in effect.
CompensatedIsUndone ==
    run.state = "compensated"
        => \A i \in InEffect(run.command) : i \in 1..run.done => ~Ops[run.command][i].undoable

\* The orchestrator asks for no transition LEGAL_TRANSITIONS forbids, but to end a
\* command that has no operations.
OnlyEmptyCommandsAreIllegal == run.state = "illegal" => Ops[run.command] = <<>>

\* A run that has reached its final state is stored: neither the transaction's
\* validators nor the receipt's (reject_false_success) refuse what it built.
OutcomeIsStorable == run.state \in Final => Storable(run)

-----------------------------------------------------------------------------
(* Steps. *)

\* A command whose receipt says applied is never run, simulated, undone or recorded
\* again: a replay returns the receipt.  Only a crash forgets it.
VerifiedIsFinal ==
    [][\A c \in Commands : record[c].state = "verified"
           => /\ InEffect(c)' = InEffect(c)
              /\ run'.command # c
              /\ record'[c] = record[c] \/ crashes' # crashes]_vars

-----------------------------------------------------------------------------
(* Liveness. *)

\* Every run ends: retries and compensation are bounded.
RunsEnd == run.state # "idle" ~> run.state = "idle"

-----------------------------------------------------------------------------
(* The promise of CommandOutcome. *)

verdict == [c \in Commands |-> CASE record[c].state = "verified" -> "settled"
                                 [] record[c].state = "none" -> "open"
                                 [] OTHER -> "reported"]

Outcome == INSTANCE CommandOutcome
             WITH WritesOf <- [c \in Commands |-> Writes(c)], effects <- objects

ImplementsOutcome == Outcome!OutcomeSpec
=============================================================================
