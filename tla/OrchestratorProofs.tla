------------------------- MODULE OrchestratorProofs -------------------------
(***************************************************************************)
(* What holds of Orchestrator for every set of commands, every number of    *)
(* attempts, both kinds of port and any bounds: the invariant RunInv, the   *)
(* safety properties it implies, and the refinement of CommandOutcome.      *)
(***************************************************************************)
EXTENDS Orchestrator, TLAPS

-----------------------------------------------------------------------------
(* The invariant. *)

InFlight == run.state \in {"applying", "verifying"}

\* Between calls: what returned has been read back, and only the last operation of
\* a simulation, or an operation tried again, is left in "applying".
WorkInv ==
    InFlight =>
        /\ run.phase \in {"call", "readback"}
        /\ run.state = "verifying" => run.done > 0
        /\ run.mode = "execute" =>
             /\ Writes(run.command) \cap (1..run.done) \subseteq InEffect(run.command)
             /\ run.done > 0 /\ run.done = Len(Ops[run.command]) => run.state = "verifying"
        /\ run.phase = "readback" => run.done < Len(Ops[run.command]) /\ run.mode = "execute"

\* What the port reports is listed, but for the write still to be read back.
ListInv ==
    port = "reporting" =>
        InEffect(run.command) \subseteq run.before \cup run.applied
            \cup (IF InFlight /\ run.phase = "readback" THEN {run.done + 1} ELSE {})

\* Compensation has still to undo whatever may be undone and is in effect.
UndoInv ==
    run.state \in {"compensating", "compensated"} =>
        \A i \in InEffect(run.command) :
            i \in 1..run.done /\ Ops[run.command][i].undoable
                => run.state = "compensating" /\ i \in run.toUndo

EndInv ==
    /\ run.state = "verified" => /\ run.mode = "execute" /\ run.done > 0
                                 /\ InEffect(run.command) = Writes(run.command)
    /\ run.state = "manual_recovery_required" => run.named # {}
    /\ run.state = "illegal" => Ops[run.command] = << >>
    /\ run.state \notin DOMAIN Legal \ {"applying", "verifying", "compensating"}

ActiveInv ==
    run = Idle \/ /\ run.state # "idle"
                  /\ run.command \in Commands
                  /\ run.done \in 0..Len(Ops[run.command])
                  /\ run.applied \subseteq 1..run.done
                  /\ run.phase = "readback" => InFlight
                  /\ WorkInv /\ ListInv /\ UndoInv /\ EndInv

\* A settled command is complete, and is not the one that runs.
SettledInv ==
    \A c \in Commands : record[c].state = "verified"
        => InEffect(c) = Writes(c) /\ run.command # c

RunInv == TypeOK /\ ActiveInv /\ SettledInv

-----------------------------------------------------------------------------
(* Transitions. *)

LEMMA LegalFacts ==
    /\ "verifying" \in Legal["applying"] /\ "verifying" \in Legal["verifying"]
    /\ "applying" \in Legal["applying"]
    /\ "retry_pending" \in Legal["applying"] /\ "retry_pending" \in Legal["verifying"]
    /\ "applying" \in Legal["retry_pending"]
    /\ "failed" \in Legal["applying"] /\ "failed" \in Legal["verifying"]
    /\ "partially_applied" \in Legal["applying"] /\ "partially_applied" \in Legal["verifying"]
    /\ "compensating" \in Legal["partially_applied"]
    /\ "manual_recovery_required" \in Legal["partially_applied"]
    /\ "manual_recovery_required" \in Legal["compensating"]
    /\ "compensated" \in Legal["compensating"]
    /\ "verified" \in Legal["verifying"] /\ "verified" \notin Legal["applying"]
    /\ "simulated" \in Legal["applying"] /\ "simulated" \in Legal["verifying"]
  BY DEF Legal

LEMMA AdvanceTwo ==
    ASSUME NEW r, NEW a, NEW b, Advance(r, <<a, b>>)
    PROVE  run' = IF b \in Legal[a] THEN [r EXCEPT !.state = b]
                                    ELSE [run EXCEPT !.state = "illegal"]
<1>1. Len(<<a, b>>) = 2 /\ 2..2 = {2}
  OBVIOUS
<1>2. (\A k \in 2..Len(<<a, b>>) : <<a, b>>[k] \in Legal[<<a, b>>[k - 1]]) <=> b \in Legal[a]
  BY <1>1
<1> QED BY <1>1, <1>2 DEF Advance

LEMMA AdvanceThree ==
    ASSUME NEW r, NEW a, NEW b, NEW d, Advance(r, <<a, b, d>>), b \in Legal[a], d \in Legal[b]
    PROVE  run' = [r EXCEPT !.state = d]
<1>1. Len(<<a, b, d>>) = 3 /\ 2..3 = {2, 3}
  OBVIOUS
<1>2. \A k \in 2..Len(<<a, b, d>>) : <<a, b, d>>[k] \in Legal[<<a, b, d>>[k - 1]]
  BY <1>1
<1> QED BY <1>1, <1>2 DEF Advance

\* What an operation that returned leaves.
LEMMA SucceedIs ==
    ASSUME TypeOK, Calling, Succeed
    PROVE  run' = [Returned(Effect # {}) EXCEPT !.state =
                     IF run.mode = "execute" \/ Current.kind = "verify"
                       THEN "verifying" ELSE "applying"]
<1>1. run.state \in {"applying", "verifying"} /\ StateAfter \in {"applying", "verifying"}
  BY DEF Calling, StateAfter
<1>2. StateAfter \in Legal[run.state] /\ "verifying" \in Legal[StateAfter]
  BY <1>1, LegalFacts DEF Legal
<1>3. CASE Current.kind = "verify"
  <2>1. Advance(Returned(Effect # {}), <<run.state, StateAfter, "verifying">>)
    BY <1>3 DEF Succeed
  <2> QED BY <1>2, <1>3, <2>1, AdvanceThree
<1>4. CASE Current.kind # "verify"
  <2>1. Advance(Returned(Effect # {}), <<run.state, StateAfter>>)
    BY <1>4 DEF Succeed
  <2> QED BY <1>2, <1>4, <2>1, AdvanceTwo DEF StateAfter
<1> QED BY <1>3, <1>4

\* What a call that failed for now, or for good, leaves.
LEMMA RetryIs ==
    ASSUME TypeOK, InFlight, NEW retryable \in BOOLEAN, Retry(retryable)
    PROVE  \/ /\ run.attempt < MaxAttempts
              /\ run' = [run EXCEPT !.attempt = @ + 1, !.phase = "call", !.retryable = FALSE,
                                    !.state = "applying"]
           \/ /\ run.applied = {}
              /\ run' = [run EXCEPT !.phase = "call", !.state = "failed"]
           \/ run' = [run EXCEPT !.phase = "call", !.named = NamedForRecovery,
                                 !.state = "manual_recovery_required"]
           \/ run' = [run EXCEPT !.phase = "undo", !.toUndo = Compensable,
                                 !.state = "compensating"]
<1>1. run.state \in {"applying", "verifying"}
  BY DEF InFlight
<1>2. CASE retryable /\ AttemptsLeft
  <2>1. Advance([run EXCEPT !.attempt = @ + 1, !.phase = "call", !.retryable = FALSE],
                <<run.state, "retry_pending", "applying">>)
    BY <1>2 DEF Retry, TryAgain
  <2>2. run' = [[run EXCEPT !.attempt = @ + 1, !.phase = "call", !.retryable = FALSE]
                  EXCEPT !.state = "applying"]
    BY <1>1, <2>1, LegalFacts, AdvanceThree
  <2> QED BY <1>2, <2>2 DEF AttemptsLeft
<1>3. CASE ~(retryable /\ AttemptsLeft)
  <2>1. GiveUp
    BY <1>3 DEF Retry
  <2>2. CASE run.applied = {}
    <3>1. Advance([run EXCEPT !.phase = "call"], <<run.state, "failed">>)
      BY <2>1, <2>2 DEF GiveUp
    <3> QED BY <1>1, <2>2, <3>1, LegalFacts, AdvanceTwo
  <2>3. CASE run.applied # {} /\ Compensable = {}
    <3>1. Advance([run EXCEPT !.phase = "call", !.named = NamedForRecovery],
                  <<run.state, "partially_applied", "manual_recovery_required">>)
      BY <2>1, <2>3 DEF GiveUp
    <3>2. run' = [[run EXCEPT !.phase = "call", !.named = NamedForRecovery]
                    EXCEPT !.state = "manual_recovery_required"]
      BY <1>1, <3>1, LegalFacts, AdvanceThree
    <3> QED BY <3>2
  <2>4. CASE run.applied # {} /\ Compensable # {}
    <3>1. Advance([run EXCEPT !.phase = "undo", !.toUndo = Compensable],
                  <<run.state, "partially_applied", "compensating">>)
      BY <2>1, <2>4 DEF GiveUp
    <3>2. run' = [[run EXCEPT !.phase = "undo", !.toUndo = Compensable]
                    EXCEPT !.state = "compensating"]
      BY <1>1, <3>1, LegalFacts, AdvanceThree
    <3> QED BY <3>2
  <2> QED BY <2>2, <2>3, <2>4
<1> QED BY <1>2, <1>3

-----------------------------------------------------------------------------
(* The invariant is inductive. *)

LEMMA OpsFacts ==
    ASSUME NEW c \in Commands
    PROVE  /\ Len(Ops[c]) \in Nat
           /\ Steps(c) = 1..Len(Ops[c])
           /\ \A i \in Steps(c) : Ops[c][i] \in Operations
           /\ Writes(c) \subseteq Steps(c)
  BY OrchestratorAssumption DEF Steps, Writes

\* The run that makes a call.
LEMMA CallFacts ==
    ASSUME RunInv, InFlight
    PROVE  /\ run # Idle /\ run.command \in Commands
           /\ run.done \in 0..Len(Ops[run.command]) /\ Len(Ops[run.command]) \in Nat
           /\ WorkInv /\ ListInv
  BY OpsFacts DEF RunInv, ActiveInv, InFlight, Idle

\* A write changes what is in effect of the command that runs, and only there.
LEMMA EffectFacts ==
    ASSUME RunInv, Calling, objects' \in {objects, objects \cup Effect},
           NEW c \in Commands, c = run.command
    PROVE  /\ objects' \subseteq Commands \X Nat
           /\ \A d \in Commands : d # c => InEffect(d)' = InEffect(d)
           /\ InEffect(c) \subseteq InEffect(c)'
           /\ InEffect(c)' \subseteq InEffect(c) \cup {run.done + 1}
           /\ objects' = objects \/ Effect = {} => InEffect(c)' = InEffect(c)
           /\ Effect # {} <=> run.mode = "execute" /\ run.done + 1 \in Writes(c)
           /\ Effect # {} /\ objects' = objects \cup Effect => run.done + 1 \in InEffect(c)'
<1>1. InFlight /\ run.done < Len(Ops[c])
  BY DEF Calling, InFlight
<1>2. /\ run.done \in Nat /\ run.done + 1 \in Steps(c)
      /\ objects \subseteq Commands \X Nat
  BY <1>1, CallFacts, OpsFacts DEF RunInv, TypeOK
<1>3. Effect \subseteq {<<c, run.done + 1>>}
  BY DEF Effect
<1>4. Effect # {} <=> run.mode = "execute" /\ run.done + 1 \in Writes(c)
  BY <1>2 DEF Effect, Current, Writes
<1>5. /\ objects' \subseteq objects \cup {<<c, run.done + 1>>}
      /\ objects \subseteq objects'
      /\ Effect # {} => Effect = {<<c, run.done + 1>>}
      /\ Effect = {} => objects' = objects
  BY <1>3
<1>6. /\ objects' \subseteq Commands \X Nat
      /\ \A d \in Commands : d # c => InEffect(d)' = InEffect(d)
      /\ InEffect(c) \subseteq InEffect(c)'
  BY <1>2, <1>5 DEF InEffect, Writes, Steps
<1>7. /\ InEffect(c)' \subseteq InEffect(c) \cup {run.done + 1}
      /\ objects' = objects \/ Effect = {} => InEffect(c)' = InEffect(c)
  BY <1>5 DEF InEffect, Writes, Steps
<1>8. Effect # {} /\ objects' = objects \cup Effect => run.done + 1 \in InEffect(c)'
  BY <1>4, <1>5 DEF InEffect, Writes, Steps
<1> QED BY <1>4, <1>6, <1>7, <1>8

\* The steps of the run of c, which leave the record and other commands alone.
Others(c) ==
    /\ UNCHANGED <<port, record, withdrawn, runs, crashes>>
    /\ objects' \subseteq Commands \X Nat
    /\ \A d \in Commands : d # c => InEffect(d)' = InEffect(d)

LEMMA SettledStays ==
    ASSUME RunInv, NEW c \in Commands, c = run.command, Others(c),
           run'.command \in {c, NoCommand}
    PROVE  SettledInv'
<1>1. \A d \in Commands : record[d].state = "verified"
        => InEffect(d) = Writes(d) /\ d # c
  BY DEF RunInv, SettledInv
<1>2. \A d \in Commands : Writes(d)' = Writes(d) /\ d # NoCommand
  BY OrchestratorAssumption DEF Writes, Steps
<1> QED BY <1>1, <1>2 DEF Others, SettledInv

LEMMA RetryKeeps ==
    ASSUME RunInv, InFlight, NEW c \in Commands, c = run.command, run.done < Len(Ops[c]),
           Others(c), InEffect(c) \subseteq InEffect(c)',
           port = "reporting" => InEffect(c)' \subseteq run.before \cup run.applied,
           NEW retryable \in BOOLEAN, Retry(retryable)
    PROVE  RunInv'
<1>1. /\ run.command # NoCommand
      /\ run.done \in 0..Len(Ops[c]) /\ Len(Ops[c]) \in Nat
      /\ WorkInv /\ run.applied \subseteq 1..run.done /\ run.state \in {"applying", "verifying"}
  BY CallFacts, OrchestratorAssumption DEF RunInv, ActiveInv, InFlight
<1>2. NamedForRecovery # {} /\ NamedForRecovery \subseteq Nat
  <2>1. run.done + 1 \in NamedForRecovery
    BY <1>1, OpsFacts DEF NamedForRecovery
  <2> QED BY <2>1, <1>1, OpsFacts DEF NamedForRecovery
<1>3. /\ Compensable \subseteq Nat
      /\ \A i \in 1..run.done : Ops[run.command][i].undoable => i \in Compensable
  BY <1>1 DEF Compensable
<1>4. /\ run' \in RunRecords
      /\ run'.command = c /\ run'.done = run.done /\ run'.applied = run.applied
      /\ run'.mode = run.mode /\ run'.before = run.before
      /\ \/ run'.state = "applying" /\ run'.phase = "call"
         \/ run'.state = "failed" /\ run'.phase = "call"
         \/ /\ run'.state = "manual_recovery_required" /\ run'.phase = "call"
            /\ run'.named = NamedForRecovery
         \/ run'.state = "compensating" /\ run'.phase = "undo" /\ run'.toUndo = Compensable
  <2>1. TypeOK /\ run \in RunRecords
    BY DEF RunInv, TypeOK
  <2>2. run.attempt < MaxAttempts => run.attempt + 1 \in 1..MaxAttempts
    BY <2>1, OrchestratorAssumption DEF RunRecords
  <2>3. {"applying", "failed", "manual_recovery_required", "compensating"} \subseteq RunStates
    BY DEF RunStates, Legal, Final
  <2>4. CASE /\ run.attempt < MaxAttempts
             /\ run' = [run EXCEPT !.attempt = @ + 1, !.phase = "call", !.retryable = FALSE,
                                   !.state = "applying"]
    BY <2>1, <2>2, <2>3, <2>4 DEF RunRecords
  <2>5. CASE run' = [run EXCEPT !.phase = "call", !.state = "failed"]
    BY <2>1, <2>3, <2>5 DEF RunRecords
  <2>6. CASE run' = [run EXCEPT !.phase = "call", !.named = NamedForRecovery,
                                !.state = "manual_recovery_required"]
    BY <1>2, <2>1, <2>3, <2>6 DEF RunRecords
  <2>7. CASE run' = [run EXCEPT !.phase = "undo", !.toUndo = Compensable,
                                !.state = "compensating"]
    BY <1>3, <2>1, <2>3, <2>7 DEF RunRecords
  <2> QED BY <2>1, <2>4, <2>5, <2>6, <2>7, RetryIs
<1>5. SettledInv'
  BY <1>4, SettledStays
<1>6. ActiveInv'
  <2>1. run'.state # "idle" /\ run'.applied \subseteq 1..run'.done /\ run'.phase # "readback"
    BY <1>1, <1>4
  <2>2. WorkInv'
    BY <1>1, <1>4 DEF WorkInv, InFlight, Writes, Steps
  <2>3. ListInv'
    BY <1>4 DEF ListInv, InFlight, Others
  <2>4. UndoInv'
    BY <1>1, <1>3, <1>4 DEF UndoInv
  <2>5. EndInv'
    BY <1>1, <1>2, <1>4 DEF EndInv, Legal
  <2> QED BY <1>1, <1>4, <2>1, <2>2, <2>3, <2>4, <2>5 DEF ActiveInv
<1>7. TypeOK'
  BY <1>4 DEF RunInv, TypeOK, RunRecords, Others
<1> QED BY <1>5, <1>6, <1>7 DEF RunInv

\* An operation that returned, in the state s, with what it wrote in effect.
LEMMA ReturnedKeeps ==
    ASSUME RunInv, InFlight, NEW c \in Commands, c = run.command, run.done < Len(Ops[c]),
           Others(c), InEffect(c) \subseteq InEffect(c)', NEW wrote \in BOOLEAN,
           NEW s \in {"applying", "verifying"}, run.mode = "execute" => s = "verifying",
           run.mode = "execute" /\ run.done + 1 \in Writes(c) => run.done + 1 \in InEffect(c)',
           port = "reporting" => InEffect(c)' \subseteq run.before \cup run.applied
                                   \cup (IF wrote THEN {run.done + 1} ELSE {}),
           run' = [Returned(wrote) EXCEPT !.state = s]
    PROVE  RunInv'
<1>1. /\ run.command # NoCommand /\ run \in RunRecords
      /\ run.done \in 0..Len(Ops[c]) /\ Len(Ops[c]) \in Nat
      /\ WorkInv /\ run.applied \subseteq 1..run.done /\ run.state \in {"applying", "verifying"}
  BY CallFacts, OrchestratorAssumption DEF RunInv, ActiveInv, InFlight, TypeOK
<1>2. /\ run' \in RunRecords
      /\ run'.command = c /\ run'.done = run.done + 1 /\ run'.phase = "call"
      /\ run'.mode = run.mode /\ run'.before = run.before /\ run'.state = s
      /\ run'.applied = IF wrote THEN run.applied \cup {run.done + 1} ELSE run.applied
  <2>1. 1 \in 1..MaxAttempts /\ s \in RunStates
    BY OrchestratorAssumption DEF RunStates, Legal
  <2>2. /\ run.done + 1 \in Nat /\ run.applied \cup {run.done + 1} \in SUBSET Nat
        /\ run.applied \in SUBSET Nat
    BY <1>1
  <2>3. /\ Returned(wrote) \in RunRecords
        /\ Returned(wrote).command = c /\ Returned(wrote).done = run.done + 1
        /\ Returned(wrote).phase = "call" /\ Returned(wrote).mode = run.mode
        /\ Returned(wrote).before = run.before
        /\ Returned(wrote).applied
             = IF wrote THEN run.applied \cup {run.done + 1} ELSE run.applied
    BY <1>1, <2>1, <2>2 DEF RunRecords, Returned
  <2> QED BY <2>1, <2>3 DEF RunRecords
<1>3. SettledInv'
  BY <1>2, SettledStays
<1>4. ActiveInv'
  <2>1. run'.state # "idle" /\ run'.applied \subseteq 1..run'.done /\ run'.phase # "readback"
        /\ run'.done \in 0..Len(Ops[c])
    BY <1>1, <1>2
  <2>2. WorkInv'
    <3>1. run.mode = "execute" => Writes(c) \cap (1..run.done) \subseteq InEffect(c)
      BY <1>1 DEF WorkInv, InFlight
    <3>2. 1..(run.done + 1) = (1..run.done) \cup {run.done + 1}
      BY <1>1
    <3>3. run.mode = "execute" => Writes(c)' \cap (1..run'.done) \subseteq InEffect(c)'
      BY <1>2, <3>1, <3>2 DEF Writes, Steps
    <3> QED BY <1>1, <1>2, <3>3 DEF WorkInv, InFlight
  <2>3. ListInv'
    BY <1>2 DEF ListInv, InFlight, Others
  <2>4. UndoInv' /\ EndInv'
    BY <1>2 DEF UndoInv, EndInv, Legal
  <2> QED BY <1>2, <2>1, <2>2, <2>3, <2>4 DEF ActiveInv
<1>5. TypeOK'
  BY <1>2 DEF RunInv, TypeOK, RunRecords, Others
<1> QED BY <1>3, <1>4, <1>5 DEF RunInv

LEMMA SucceedKeeps == ASSUME RunInv, Succeed PROVE RunInv'
<1>1. PICK c \in Commands : c = run.command
  BY CallFacts DEF Succeed, Calling, InFlight
<1>2. /\ InFlight /\ run.done < Len(Ops[c]) /\ Calling /\ TypeOK
      /\ objects' = objects \cup Effect
      /\ UNCHANGED <<port, record, withdrawn, runs, crashes>>
  BY <1>1 DEF Succeed, Calling, InFlight, RunInv
<1>3. run' = [Returned(Effect # {}) EXCEPT !.state =
                IF run.mode = "execute" \/ Current.kind = "verify"
                  THEN "verifying" ELSE "applying"]
  BY <1>2, SucceedIs
<1>4. Others(c) /\ InEffect(c) \subseteq InEffect(c)'
  BY <1>1, <1>2, EffectFacts DEF Others
<1>5. run.mode = "execute" /\ run.done + 1 \in Writes(c) => run.done + 1 \in InEffect(c)'
  BY <1>1, <1>2, EffectFacts
<1>6. port = "reporting" => InEffect(c) \subseteq run.before \cup run.applied
  BY <1>1, <1>2, CallFacts DEF ListInv, InFlight, Calling
<1>7. port = "reporting" => InEffect(c)' \subseteq run.before \cup run.applied
                              \cup (IF Effect # {} THEN {run.done + 1} ELSE {})
  BY <1>1, <1>2, <1>6, EffectFacts
<1> QED BY <1>1, <1>2, <1>3, <1>4, <1>5, <1>7, ReturnedKeeps

LEMMA FailKeeps ==
    ASSUME RunInv, NEW retryable \in BOOLEAN, NEW landed \in BOOLEAN, NEW flagged \in BOOLEAN,
           Fail(retryable, landed, flagged)
    PROVE  RunInv'
<1>1. PICK c \in Commands : c = run.command
  BY CallFacts DEF Fail, Calling, InFlight
<1>2. /\ InFlight /\ run.done < Len(Ops[c]) /\ Calling /\ run.phase = "call"
      /\ objects' \in {objects, objects \cup Effect}
      /\ UNCHANGED <<port, record, withdrawn, runs, crashes>>
  BY <1>1 DEF Fail, Calling, InFlight
<1>3. Others(c) /\ InEffect(c) \subseteq InEffect(c)'
      /\ InEffect(c)' \subseteq InEffect(c) \cup {run.done + 1}
  BY <1>1, <1>2, EffectFacts DEF Others
<1>4. port = "reporting" => InEffect(c) \subseteq run.before \cup run.applied
  BY <1>1, <1>2, CallFacts DEF ListInv, InFlight
<1>5. CASE ~flagged
  <2>1. Retry(retryable)
    BY <1>5 DEF Fail, AfterError
  <2>2. port = "reporting" => objects' = objects
    BY <1>5, OrchestratorAssumption DEF Fail, RunInv, TypeOK
  <2>3. port = "reporting" => InEffect(c)' \subseteq run.before \cup run.applied
    BY <1>1, <1>2, <1>4, <2>2, EffectFacts
  <2> QED BY <1>1, <1>2, <1>3, <2>1, <2>3, RetryKeeps
<1>6. CASE flagged
  <2>1. /\ run' = [run EXCEPT !.phase = "readback", !.retryable = retryable]
        /\ run.mode = "execute"
    BY <1>6, OrchestratorAssumption DEF Fail, AfterError, RunInv, TypeOK, RunRecords
  <2>2. /\ run.command # NoCommand /\ run \in RunRecords
        /\ run.done \in 0..Len(Ops[c]) /\ Len(Ops[c]) \in Nat
        /\ WorkInv /\ run.applied \subseteq 1..run.done /\ run.state \in {"applying", "verifying"}
    BY <1>1, <1>2, CallFacts, OrchestratorAssumption DEF RunInv, ActiveInv, InFlight, TypeOK
  <2>3. /\ run' \in RunRecords
        /\ run'.command = c /\ run'.done = run.done /\ run'.phase = "readback"
        /\ run'.mode = run.mode /\ run'.before = run.before /\ run'.state = run.state
        /\ run'.applied = run.applied
    BY <1>1, <2>1, <2>2 DEF RunRecords
  <2>4. WorkInv'
    BY <1>1, <1>2, <1>3, <2>1, <2>2, <2>3 DEF WorkInv, InFlight, Writes, Steps
  <2>5. ListInv'
    BY <1>3, <1>4, <2>2, <2>3 DEF ListInv, InFlight, Others
  <2>6. UndoInv' /\ EndInv'
    BY <2>2, <2>3 DEF UndoInv, EndInv, Legal
  <2>7. ActiveInv'
    BY <1>1, <2>2, <2>3, <2>4, <2>5, <2>6 DEF ActiveInv, InFlight
  <2>8. SettledInv'
    BY <1>1, <1>3, <2>3, SettledStays
  <2>9. TypeOK'
    BY <1>3, <2>3 DEF RunInv, TypeOK, RunRecords, Others
  <2> QED BY <2>7, <2>8, <2>9 DEF RunInv
<1> QED BY <1>5, <1>6

LEMMA ReadBackKeeps == ASSUME RunInv, ReadBack PROVE RunInv'
<1>1. PICK c \in Commands : c = run.command
  BY CallFacts DEF ReadBack, InFlight
<1>2. /\ InFlight /\ run.phase = "readback" /\ run.state \in {"applying", "verifying"}
      /\ UNCHANGED <<port, record, objects, withdrawn, runs, crashes>>
  BY DEF ReadBack, InFlight
<1>3. /\ run.done < Len(Ops[c]) /\ run.mode = "execute"
      /\ run.retryable \in BOOLEAN /\ run.done \in Nat /\ objects \subseteq Commands \X Nat
  BY <1>1, <1>2, CallFacts DEF WorkInv, RunInv, TypeOK, RunRecords
<1>4. InEffect(c)' = InEffect(c) /\ Others(c)
  BY <1>2, <1>3 DEF InEffect, Writes, Steps, Others
<1>5. port = "reporting" => InEffect(c) \subseteq run.before \cup run.applied \cup {run.done + 1}
  BY <1>1, <1>2, CallFacts DEF ListInv
<1>6. CASE Found
  <2>1. Advance(Returned(TRUE), <<run.state, "verifying">>)
    BY <1>6 DEF ReadBack
  <2>2. run' = [Returned(TRUE) EXCEPT !.state = "verifying"]
    BY <1>2, <2>1, LegalFacts, AdvanceTwo
  <2>3. run.done + 1 \in Writes(c) => run.done + 1 \in InEffect(c)'
    BY <1>1, <1>4, <1>6 DEF Found, InEffect
  <2> QED BY <1>1, <1>2, <1>3, <1>4, <1>5, <2>2, <2>3, ReturnedKeeps
<1>7. CASE ~Found
  <2>1. Retry(run.retryable)
    BY <1>7 DEF ReadBack
  <2>2. run.done + 1 \notin InEffect(c)
    BY <1>1, <1>7 DEF Found, InEffect
  <2> QED BY <1>1, <1>2, <1>3, <1>4, <1>5, <2>1, <2>2, RetryKeeps
<1> QED BY <1>6, <1>7

LEMMA IdleTyped == Idle \in RunRecords /\ Idle.command = NoCommand
  BY OrchestratorAssumption DEF Idle, RunRecords, RunStates

LEMMA SubmitKeeps ==
    ASSUME RunInv, NEW c \in Commands, NEW mode \in {"execute", "simulate"}, Submit(c, mode)
    PROVE  RunInv'
<1>1. /\ run = Idle /\ ~Replayed(c) /\ runs < MaxRuns
      /\ run' = [Idle EXCEPT !.command = c, !.mode = mode, !.state = "applying",
                             !.before = InEffect(c)]
      /\ runs' = runs + 1
      /\ UNCHANGED <<port, record, objects, withdrawn, crashes>>
  BY DEF Submit
<1>2. Len(Ops[c]) \in Nat /\ InEffect(c) \subseteq Nat /\ c # NoCommand
  BY OpsFacts, OrchestratorAssumption DEF InEffect
<1>3. /\ run' \in RunRecords /\ run'.command = c /\ run'.mode = mode
      /\ run'.state = "applying" /\ run'.phase = "call" /\ run'.done = 0 /\ run'.applied = {}
      /\ run'.before = InEffect(c)
  <2>1. "applying" \in RunStates
    BY DEF RunStates, Legal
  <2> QED BY <1>1, <1>2, <2>1, IdleTyped DEF RunRecords, Idle
<1>4. InEffect(c)' = InEffect(c)
  BY <1>1 DEF InEffect, Writes, Steps
<1>5. TypeOK'
  BY <1>1, <1>3, OrchestratorAssumption DEF RunInv, TypeOK, RunRecords
<1>6. SettledInv'
  BY <1>1, <1>3 DEF RunInv, SettledInv, InEffect, Writes, Steps, Replayed
<1>7. ActiveInv'
  BY <1>2, <1>3, <1>4 DEF ActiveInv, WorkInv, ListInv, UndoInv, EndInv, InFlight, Legal
<1> QED BY <1>5, <1>6, <1>7 DEF RunInv

LEMMA WithdrawKeeps == ASSUME RunInv, NEW c \in Commands, Withdraw(c) PROVE RunInv'
<1>1. UNCHANGED <<port, run, record, objects, runs, crashes>> /\ withdrawn' \subseteq Commands
  BY DEF Withdraw, RunInv, TypeOK
<1>2. TypeOK'
  BY <1>1 DEF RunInv, TypeOK
<1>3. ActiveInv' /\ SettledInv'
  BY <1>1 DEF RunInv, ActiveInv, WorkInv, ListInv, UndoInv, EndInv, InFlight, SettledInv,
              InEffect, Writes, Steps
<1> QED BY <1>2, <1>3 DEF RunInv

\* The steps after which nothing runs.
LEMMA EndKeeps ==
    ASSUME RunInv, run' = Idle, UNCHANGED <<port, objects, withdrawn, runs>>,
           crashes' \in 0..MaxCrashes,
           record' \in [Commands -> [state : Final \cup {"none"}, applied : SUBSET Nat,
                                     named : SUBSET Nat]],
           \A c \in Commands : record'[c].state = "verified" => InEffect(c) = Writes(c)
    PROVE  RunInv'
<1>1. TypeOK'
  BY IdleTyped DEF RunInv, TypeOK, RunRecords
<1>2. ActiveInv'
  BY DEF ActiveInv, Idle
<1>3. SettledInv'
  BY IdleTyped, OrchestratorAssumption DEF SettledInv, InEffect, Writes, Steps
<1> QED BY <1>1, <1>2, <1>3 DEF RunInv

LEMMA StoreKeeps == ASSUME RunInv, Store PROVE RunInv'
<1>1. /\ run.state \in Final /\ run' = Idle
      /\ UNCHANGED <<port, objects, withdrawn, runs, crashes>>
  BY DEF Store
<1>2. run # Idle /\ run.command \in Commands /\ EndInv /\ run \in RunRecords
  BY <1>1 DEF RunInv, ActiveInv, Idle, Final, TypeOK
<1>3. \A c \in Commands : record[c].state = "verified" => InEffect(c) = Writes(c)
  BY DEF RunInv, SettledInv
<1>4. /\ record' \in [Commands -> [state : Final \cup {"none"}, applied : SUBSET Nat,
                                   named : SUBSET Nat]]
      /\ \A c \in Commands : record'[c].state = "verified" => InEffect(c) = Writes(c)
  <2>1. CASE record' = record
    BY <1>3, <2>1 DEF RunInv, TypeOK
  <2>2. CASE record' = [record EXCEPT ![run.command] =
                          [state |-> run.state, applied |-> run.applied, named |-> run.named]]
    <3>1. [state |-> run.state, applied |-> run.applied, named |-> run.named]
            \in [state : Final \cup {"none"}, applied : SUBSET Nat, named : SUBSET Nat]
      BY <1>1, <1>2 DEF RunRecords
    <3>2. record \in [Commands -> [state : Final \cup {"none"}, applied : SUBSET Nat,
                                   named : SUBSET Nat]]
      BY DEF RunInv, TypeOK
    <3>3. \A c \in Commands : record'[c].state = "verified" => InEffect(c) = Writes(c)
      <4> TAKE c \in Commands
      <4>1. CASE c = run.command
        BY <1>2, <2>2, <3>2, <4>1 DEF EndInv
      <4>2. CASE c # run.command
        BY <1>3, <2>2, <3>2, <4>2
      <4> QED BY <4>1, <4>2
    <3> QED BY <2>2, <3>1, <3>2, <3>3
  <2> QED BY <2>1, <2>2 DEF Store
<1>5. crashes' \in 0..MaxCrashes
  BY <1>1 DEF RunInv, TypeOK
<1> QED BY <1>1, <1>4, <1>5, EndKeeps

LEMMA DropKeeps == ASSUME RunInv, Escape \/ Raise \/ Crash PROVE RunInv'
<1>1. /\ run' = Idle /\ UNCHANGED <<port, objects, withdrawn, runs>>
      /\ crashes' \in 0..MaxCrashes
  BY OrchestratorAssumption DEF Escape, Raise, Crash, RunInv, TypeOK
<1>2. /\ record' \in [Commands -> [state : Final \cup {"none"}, applied : SUBSET Nat,
                                   named : SUBSET Nat]]
      /\ \A c \in Commands : record'[c].state = "verified" => InEffect(c) = Writes(c)
  <2>1. CASE record' = record
    BY <2>1 DEF RunInv, TypeOK, SettledInv
  <2>2. CASE record' = [c \in Commands |-> NoRecord]
    BY <2>2 DEF NoRecord
  <2> QED BY <2>1, <2>2 DEF Escape, Raise, Crash
<1> QED BY <1>1, <1>2, EndKeeps

\* A run that comes to an end without a call, or goes on compensating.
LEMMA CloseKeeps ==
    ASSUME RunInv, run # Idle, NEW c \in Commands, c = run.command, Others(c),
           run' \in RunRecords, run'.command = c, run'.done = run.done,
           run'.applied = run.applied, run'.before = run.before, run'.mode = run.mode,
           run'.phase \in {run.phase, "call"}, run.phase # "readback",
           run'.state \in {"compensating", "illegal"} \cup Final,
           InEffect(c)' \subseteq InEffect(c), UndoInv', EndInv'
    PROVE  RunInv'
<1>1. SettledInv'
  BY SettledStays
<1>2. run'.state # "idle" /\ run'.state \notin {"applying", "verifying"}
  BY DEF Final
<1>3. ListInv /\ run.done \in 0..Len(Ops[c]) /\ run.applied \subseteq 1..run.done
  BY DEF RunInv, ActiveInv
<1>4. WorkInv' /\ ListInv'
  BY <1>2, <1>3 DEF WorkInv, ListInv, InFlight, Others
<1>5. ActiveInv'
  BY <1>2, <1>3, <1>4 DEF ActiveInv
<1>6. TypeOK'
  BY DEF RunInv, TypeOK, RunRecords, Others
<1> QED BY <1>1, <1>5, <1>6 DEF RunInv

LEMMA CompleteKeeps == ASSUME RunInv, Complete PROVE RunInv'
<1>1. PICK c \in Commands : c = run.command
  BY CallFacts DEF Complete, InFlight
<1>2. /\ InFlight /\ run.phase = "call" /\ run.done = Len(Ops[c])
      /\ run.state \in {"applying", "verifying"}
      /\ UNCHANGED <<port, record, objects, withdrawn, runs, crashes>>
  BY <1>1 DEF Complete, InFlight
<1>3. /\ run # Idle /\ run \in RunRecords /\ WorkInv /\ Len(Ops[c]) \in Nat
      /\ objects \subseteq Commands \X Nat
  BY <1>1, <1>2, CallFacts DEF RunInv, TypeOK
<1>4. InEffect(c)' = InEffect(c) /\ Others(c)
  BY <1>2, <1>3 DEF InEffect, Writes, Steps, Others
<1>5. \/ run.mode = "execute" /\ run.state = "verifying" /\ run' = [run EXCEPT !.state = "verified"]
      \/ run.mode = "execute" /\ run.state = "applying" /\ run' = [run EXCEPT !.state = "illegal"]
      \/ run.mode = "simulate" /\ run' = [run EXCEPT !.state = "simulated"]
  <2>1. CASE run.mode = "execute"
    <3>1. Advance(run, <<run.state, "verified">>)
      BY <2>1 DEF Complete
    <3>2. run' = IF "verified" \in Legal[run.state] THEN [run EXCEPT !.state = "verified"]
                                                    ELSE [run EXCEPT !.state = "illegal"]
      BY <3>1, AdvanceTwo
    <3> QED BY <1>2, <2>1, <3>2, LegalFacts
  <2>2. CASE run.mode = "simulate"
    <3>1. Advance(run, <<run.state, "simulated">>)
      BY <2>2 DEF Complete
    <3>2. run' = IF "simulated" \in Legal[run.state] THEN [run EXCEPT !.state = "simulated"]
                                                     ELSE [run EXCEPT !.state = "illegal"]
      BY <3>1, AdvanceTwo
    <3> QED BY <1>2, <2>2, <3>2, LegalFacts
  <2> QED BY <1>3, <2>1, <2>2 DEF RunRecords
<1>6. /\ run' \in RunRecords /\ run'.command = c /\ run'.done = run.done
      /\ run'.applied = run.applied /\ run'.before = run.before /\ run'.mode = run.mode
      /\ run'.phase = "call"
  <2>1. {"verified", "illegal", "simulated"} \subseteq RunStates
    BY DEF RunStates, Final
  <2> QED BY <1>1, <1>2, <1>3, <1>5, <2>1 DEF RunRecords
<1>7. /\ run'.state \in {"verified", "illegal", "simulated"}
      /\ run'.state = "verified" => run.mode = "execute" /\ run.state = "verifying"
      /\ run'.state = "illegal" => run.mode = "execute" /\ run.state = "applying"
  BY <1>3, <1>5 DEF RunRecords
<1>8. run'.state = "verified" => run.done > 0 /\ InEffect(c) = Writes(c)
  BY <1>1, <1>2, <1>3, <1>7, OpsFacts DEF WorkInv, InEffect
<1>9. run'.state = "illegal" => Ops[c] = << >>
  <2>1. run'.state = "illegal" => run.done = 0
    BY <1>1, <1>2, <1>3, <1>7 DEF WorkInv
  <2> QED BY <1>2, <2>1, OrchestratorAssumption
<1>10. EndInv'
  BY <1>4, <1>6, <1>7, <1>8, <1>9 DEF EndInv, Legal, Writes, Steps
<1>11. UndoInv'
  BY <1>7 DEF UndoInv
<1> QED BY <1>1, <1>2, <1>3, <1>4, <1>6, <1>7, <1>10, <1>11, CloseKeeps DEF Final

LEMMA UndoKeeps ==
    ASSUME RunInv, NEW i \in run.toUndo, Undo(i) \/ UndoFails(i)
    PROVE  RunInv'
<1>1. /\ run.state = "compensating" /\ UNCHANGED <<port, record, withdrawn, runs, crashes>>
      /\ run \in RunRecords
  BY DEF Undo, UndoFails, Undoing, RunInv, TypeOK
<1>2. /\ run # Idle /\ run.command \in Commands /\ UndoInv /\ run.phase # "readback"
      /\ objects \subseteq Commands \X Nat /\ i \in Nat
  BY <1>1 DEF RunInv, ActiveInv, Idle, InFlight, TypeOK, RunRecords
<1>3. PICK c \in Commands : c = run.command
  BY <1>2
<1>4. CASE UndoFails(i)
  <2>1. /\ Advance([run EXCEPT !.named = {i}], <<run.state, "manual_recovery_required">>)
        /\ objects' = objects
    BY <1>4 DEF UndoFails
  <2>2. run' = [[run EXCEPT !.named = {i}] EXCEPT !.state = "manual_recovery_required"]
    BY <1>1, <2>1, LegalFacts, AdvanceTwo
  <2>3. /\ run' \in RunRecords /\ run'.command = c /\ run'.done = run.done
        /\ run'.applied = run.applied /\ run'.before = run.before /\ run'.mode = run.mode
        /\ run'.phase = run.phase /\ run'.named = {i}
        /\ run'.state = "manual_recovery_required"
    <3>1. "manual_recovery_required" \in RunStates
      BY DEF RunStates, Final
    <3> QED BY <1>1, <1>2, <1>3, <2>2, <3>1 DEF RunRecords
  <2>4. InEffect(c)' = InEffect(c) /\ Others(c)
    BY <1>1, <1>2, <2>1 DEF InEffect, Writes, Steps, Others
  <2>5. UndoInv' /\ EndInv'
    BY <2>3 DEF UndoInv, EndInv, Legal
  <2> QED BY <1>2, <1>3, <2>3, <2>4, <2>5, CloseKeeps DEF Final
<1>5. CASE Undo(i)
  <2> DEFINE rest == [run EXCEPT !.toUndo = @ \ {i}]
  <2>1. objects' = objects \ {<<c, i>>}
    BY <1>3, <1>5 DEF Undo
  <2>2. /\ Others(c) /\ InEffect(c)' \subseteq InEffect(c) /\ i \notin InEffect(c)'
    BY <1>1, <1>2, <2>1 DEF InEffect, Writes, Steps, Others
  <2>3. rest \in RunRecords /\ rest.toUndo = run.toUndo \ {i} /\ rest.command = c
        /\ rest.done = run.done /\ rest.applied = run.applied /\ rest.before = run.before
        /\ rest.mode = run.mode /\ rest.phase = run.phase /\ rest.state = "compensating"
    BY <1>1, <1>3 DEF RunRecords
  <2>4. \/ run' = rest
        \/ rest.toUndo = {} /\ run' = [rest EXCEPT !.state = "compensated"]
    <3>1. rest.toUndo = {} => Advance(rest, <<run.state, "compensated">>)
      BY <1>5 DEF Undo
    <3>2. rest.toUndo # {} => run' = rest
      BY <1>5 DEF Undo
    <3>3. ASSUME Advance(rest, <<run.state, "compensated">>)
          PROVE  run' = [rest EXCEPT !.state = "compensated"]
      <4> HIDE DEF rest
      <4> QED BY <1>1, <3>3, LegalFacts, AdvanceTwo
    <3> QED BY <3>1, <3>2, <3>3
  <2>5. /\ run' \in RunRecords /\ run'.command = c /\ run'.done = run.done
        /\ run'.applied = run.applied /\ run'.before = run.before /\ run'.mode = run.mode
        /\ run'.phase = run.phase /\ run'.toUndo = run.toUndo \ {i}
        /\ run'.state \in {"compensating", "compensated"}
        /\ run'.state = "compensated" => run'.toUndo = {}
    <3>1. "compensated" \in RunStates
      BY DEF RunStates, Final
    <3> HIDE DEF rest
    <3> QED BY <2>3, <2>4, <3>1 DEF RunRecords
  <2>6. \A k \in InEffect(c) : k \in 1..run.done /\ Ops[c][k].undoable => k \in run.toUndo
    BY <1>1, <1>2, <1>3 DEF UndoInv
  <2>7. UndoInv'
    BY <2>2, <2>5, <2>6 DEF UndoInv
  <2>8. EndInv'
    BY <2>5 DEF EndInv, Legal
  <2> QED BY <1>2, <1>3, <2>2, <2>5, <2>7, <2>8, CloseKeeps DEF Final
<1> QED BY <1>4, <1>5

LEMMA RunInit == Init => RunInv
<1>1. ASSUME Init PROVE RunInv
  <2>1. TypeOK
    BY <1>1, IdleTyped, OrchestratorAssumption DEF Init, TypeOK, NoRecord
  <2>2. ActiveInv /\ SettledInv
    BY <1>1 DEF Init, ActiveInv, SettledInv, NoRecord
  <2> QED BY <2>1, <2>2 DEF RunInv
<1> QED BY <1>1

LEMMA RunNext == RunInv /\ [Next]_vars => RunInv'
<1> SUFFICES ASSUME RunInv, [Next]_vars PROVE RunInv'
  OBVIOUS
<1>1. CASE \E c \in Commands : \/ \E mode \in {"execute", "simulate"} : Submit(c, mode)
                               \/ Withdraw(c)
  BY <1>1, SubmitKeeps, WithdrawKeeps
<1>2. CASE RunStep
  BY <1>2, SucceedKeeps, FailKeeps, ReadBackKeeps, DropKeeps, CompleteKeeps, UndoKeeps,
     StoreKeeps DEF RunStep
<1>3. CASE Crash
  BY <1>3, DropKeeps
<1>4. CASE UNCHANGED vars
  BY ZenonT(40), <1>4 DEF vars, RunInv, TypeOK, ActiveInv, WorkInv, ListInv, UndoInv, EndInv, InFlight,
              SettledInv, InEffect, Writes, Steps
<1> QED BY <1>1, <1>2, <1>3, <1>4 DEF Next

-----------------------------------------------------------------------------
(* Theorems. *)

\* The state of a run and what is at the provider always fit together.
THEOREM RunInvariant == Spec => []RunInv
  BY RunInit, RunNext, PTL DEF Spec

\* Every variable keeps its type; no operation is attempted more than MaxAttempts times.
THEOREM OrchestratorTypeCorrect == Spec => []TypeOK
<1>1. RunInv => TypeOK
  BY DEF RunInv
<1> QED BY <1>1, RunInvariant, PTL

\* An applied receipt is true of the provider, whatever preceded it.
THEOREM VerifiedCorrect == Spec => []VerifiedIsComplete
<1>1. RunInv => VerifiedIsComplete
  BY DEF RunInv, SettledInv, VerifiedIsComplete
<1> QED BY <1>1, RunInvariant, PTL

\* With a port that reports uncertain writes, a run lists all it leaves there.
THEOREM ListingCorrect == Spec => []EffectsAreListed
<1>1. RunInv => EffectsAreListed
  BY DEF RunInv, ActiveInv, ListInv, EffectsAreListed, Idle
<1> QED BY <1>1, RunInvariant, PTL

\* With such a port no write that took effect is called again in its run.
THEOREM RetryCorrect == Spec => []ReadbackBeforeRetryIfReported
<1>1. RunInv => ReadbackBeforeRetryIfReported
  <2> SUFFICES ASSUME RunInv, port = "reporting", Calling,
                      run.done + 1 \in InEffect(run.command) \ run.before
               PROVE  FALSE
    BY DEF ReadbackBeforeRetryIfReported, ReadbackBeforeRetry
  <2>1. /\ InFlight /\ run.phase = "call" /\ ListInv
        /\ run.applied \subseteq 1..run.done /\ run.done \in Nat
    BY CallFacts DEF Calling, InFlight, RunInv, ActiveInv
  <2>2. InEffect(run.command) \subseteq run.before \cup run.applied
    BY <2>1 DEF ListInv
  <2> QED BY <2>1, <2>2
<1> QED BY <1>1, RunInvariant, PTL

\* A run that ends compensated has nothing left in effect that it could undo.
THEOREM CompensationCorrect == Spec => []CompensatedIsUndone
<1>1. RunInv => CompensatedIsUndone
  BY DEF RunInv, ActiveInv, UndoInv, CompensatedIsUndone, Idle
<1> QED BY <1>1, RunInvariant, PTL

\* Of commands that have operations, every transition asked for is legal.
THEOREM TransitionsCorrect == Spec => []OnlyEmptyCommandsAreIllegal
<1>1. RunInv => OnlyEmptyCommandsAreIllegal
  BY DEF RunInv, ActiveInv, EndInv, OnlyEmptyCommandsAreIllegal, Idle
<1> QED BY <1>1, RunInvariant, PTL

\* No outcome is refused by the models it is stored in.
THEOREM StorableCorrect == Spec => []OutcomeIsStorable
<1>1. RunInv => OutcomeIsStorable
  BY DEF RunInv, ActiveInv, EndInv, OutcomeIsStorable, Storable, Idle, Final
<1> QED BY <1>1, RunInvariant, PTL

-----------------------------------------------------------------------------
(* Steps, and the refinement of CommandOutcome. *)

\* Only writes take effect.
OnlyWrites == \A c \in Commands, i \in Nat : <<c, i>> \in objects => i \in Writes(c)

\* What a step may do: one write of the running command, kept or taken back; or the
\* record of the run that ends; or the loss of all records.
StepKinds ==
    \/ UNCHANGED <<objects, record>>
    \/ /\ UNCHANGED record
       /\ \E c \in Commands : \E i \in Writes(c) :
            /\ c = run.command /\ run'.command = c
            /\ objects' \in {objects \cup {<<c, i>>}, objects \ {<<c, i>>}}
    \/ /\ UNCHANGED objects
       /\ run.command \in Commands /\ run.state \in Final /\ run' = Idle
       /\ record' = [record EXCEPT ![run.command] =
                       [state |-> run.state, applied |-> run.applied, named |-> run.named]]
    \/ /\ UNCHANGED objects /\ run' = Idle
       /\ record' = [c \in Commands |-> NoRecord] /\ crashes' # crashes

LEMMA CallStep ==
    ASSUME RunInv, Calling, objects' \in {objects, objects \cup Effect}, UNCHANGED record,
           run'.command = run.command
    PROVE  StepKinds
<1>1. PICK c \in Commands : c = run.command
  BY CallFacts DEF Calling, InFlight
<1>2. CASE Effect = {}
  <2>1. objects' = objects
    BY <1>2
  <2> QED BY <2>1 DEF StepKinds
<1>3. CASE Effect # {}
  <2>1. run.done + 1 \in Writes(c)
    BY <1>1, <1>3, EffectFacts
  <2>2. Effect = {<<c, run.done + 1>>}
    BY <1>1, <1>3 DEF Effect
  <2>3. CASE objects' = objects
    BY <2>3 DEF StepKinds
  <2>4. CASE objects' = objects \cup {<<c, run.done + 1>>}
    BY <1>1, <2>1, <2>4 DEF StepKinds
  <2> QED BY <2>2, <2>3, <2>4
<1> QED BY <1>2, <1>3

LEMMA StepFacts == ASSUME RunInv, OnlyWrites, [Next]_vars PROVE StepKinds
<1>1. CASE Succeed
  <2>1. Calling /\ TypeOK /\ run \in RunRecords
    BY <1>1 DEF Succeed, RunInv, TypeOK
  <2>2. run'.command = run.command
    BY <1>1, <2>1, SucceedIs DEF Returned, RunRecords
  <2> QED BY <1>1, <2>1, <2>2, CallStep DEF Succeed
<1>2. ASSUME NEW retryable \in BOOLEAN, NEW landed \in BOOLEAN, NEW flagged \in BOOLEAN,
             Fail(retryable, landed, flagged)
      PROVE  StepKinds
  <2>1. /\ Calling /\ TypeOK /\ run \in RunRecords /\ InFlight
        /\ objects' \in {objects, objects \cup Effect} /\ UNCHANGED record
    BY <1>2 DEF Fail, RunInv, TypeOK, Calling, InFlight
  <2>2. CASE flagged
    <3>1. run' = [run EXCEPT !.phase = "readback", !.retryable = retryable]
      BY <1>2, <2>2 DEF Fail, AfterError
    <3>2. run'.command = run.command
      BY <2>1, <3>1 DEF RunRecords
    <3> QED BY <2>1, <3>2, CallStep
  <2>3. CASE ~flagged
    <3>1. Retry(retryable)
      BY <1>2, <2>3 DEF Fail, AfterError
    <3>2. run'.command = run.command
      BY <2>1, <3>1, RetryIs DEF RunRecords
    <3> QED BY <2>1, <3>2, CallStep
  <2> QED BY <2>2, <2>3
<1>3. ASSUME NEW i \in run.toUndo, Undo(i) PROVE StepKinds
  <2>1. /\ run.state = "compensating" /\ objects' = objects \ {<<run.command, i>>}
        /\ UNCHANGED record /\ run \in RunRecords
    BY <1>3 DEF Undo, Undoing, RunInv, TypeOK
  <2>2. run.command \in Commands /\ i \in Nat
    BY <2>1 DEF RunInv, ActiveInv, Idle, RunRecords
  <2>3. CASE i \in Writes(run.command)
    <3>1. run'.command = run.command
      <4> DEFINE rest == [run EXCEPT !.toUndo = @ \ {i}]
      <4>1. run' = rest \/ Advance(rest, <<run.state, "compensated">>)
        BY <1>3 DEF Undo
      <4>2. rest \in RunRecords /\ rest.command = run.command
        BY <2>1 DEF RunRecords
      <4>3. ASSUME Advance(rest, <<run.state, "compensated">>)
            PROVE  run' = [rest EXCEPT !.state = "compensated"]
        <5> HIDE DEF rest
        <5> QED BY <2>1, <4>3, LegalFacts, AdvanceTwo
      <4> HIDE DEF rest
      <4> QED BY <4>1, <4>2, <4>3 DEF RunRecords
    <3> QED BY <2>1, <2>2, <2>3, <3>1 DEF StepKinds
  <2>4. CASE i \notin Writes(run.command)
    <3>1. objects' = objects
      BY <2>1, <2>2, <2>4 DEF OnlyWrites
    <3> QED BY <2>1, <3>1 DEF StepKinds
  <2> QED BY <2>3, <2>4
<1>4. CASE Store
  <2>1. run.state \in Final /\ run' = Idle /\ UNCHANGED objects
    BY <1>4 DEF Store
  <2>2. run.command \in Commands
    BY <2>1 DEF RunInv, ActiveInv, Idle, Final
  <2> QED BY <1>4, <2>1, <2>2 DEF Store, StepKinds
<1>5. CASE Crash
  <2>1. crashes' # crashes
    BY <1>5 DEF Crash, RunInv, TypeOK
  <2> QED BY <1>5, <2>1 DEF Crash, StepKinds
<1>6. CASE \/ ReadBack \/ Escape \/ Raise \/ Complete
           \/ (\E i \in run.toUndo : UndoFails(i)) \/ UNCHANGED vars
           \/ \E c \in Commands : (\E mode \in {"execute", "simulate"} : Submit(c, mode))
                                  \/ Withdraw(c)
  BY <1>6 DEF ReadBack, Escape, Raise, Complete, UndoFails, vars, Submit, Withdraw, StepKinds
<1> QED BY <1>1, <1>2, <1>3, <1>4, <1>5, <1>6 DEF Next, RunStep

LEMMA OnlyWritesInvariant == Spec => []OnlyWrites
<1>1. Init => OnlyWrites
  BY DEF Init, OnlyWrites
<1>2. RunInv /\ OnlyWrites /\ [Next]_vars => OnlyWrites'
  <2> SUFFICES ASSUME RunInv, OnlyWrites, [Next]_vars PROVE OnlyWrites'
    OBVIOUS
  <2>1. StepKinds
    BY StepFacts
  <2>2. \/ objects' \subseteq objects
        \/ \E c \in Commands : \E i \in Writes(c) : objects' \subseteq objects \cup {<<c, i>>}
    BY <2>1 DEF StepKinds
  <2> QED BY <2>2 DEF OnlyWrites, Writes, Steps
<1> QED BY <1>1, <1>2, RunInvariant, PTL DEF Spec

LEMMA FinalStep ==
    ASSUME RunInv, RunInv', OnlyWrites, [Next]_vars,
           NEW c \in Commands, record[c].state = "verified"
    PROVE  /\ InEffect(c)' = InEffect(c)
           /\ run'.command # c
           /\ record'[c] = record[c] \/ crashes' # crashes
<1>1. run.command # c /\ StepKinds
  BY StepFacts DEF RunInv, SettledInv
<1>2. record'[c].state = "verified" => run'.command # c
  BY DEF RunInv, SettledInv
<1>3. CASE UNCHANGED <<objects, record>>
  BY <1>2, <1>3 DEF InEffect, Writes, Steps
<1>4. CASE /\ UNCHANGED record
           /\ \E d \in Commands : \E i \in Writes(d) :
                /\ d = run.command /\ run'.command = d
                /\ objects' \in {objects \cup {<<d, i>>}, objects \ {<<d, i>>}}
  BY <1>1, <1>4 DEF InEffect, Writes, Steps
<1>5. CASE /\ UNCHANGED objects
           /\ run.command \in Commands /\ run.state \in Final /\ run' = Idle
           /\ record' = [record EXCEPT ![run.command] =
                           [state |-> run.state, applied |-> run.applied, named |-> run.named]]
  <2>1. record \in [Commands -> [state : Final \cup {"none"}, applied : SUBSET Nat,
                                named : SUBSET Nat]]
    BY DEF RunInv, TypeOK
  <2>2. record'[c] = record[c]
    BY <1>1, <1>5, <2>1
  <2> QED BY <1>2, <1>5, <2>2 DEF InEffect, Writes, Steps
<1>6. CASE /\ UNCHANGED objects /\ run' = Idle
           /\ record' = [d \in Commands |-> NoRecord] /\ crashes' # crashes
  BY <1>6, OrchestratorAssumption DEF Idle, InEffect, Writes, Steps
<1> QED BY <1>1, <1>3, <1>4, <1>5, <1>6 DEF StepKinds

\* A command whose receipt says applied is not run, changed or recorded again.
THEOREM VerifiedFinalCorrect == Spec => VerifiedIsFinal
<1>1. RunInv /\ RunInv' /\ OnlyWrites /\ [Next]_vars =>
        [\A c \in Commands : record[c].state = "verified"
           => /\ InEffect(c)' = InEffect(c)
              /\ run'.command # c
              /\ record'[c] = record[c] \/ crashes' # crashes]_vars
  BY FinalStep
<1> QED BY <1>1, RunInvariant, OnlyWritesInvariant, PTL DEF Spec, VerifiedIsFinal

\* The actions of CommandOutcome, of this module's variables.
LEMMA OutcomeChange ==
    ASSUME NEW c \in Commands, NEW i \in Writes(c), verdict[c] # "settled", UNCHANGED verdict,
           objects' \in {objects \cup {<<c, i>>}, objects \ {<<c, i>>}}
    PROVE  Outcome!OutcomeNext
<1>1. i \in [d \in Commands |-> Writes(d)][c]
  OBVIOUS
<1>2. Outcome!Change(c, i)
  BY Zenon DEF Outcome!Change
<1> QED BY <1>1, <1>2, Zenon DEF Outcome!OutcomeNext

LEMMA OutcomeJudge ==
    ASSUME NEW c \in Commands, NEW v \in {"reported", "settled"}, verdict[c] # "settled",
           v = "settled" => InEffect(c) = Writes(c),
           verdict' = [verdict EXCEPT ![c] = v], UNCHANGED objects
    PROVE  Outcome!OutcomeNext
<1>1. Outcome!EffectsOf(c) = InEffect(c) /\ [d \in Commands |-> Writes(d)][c] = Writes(c)
  BY DEF Outcome!EffectsOf, InEffect
<1>2. v = "settled" => Outcome!EffectsOf(c) = [d \in Commands |-> Writes(d)][c]
  BY <1>1
<1>3. Outcome!Judge(c, v)
  BY <1>2, Zenon DEF Outcome!Judge
<1> QED BY <1>3, Zenon DEF Outcome!OutcomeNext

LEMMA OutcomeStep ==
    ASSUME RunInv, OnlyWrites, [Next]_vars
    PROVE  Outcome!OutcomeNext \/ UNCHANGED <<objects, verdict>>
<1>1. StepKinds /\ \A c \in Commands : verdict[c] = "settled" <=> record[c].state = "verified"
  BY StepFacts DEF verdict
<1>2. UNCHANGED record => UNCHANGED verdict
  BY DEF verdict
<1>3. CASE UNCHANGED <<objects, record>>
  BY <1>2, <1>3
<1>4. CASE /\ UNCHANGED record
           /\ \E c \in Commands : \E i \in Writes(c) :
                /\ c = run.command /\ run'.command = c
                /\ objects' \in {objects \cup {<<c, i>>}, objects \ {<<c, i>>}}
  <2>1. PICK c \in Commands : \E i \in Writes(c) :
               c = run.command /\ objects' \in {objects \cup {<<c, i>>}, objects \ {<<c, i>>}}
    BY <1>4
  <2>2. record[c].state # "verified"
    BY <2>1 DEF RunInv, SettledInv
  <2> QED BY <1>1, <1>2, <1>4, <2>1, <2>2, OutcomeChange
<1>5. CASE /\ UNCHANGED objects
           /\ run.command \in Commands /\ run.state \in Final /\ run' = Idle
           /\ record' = [record EXCEPT ![run.command] =
                           [state |-> run.state, applied |-> run.applied, named |-> run.named]]
  <2>1. PICK c \in Commands : c = run.command
    BY <1>5
  <2> DEFINE v == IF run.state = "verified" THEN "settled" ELSE "reported"
  <2>2. record \in [Commands -> [state : Final \cup {"none"}, applied : SUBSET Nat,
                                named : SUBSET Nat]]
    BY DEF RunInv, TypeOK
  <2>3. /\ record'[c].state = run.state /\ run.state # "none"
        /\ \A d \in Commands : d # c => record'[d] = record[d]
    BY <1>5, <2>1, <2>2 DEF Final
  <2>4. verdict' = [verdict EXCEPT ![c] = v]
    BY <2>3 DEF verdict
  <2>5. v = "settled" => InEffect(c) = Writes(c)
    BY <2>1 DEF RunInv, ActiveInv, EndInv, Idle
  <2>6. verdict[c] # "settled"
    BY <1>1, <2>1 DEF RunInv, SettledInv
  <2>7. v \in {"reported", "settled"}
    OBVIOUS
  <2> HIDE DEF v
  <2> QED BY <1>5, <2>4, <2>5, <2>6, <2>7, OutcomeJudge
<1>6. CASE /\ UNCHANGED objects /\ run' = Idle
           /\ record' = [c \in Commands |-> NoRecord] /\ crashes' # crashes
  <2>1. verdict' = [c \in Commands |-> "open"]
    BY <1>6 DEF verdict, NoRecord
  <2>2. Outcome!LoseVerdicts
    BY <1>6, <2>1, Zenon DEF Outcome!LoseVerdicts
  <2> QED BY <2>2, Zenon DEF Outcome!OutcomeNext
<1> QED BY <1>1, <1>3, <1>4, <1>5, <1>6 DEF StepKinds

\* Whatever is retried, undone or forgotten, a command's verdict is given after its
\* effects, and "settled" is true and final: Orchestrator implements CommandOutcome.
THEOREM OutcomeCorrect == Spec => ImplementsOutcome
<1>1. Init => Outcome!OutcomeInit
  BY DEF Init, Outcome!OutcomeInit, verdict, NoRecord
<1>2. RunInv /\ OnlyWrites /\ [Next]_vars => [Outcome!OutcomeNext]_(Outcome!outcomeVars)
  BY OutcomeStep DEF Outcome!outcomeVars
<1> QED
  BY RunInvariant, OnlyWritesInvariant, <1>1, <1>2, PTL
     DEF Spec, ImplementsOutcome, Outcome!OutcomeSpec
=============================================================================
