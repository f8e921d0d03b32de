-------------------------- MODULE ExecutionJournal --------------------------
(***************************************************************************)
(* The SQLite journal of attended execution                                *)
(* (src/atlas_ros/adapters/local_sqlite.py, SQLiteExecutionJournal): the    *)
(* tables execution_transactions and execution_operations, and what each   *)
(* of its methods reads and writes.                                        *)
(*                                                                         *)
(* As in EventQueue, a SELECT is a predicate and the writes of one method   *)
(* are one action: sqlite3 opens its transaction at the first write, so     *)
(* what a method reads before that may have changed when it writes.         *)
(*                                                                         *)
(* UNIQUE (provider, idempotency_key) makes the key name the operation's    *)
(* row, so the columns of execution_operations are functions of the key.    *)
(***************************************************************************)
EXTENDS Integers, Sequences

CONSTANTS
    Plans,         \* authorized plans: an authorization id and a plan digest
    Transactions,  \* transaction ids
    Keys,          \* pairs (provider, idempotency key)
    TxOf,          \* Plans -> Transactions, the id a plan is executed under
    KeysOf,        \* Plans -> the keys of its operations, in canonical sequence
    NoPlan         \* no row of execution_transactions

\* AuthorizedExecutionPlan: at least one operation, no idempotency key twice.
ASSUME PlansAssumption ==
    /\ TxOf \in [Plans -> Transactions]
    /\ KeysOf \in [Plans -> Seq(Keys)]
    /\ \A p \in Plans : /\ KeysOf[p] # << >>
                        /\ \A i, j \in 1..Len(KeysOf[p]) :
                              KeysOf[p][i] = KeysOf[p][j] => i = j
    /\ NoPlan \notin Plans

VARIABLES
    txPlan,       \* txPlan[t]: the identity in the row of t, or NoPlan
    txState,      \* txState[t]: its state column
    opState,      \* opState[k]: state column of the operation with key k
    writeDigest,  \* writeDigest[k]: its write_digest
    readDigest    \* readDigest[k]: its readback_digest

journalVars == <<txPlan, txState, opState, writeDigest, readDigest>>

TxStates == {"absent", "prepared", "executing", "failed", "completed"}
OpStates == {"absent", "prepared", "written", "verified", "failed"}

\* What the provider holds under a key: nothing, the task as the plan authorized
\* it, or the task as somebody edited it later.
Contents == {"none", "authorized", "edited"}

KeySet(p) == {KeysOf[p][i] : i \in 1..Len(KeysOf[p])}

JournalTypeOK ==
    /\ txPlan \in [Transactions -> Plans \cup {NoPlan}]
    /\ txState \in [Transactions -> TxStates]
    /\ opState \in [Keys -> OpStates]
    /\ writeDigest \in [Keys -> Contents]
    /\ readDigest \in [Keys -> Contents]

JournalInit ==
    /\ txPlan = [t \in Transactions |-> NoPlan]
    /\ txState = [t \in Transactions |-> "absent"]
    /\ opState = [k \in Keys |-> "absent"]
    /\ writeDigest = [k \in Keys |-> "none"]
    /\ readDigest = [k \in Keys |-> "none"]

-----------------------------------------------------------------------------
(* begin() *)

Known(t) == txPlan[t] # NoPlan

\* Mutation: the identity of the existing row is not compared.
AdmitsAnyIdentity(p) == Known(TxOf[p]) => txState[TxOf[p]] # "completed"

\* The SELECT lets plan p pass: its transaction is new, or is p's own and not
\* completed.
Admits(p) ==
    Known(TxOf[p]) => /\ txPlan[TxOf[p]] = p
                      /\ txState[TxOf[p]] # "completed"

\* The INSERTs meet no row with the same transaction id or the same key.
CanInsert(p) == ~Known(TxOf[p]) /\ \A k \in KeySet(p) : opState[k] = "absent"

InsertPlan(p) ==
    /\ txPlan' = [txPlan EXCEPT ![TxOf[p]] = p]
    /\ txState' = [txState EXCEPT ![TxOf[p]] = "prepared"]
    /\ opState' = [k \in Keys |-> IF k \in KeySet(p) THEN "prepared" ELSE opState[k]]
    /\ UNCHANGED <<writeDigest, readDigest>>

\* A retry: the transaction is prepared again, its operations stay as they are.
PrepareAgain(t) ==
    /\ txState' = [txState EXCEPT ![t] = "prepared"]
    /\ UNCHANGED <<txPlan, opState, writeDigest, readDigest>>

-----------------------------------------------------------------------------
(* record_write(), record_readback(), fail(), complete() *)

\* Mutation: a retry does not take the verification of the earlier write back.
JournalWriteOnce(t, k, d) ==
    /\ txState' = [txState EXCEPT ![t] = "executing"]
    /\ opState' = [opState EXCEPT ![k] = IF @ = "verified" THEN @ ELSE "written"]
    /\ writeDigest' = [writeDigest EXCEPT ![k] = d]
    /\ UNCHANGED <<txPlan, readDigest>>

JournalWrite(t, k, d) ==
    /\ txState' = [txState EXCEPT ![t] = "executing"]
    /\ opState' = [opState EXCEPT ![k] = "written"]
    /\ writeDigest' = [writeDigest EXCEPT ![k] = d]
    /\ UNCHANGED <<txPlan, readDigest>>

\* The SELECT of record_readback() finds the write that was read back.
MatchesWrite(k, d) == opState[k] = "written" /\ writeDigest[k] = d

JournalReadback(k, d) ==
    /\ opState' = [opState EXCEPT ![k] = "verified"]
    /\ readDigest' = [readDigest EXCEPT ![k] = d]
    /\ UNCHANGED <<txPlan, txState, writeDigest>>

\* fail() looks at nothing before it writes.
JournalFailure(t, k) ==
    /\ txState' = [txState EXCEPT ![t] = "failed"]
    /\ opState' = [opState EXCEPT ![k] = "failed"]
    /\ UNCHANGED <<txPlan, writeDigest, readDigest>>

\* The SELECT of complete().
AllVerified(p) == \A k \in KeySet(p) : opState[k] = "verified"

JournalCompletion(t) ==
    /\ txState' = [txState EXCEPT ![t] = "completed"]
    /\ UNCHANGED <<txPlan, opState, writeDigest, readDigest>>
=============================================================================
