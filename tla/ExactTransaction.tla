-------------------------- MODULE ExactTransaction --------------------------
(***************************************************************************)
(* What attended execution promises, without journal rows, receipts or     *)
(* retries: a transaction is begun with one plan and with no other; a task *)
(* is created at the provider at most once per operation, for a plan that   *)
(* was begun and has not completed; a transaction completes once, when all  *)
(* its operations have taken effect.  AttendedExecution implements this     *)
(* while nobody executes a transaction that is being executed.              *)
(***************************************************************************)
EXTENDS Sequences, Integers

CONSTANTS Plans, Transactions, Keys, TxOf, KeysOf

VARIABLES
    begun,     \* plans whose transaction was begun
    created,   \* keys under which the provider created a task
    done       \* completed transactions

promiseVars == <<begun, created, done>>

KeysOfPlan(p) == {KeysOf[p][i] : i \in 1..Len(KeysOf[p])}

PromiseInit == begun = {} /\ created = {} /\ done = {}

\* A plan is begun under a transaction id, and with keys, that no other plan has.
BeginPlan(p) ==
    /\ \A q \in begun : TxOf[q] # TxOf[p] /\ KeysOfPlan(q) \cap KeysOfPlan(p) = {}
    /\ begun' = begun \cup {p}
    /\ UNCHANGED <<created, done>>

TakeEffect(k) ==
    /\ k \notin created
    /\ \E p \in begun : k \in KeysOfPlan(p) /\ TxOf[p] \notin done
    /\ created' = created \cup {k}
    /\ UNCHANGED <<begun, done>>

Finish(p) ==
    /\ p \in begun
    /\ TxOf[p] \notin done
    /\ KeysOfPlan(p) \subseteq created
    /\ done' = done \cup {TxOf[p]}
    /\ UNCHANGED <<begun, created>>

PromiseNext ==
    \/ \E p \in Plans : BeginPlan(p) \/ Finish(p)
    \/ \E k \in Keys : TakeEffect(k)

PromiseSpec == PromiseInit /\ [][PromiseNext]_promiseVars
=============================================================================
