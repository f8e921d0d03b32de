------------------------ MODULE QuickInitialization ------------------------
(***************************************************************************)
(* Quick Initialization (src/atlas_ros/kernel/bootstrap.py), each operation *)
(* guarded by its circuit breaker (kernel/initialization_circuit_breaker.py)*)
(* and sharing the warm cache (runtime/warm.py): authority is read at       *)
(* GitHub, checked against the release index, the manifest and Notion's     *)
(* System State, and the operation ends READY, with warnings, or BLOCKED.   *)
(*                                                                         *)
(* A step is the answer of a provider with what is checked and changed up   *)
(* to the next call.  Releases are promoted meanwhile, and code inside a    *)
(* provider, or after the end, may itself call through the breaker.         *)
(***************************************************************************)
EXTENDS Integers, FiniteSets

CONSTANTS
    Procs,          \* the initializations
    Versions,       \* the releases
    NoVersion,      \* not a release
    Undated,        \* releases whose authority record has no ISO-8601 last_verified_at
    RetryBudget,    \* InitializationOperation.retry_budget
    MaxPromotions,  \* bound on the promotions of a behaviour
    MaxProbes       \* bound on its calls from outside the orchestration

ReadBudget == 6     \* clean_cold_read_budget

Reads == {"authority", "index", "manifest", "system", "inventory", "liveness"}

Terminal == {"ready", "ready_with_warnings", "blocked"}

ASSUME InitializationAssumption ==
    /\ NoVersion \notin Versions
    /\ Undated \subseteq Versions
    /\ RetryBudget \in {0, 1}
    /\ MaxPromotions \in Nat /\ MaxProbes \in Nat

VARIABLES
    head,        \* the release AUTHORITY.json and RELEASE_INDEX.md name at HEAD
    published,   \* the release Notion's System State names
    cache,       \* the snapshot in the warm cache
    op,          \* op[p]: the operation of initialization p
    promotions, probes   \* how much of each bound is used

vars == <<head, published, cache, op, promotions, probes>>

\* state is the breaker's, one of the reads while it is expected; attempt counts the
\* calls of the read in progress and nested those of a call made inside it (0: none).
\* live, docs and stated are the releases that authority, the documents and the System
\* State were read to name.  active is history: the releases that GitHub and Notion
\* both named at some moment since the operation began.
NewOperation == [state |-> "not_started", reading |-> "authority", attempt |-> 0, nested |-> 0,
                 reads |-> 0, retries |-> 0, done |-> {}, rejected |-> FALSE,
                 warm |-> FALSE, path |-> "cold", warned |-> FALSE,
                 live |-> NoVersion, docs |-> NoVersion, stated |-> NoVersion,
                 outcome |-> "none", active |-> {}]

OperationRecords ==
    [state : Reads \cup Terminal \cup {"not_started"}, reading : Reads,
     attempt : 0..(RetryBudget + 1), nested : 0..(RetryBudget + 1),
     reads : 0..(ReadBudget + RetryBudget), retries : 0..RetryBudget, done : SUBSET Reads,
     rejected : BOOLEAN, warm : BOOLEAN, path : {"cold", "warm", "warm_fallback_to_cold"},
     warned : BOOLEAN, live : Versions \cup {NoVersion}, docs : Versions \cup {NoVersion},
     stated : Versions \cup {NoVersion},
     outcome : Terminal \cup {"none", "raised"}, active : SUBSET Versions]

NoSnapshot == [of |-> NoVersion, intact |-> FALSE, fresh |-> FALSE]
Snapshots == {NoSnapshot} \cup [of : Versions, intact : BOOLEAN, fresh : BOOLEAN]

TypeOK ==
    /\ head \in Versions /\ published \in Versions
    /\ cache \in Snapshots
    /\ op \in [Procs -> OperationRecords]
    /\ promotions \in 0..MaxPromotions
    /\ probes \in 0..MaxProbes

\* Whatever an earlier session left in the cache is there.
Init ==
    /\ head \in Versions
    /\ published = head
    /\ cache \in Snapshots
    /\ op = [p \in Procs |-> NewOperation]
    /\ promotions = 0
    /\ probes = 0

BothName == IF head = published THEN {head} ELSE {}

-----------------------------------------------------------------------------
(* Around the operations. *)

Witnessed == op' = [p \in Procs |-> [op[p] EXCEPT !.active = @ \cup (BothName')]]

\* A release is made active or rolled back to: the authority record and the release
\* index change in one commit, once System State has followed the last such commit.
Promote(v) ==
    /\ promotions < MaxPromotions
    /\ published = head
    /\ head' = v
    /\ promotions' = promotions + 1
    /\ UNCHANGED <<published, cache, probes>>
    /\ Witnessed

\* System State is brought up to date.
Publish ==
    /\ published' = head
    /\ UNCHANGED <<head, cache, promotions, probes>>
    /\ Witnessed

\* The snapshot outlives its TTL, or its file is damaged.
SnapshotAges ==
    /\ \/ cache' = [cache EXCEPT !.fresh = FALSE]
       \/ cache' = [cache EXCEPT !.intact = FALSE]
    /\ UNCHANGED <<head, published, op, promotions, probes>>

-----------------------------------------------------------------------------
(* The breaker. *)

\* Mutation: an error leaves the breaker open.
BlockedUnlocked(o) == [o EXCEPT !.attempt = 0, !.outcome = "blocked"]

\* The exception handler of quick_initialize: the operation is blocked and a receipt
\* reports it, unless the date of the authority record cannot be put into it.
Blocked(o) ==
    [o EXCEPT !.state = "blocked", !.attempt = 0,
              !.outcome = IF o.live \in Undated THEN "raised" ELSE "blocked"]

\* Mutation: a call that is turned down leaves the operation as it is.
DenyOnly(o) == [o EXCEPT !.rejected = TRUE]

\* A call that may not be made blocks the operation.
Deny(o) == [o EXCEPT !.state = "blocked", !.rejected = TRUE]

\* Mutation: the budget allows one read more.
WithinBudgetOneMore(o) == o.reads <= ReadBudget + RetryBudget

WithinBudget(o) == o.reads < ReadBudget + RetryBudget

\* Mutation: a read is retried whatever happened meanwhile.
MayRetryAlways(o, attempt) == attempt = 1 /\ o.retries < RetryBudget

\* After a transient error.
MayRetry(o, attempt) ==
    attempt = 1 /\ o.retries < RetryBudget /\ o.state \notin Terminal

\* The orchestration calls its next provider.
Issue(o, attempt) ==
    IF WithinBudget(o) THEN [o EXCEPT !.reads = @ + 1, !.attempt = attempt]
                       ELSE Blocked(Deny(o))

\* transition() to the next state, and the read it expects.
ReadNext(o, read) ==
    IF o.state \in Terminal
      THEN Blocked(o)
      ELSE Issue([o EXCEPT !.state = read, !.reading = read], 1)

-----------------------------------------------------------------------------
(* The orchestration. *)

Begin(p, warm) ==
    /\ op[p].state = "not_started"
    /\ op' = [op EXCEPT ![p] = Issue([op[p] EXCEPT !.state = "authority", !.warm = warm,
                                                   !.active = BothName], 1)]
    /\ UNCHANGED <<head, published, cache, promotions, probes>>

\* p waits for the answer to its own call, and no call inside it is in progress.
Waits(p) == op[p].attempt > 0 /\ op[p].nested = 0

\* The provider of the current read has answered.
Answered(p, read) ==
    [op[p] EXCEPT !.done = @ \cup {read}, !.attempt = 0]

Answering(p, read) == Waits(p) /\ op[p].reading = read

\* Mutation: the source digest is not compared.
UsableOfAny(o) == o.warm /\ cache.intact /\ cache.fresh

\* A snapshot made of the same authority, undamaged and not expired.
Usable(o) == o.warm /\ cache.intact /\ cache.of = o.live /\ cache.fresh

\* A cache that cannot be used means cold reads, with a warning unless there is no
\* snapshot or it has only expired.
FellBack(o) ==
    IF ~o.warm \/ cache.of = NoVersion
      THEN o
      ELSE [o EXCEPT !.path = "warm_fallback_to_cold",
                     !.warned = ~(cache.intact /\ cache.of = o.live)]

AuthorityRead(p) ==
    /\ Answering(p, "authority")
    /\ LET o == [Answered(p, "authority") EXCEPT !.live = head]
       IN  op' = [op EXCEPT ![p] =
             IF o.state \notin Terminal /\ Usable(o)
               THEN ReadNext([o EXCEPT !.path = "warm", !.docs = cache.of], "system")
               ELSE ReadNext(IF o.state \in Terminal THEN o ELSE FellBack(o), "index")]
    /\ UNCHANGED <<head, published, cache, promotions, probes>>

\* The index at HEAD has the digest the authority record gives.
IndexAgrees(o) == head = o.live

IndexRead(p) ==
    /\ Answering(p, "index")
    /\ LET o == Answered(p, "index")
       IN  op' = [op EXCEPT ![p] =
             IF IndexAgrees(o) THEN ReadNext([o EXCEPT !.docs = head], "manifest")
                               ELSE Blocked(o)]
    /\ UNCHANGED <<head, published, cache, promotions, probes>>

\* The manifest is read at the immutable commit; then the snapshot is stored, which
\* may fail.
ManifestRead(p) ==
    /\ Answering(p, "manifest")
    /\ \E stored \in BOOLEAN :
         LET o == Answered(p, "manifest")
         IN  /\ stored => o.warm
             /\ cache' = IF stored THEN [of |-> o.live, intact |-> TRUE, fresh |-> TRUE]
                                   ELSE cache
             /\ op' = [op EXCEPT ![p] =
                  ReadNext([o EXCEPT !.warned = @ \/ (o.warm /\ ~stored)], "system")]
    /\ UNCHANGED <<head, published, promotions, probes>>

\* Mutation: System State is read and not compared.
StateAgreesAlways(o) == TRUE

StateAgrees(o) == published = o.live

SystemStateRead(p) ==
    /\ Answering(p, "system")
    /\ LET o == [Answered(p, "system") EXCEPT !.stated = published]
       IN  op' = [op EXCEPT ![p] =
             IF StateAgrees(o) THEN ReadNext(o, "inventory") ELSE Blocked(o)]
    /\ UNCHANGED <<head, published, cache, promotions, probes>>

InventoryRead(p) ==
    /\ Answering(p, "inventory")
    /\ op' = [op EXCEPT ![p] = ReadNext(Answered(p, "inventory"), "liveness")]
    /\ UNCHANGED <<head, published, cache, promotions, probes>>

\* Terminalized, the operation has its receipt unless the date cannot be put into it.
LivenessRead(p) ==
    /\ Answering(p, "liveness")
    /\ LET o == Answered(p, "liveness")
           end == IF o.warned THEN "ready_with_warnings" ELSE "ready"
       IN  op' = [op EXCEPT ![p] =
             IF o.state \in Terminal
               THEN Blocked(o)
               ELSE [o EXCEPT !.state = end,
                              !.outcome = IF o.live \in Undated THEN "raised" ELSE end]]
    /\ UNCHANGED <<head, published, cache, promotions, probes>>

\* What was read is malformed, or says that something is not ready.
Contradicted(p) ==
    /\ Waits(p)
    /\ op' = [op EXCEPT ![p] = Blocked(Answered(p, op[p].reading))]
    /\ UNCHANGED <<head, published, cache, promotions, probes>>

\* The provider raised.
Failed(p, transient) ==
    /\ Waits(p)
    /\ LET o == op[p]
       IN  op' = [op EXCEPT ![p] =
             IF transient /\ MayRetry(o, o.attempt)
               THEN Issue([o EXCEPT !.retries = @ + 1], 2)
               ELSE Blocked(o)]
    /\ UNCHANGED <<head, published, cache, promotions, probes>>

-----------------------------------------------------------------------------
(* Calls from outside the orchestration. *)

\* A call after the end is turned down and recorded, and nothing else.
Refused(o) == IF o.state \in Terminal THEN o ELSE Deny(o)

\* Code inside a provider, or after the end, calls through the breaker: for the read
\* in progress and its exact target, or for anything else.
Probe(p, exact) ==
    /\ probes < MaxProbes
    /\ op[p].nested = 0 /\ op[p].state # "not_started"
    /\ LET o == op[p]
       IN  op' = [op EXCEPT ![p] =
             IF /\ exact /\ o.state = o.reading
                /\ o.reading \notin o.done
                /\ WithinBudget(o)
               THEN [o EXCEPT !.reads = @ + 1, !.nested = 1]
               ELSE Refused(o)]
    /\ probes' = probes + 1
    /\ UNCHANGED <<head, published, cache, promotions>>

\* The nested call is answered, or fails and may be retried.
NestedAnswered(p) ==
    /\ op[p].nested > 0
    /\ op' = [op EXCEPT ![p].done = @ \cup {op[p].reading}, ![p].nested = 0]
    /\ UNCHANGED <<head, published, cache, promotions, probes>>

NestedFailed(p, transient) ==
    /\ op[p].nested > 0
    /\ LET o == op[p]
       IN  op' = [op EXCEPT ![p] =
             IF ~(transient /\ MayRetry(o, o.nested))
               THEN [o EXCEPT !.nested = 0]
               ELSE IF WithinBudget(o)
                      THEN [o EXCEPT !.retries = @ + 1, !.reads = @ + 1, !.nested = 2]
                      ELSE [Deny(o) EXCEPT !.retries = @ + 1, !.nested = 0]]
    /\ UNCHANGED <<head, published, cache, promotions, probes>>

-----------------------------------------------------------------------------

Reading(p) ==
    \/ AuthorityRead(p) \/ IndexRead(p) \/ ManifestRead(p)
    \/ SystemStateRead(p) \/ InventoryRead(p) \/ LivenessRead(p)
    \/ Contradicted(p)
    \/ \E transient \in BOOLEAN : Failed(p, transient) \/ NestedFailed(p, transient)
    \/ NestedAnswered(p)

Next ==
    \/ \E v \in Versions : Promote(v)
    \/ Publish
    \/ SnapshotAges
    \/ \E p \in Procs : \/ \E warm \in BOOLEAN : Begin(p, warm)
                        \/ Reading(p)
                        \/ \E exact \in BOOLEAN : Probe(p, exact)

Spec == Init /\ [][Next]_vars

\* A provider answers or raises in the end.
FairSpec == Spec /\ \A p \in Procs : WF_vars(Reading(p))

-----------------------------------------------------------------------------
(* Safety. *)

IsReady(p) == op[p].state \in {"ready", "ready_with_warnings"}

\* What is READY is one release: authority, documents, even cached ones, and System
\* State were read to name it, at different moments between which releases may have
\* been promoted.
ReadyIsCoherent ==
    \A p \in Procs : IsReady(p) =>
        op[p].docs = op[p].live /\ op[p].stated = op[p].live /\ op[p].live # NoVersion

\* The release that is READY was the active one, for GitHub and Notion at once, at some
\* moment of the initialization.
ReadyWasActive == \A p \in Procs : IsReady(p) => op[p].live \in op[p].active

\* A READY operation has made the reads of its plan, and was never asked for another.
ReadyFollowsPlan ==
    \A p \in Procs : IsReady(p) =>
        /\ op[p].done = IF op[p].path = "warm" THEN Reads \ {"index", "manifest"} ELSE Reads
        /\ ~op[p].rejected

-----------------------------------------------------------------------------
(* Steps. *)

\* No provider is called once the operation is terminal, not even to retry a read that
\* was in progress when it became so.
NoReadAfterEnd ==
    [][\A p \in Procs : op[p].state \in Terminal => op'[p].reads = op[p].reads]_vars

\* A terminal state is final, whatever is called afterwards.
EndIsFinal ==
    [][\A p \in Procs : op[p].state \in Terminal => op'[p].state = op[p].state]_vars

-----------------------------------------------------------------------------
(* Liveness. *)

\* An initialization that has begun ends.
InitializationEnds ==
    \A p \in Procs : op[p].state # "not_started" ~> op[p].state \in Terminal /\ op[p].attempt = 0
=============================================================================
