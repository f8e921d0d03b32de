------------------------------- MODULE Outbox -------------------------------
(***************************************************************************)
(* The observability outbox: capture.py and runtime/outbox.py over          *)
(* runtime/database.py.  A capture commits its row and its event in one      *)
(* transaction; export() reads a batch of pending events, writes it to a     *)
(* file named by the digest of its content, and marks the batch exported.    *)
(*                                                                         *)
(* The read and the mark are two transactions with the file between them:    *)
(* processes that export at once, and exports that raise or die anywhere,    *)
(* are what the properties are about.  A transaction is a step: SQLite       *)
(* commits it whole or not at all.  The temporary file is left out: a file   *)
(* gets its name complete (os.replace after fsync).                          *)
(***************************************************************************)
EXTENDS Integers, FiniteSets

CONSTANTS
    NumEvents,    \* events are numbered in the order of created_at
    Exporters,    \* processes that call export()
    Limit,        \* the limit of export()
    MaxFailures   \* bound on the exports that raise or die

Events == 1..NumEvents

ASSUME OutboxAssumption ==
    NumEvents \in Nat /\ Limit \in Nat \ {0} /\ MaxFailures \in Nat

VARIABLES
    status,     \* status[e] of the row of event e in outbox_event, or "absent"
    files,      \* the files of the export directory: each is the set of its events
    work,       \* work[x]: where exporter x is, with its batch
    failures,
    disturbed   \* history: an export failed, or two ran at once

vars == <<status, files, work, failures, disturbed>>

Idle == [pc |-> "idle", batch |-> {}]

\* ORDER BY created_at LIMIT.
Oldest(E) == {e \in E : Cardinality({d \in E : d < e}) < Limit}

Pending == {e \in Events : status[e] = "pending"}

OutboxInit ==
    /\ status = [e \in Events |-> "absent"]
    /\ files = {}
    /\ work = [x \in Exporters |-> Idle]
    /\ failures = 0 /\ disturbed = FALSE

\* CaptureService.capture: a new event, and the pending_capture row with it.  created_at
\* is taken before the transaction: an older event may be committed after a newer one.
Capture(e) ==
    /\ status[e] = "absent"
    /\ status' = [status EXCEPT ![e] = "pending"]
    /\ UNCHANGED <<files, work, failures, disturbed>>

\* Mutation: INSERT OR REPLACE.
EnqueueReplaces(e) ==
    /\ status' = [status EXCEPT ![e] = "pending"]
    /\ UNCHANGED <<files, work, failures, disturbed>>

\* Outbox.enqueue: INSERT OR IGNORE, by anyone and any number of times.
Enqueue(e) ==
    /\ status' = [status EXCEPT ![e] = IF @ = "absent" THEN "pending" ELSE @]
    /\ UNCHANGED <<files, work, failures, disturbed>>

\* Mutation: a batch is exported when it is full.
SelectFull(x) ==
    /\ work[x].pc = "idle" /\ Cardinality(Pending) >= Limit
    /\ work' = [work EXCEPT ![x] = [pc |-> "file", batch |-> Oldest(Pending)]]
    /\ disturbed' = (disturbed \/ \E y \in Exporters \ {x} : work[y] # Idle)
    /\ UNCHANGED <<status, files, failures>>

\* export() begins: it returns when nothing is pending, else holds the batch it read.
Select(x) ==
    /\ work[x].pc = "idle" /\ Pending # {}
    /\ work' = [work EXCEPT ![x] = [pc |-> "file", batch |-> Oldest(Pending)]]
    /\ disturbed' = (disturbed \/ \E y \in Exporters \ {x} : work[y] # Idle)
    /\ UNCHANGED <<status, files, failures>>

\* The file appears under its name; one of the same content is replaced.
Replace(x) ==
    /\ work[x].pc = "file"
    /\ files' = files \cup {work[x].batch}
    /\ work' = [work EXCEPT ![x].pc = "mark"]
    /\ UNCHANGED <<status, failures, disturbed>>

\* Mutation: what is pending now is marked, not what was read.
ExportedPending(B) == [e \in Events |-> IF status[e] = "pending" THEN "exported" ELSE status[e]]

Exported(B) == [e \in Events |-> IF e \in B THEN "exported" ELSE status[e]]

\* UPDATE ... WHERE event_id=?, for the batch, and COMMIT.
Mark(x) ==
    /\ work[x].pc = "mark"
    /\ status' = Exported(work[x].batch)
    /\ work' = [work EXCEPT ![x] = Idle]
    /\ UNCHANGED <<files, failures, disturbed>>

\* The process dies, the disk is full, the database stays locked for 30 seconds.
Fail(x) ==
    /\ work[x] # Idle
    /\ failures < MaxFailures /\ failures' = failures + 1
    /\ work' = [work EXCEPT ![x] = Idle]
    /\ disturbed' = TRUE
    /\ UNCHANGED <<status, files>>

Export(x) == Select(x) \/ Replace(x) \/ Mark(x)

OutboxNext ==
    \/ \E e \in Events : Capture(e) \/ Enqueue(e)
    \/ \E x \in Exporters : Export(x) \/ Fail(x)

Spec == OutboxInit /\ [][OutboxNext]_vars

\* Somebody keeps calling export().
FairSpec == Spec /\ \A x \in Exporters : WF_vars(Export(x))

-----------------------------------------------------------------------------
(* Properties. *)

\* Every variable has its type, and a batch respects the limit (outbox.py:30).
TypeOK ==
    /\ status \in [Events -> {"absent", "pending", "exported"}]
    /\ files \subseteq SUBSET Events
    /\ work \in [Exporters -> [pc : {"idle", "file", "mark"}, batch : SUBSET Events]]
    /\ \A x \in Exporters : Cardinality(work[x].batch) <= Limit
    /\ failures \in 0..MaxFailures /\ disturbed \in BOOLEAN

\* An event marked exported is in a file of the directory, also when events were added
\* and other exports ran or died since its batch was read (outbox.py:54).
ExportedIsWritten ==
    \A e \in Events : status[e] = "exported" => \E F \in files : e \in F

\* When no export failed and none ran beside another, an event is in one file at most,
\* however often it was enqueued (outbox.py:22).
WrittenOnce ==
    ~disturbed => \A F, G \in files : F # G => F \cap G = {}

\* An event once committed is exported in the end (outbox.py:30).
EventuallyExported ==
    \A e \in Events : status[e] # "absent" ~> [](status[e] = "exported")

-----------------------------------------------------------------------------
(* Refinement: what AtLeastOnce promises. *)

Accepted == {e \in Events : status[e] # "absent"}
Written == UNION files
Settled == {e \in Events : status[e] = "exported"}

Promise == INSTANCE AtLeastOnce WITH
    accepted <- Accepted, written <- Written, settled <- Settled

\* Every step of captures, exporters and failures is a step of AtLeastOnce or changes
\* nothing there: only what was captured is written, only what was written is marked, and
\* a mark is never taken back, by a row that is enqueued again (outbox.py:22) or by an
\* exporter that lags behind another (outbox.py:54).
ImplementsAtLeastOnce == Promise!DeliverySpec

=============================================================================
