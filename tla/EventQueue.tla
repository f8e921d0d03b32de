----------------------------- MODULE EventQueue -----------------------------
(***************************************************************************)
(* The durable event queue of v8.3 event reconciliation                    *)
(* (src/atlas_ros/reconciliation/events.py, DurableEventQueue): the table  *)
(* event_reconciliation_event, the table event_object_lease, the receipts, *)
(* and every database statement the queue executes on them.                *)
(*                                                                         *)
(* This module has no processes.  Each operator below is ONE statement (or *)
(* one BEGIN IMMEDIATE transaction) of the queue: a SELECT is a predicate  *)
(* on the tables, an UPDATE or INSERT is an action on them.  sqlite3 opens *)
(* its implicit transaction at the first write, so only claim() reads and  *)
(* writes atomically; EventProcessor interleaves the others.               *)
(***************************************************************************)
EXTENDS Integers, FiniteSets

CONSTANTS
    Events,       \* event rows; the numbers are the order of (received_at, event_id)
    Objects,      \* pairs (provider, canonical_object_id)
    Workers,      \* worker ids
    Snapshots,    \* digests of the current provider state of an object
    Mappings,     \* receipt mappings an applier may return, identified by their digests
    ObjectOf,     \* Events -> Objects
    IdentityOf,   \* Events -> (provider, canonical_identity, object_version)
    MaxAttempts,  \* fail()'s max_attempts: 5 in the code
    Nobody,       \* NULL lease_holder
    NoEvent,      \* no row of event_object_lease
    NoSnapshot    \* the empty normalized_snapshot_digest

ASSUME EventsAssumption == Events \subseteq Nat
ASSUME ObjectOfAssumption == ObjectOf \in [Events -> Objects]
ASSUME IdentityOfAssumption == DOMAIN IdentityOf = Events
ASSUME MaxAttemptsAssumption == MaxAttempts \in Nat \ {0}
ASSUME NullAssumption ==
    Nobody \notin Workers /\ NoEvent \notin Events /\ NoSnapshot \notin Snapshots

VARIABLES
    state,        \* state column; "absent" before accept() inserts the row
    holder,       \* lease_holder
    lease,        \* lease_expires_at: NULL, in the future, or in the past
    backoff,      \* next_attempt_at lies in the future
    attempts,     \* attempt_count, which saturates at MaxAttempts here
    digest,       \* normalized_snapshot_digest
    objectRow,    \* event_object_lease: the event_id of the object's row
    objectLive,   \* expires_at of that row lies in the future
    receipts      \* event_reconciliation_receipt: <<event, snapshot planned from, mapping>>

leaseVars == <<holder, lease, objectRow, objectLive>>
queueVars == <<state, holder, lease, backoff, attempts, digest,
               objectRow, objectLive, receipts>>

-----------------------------------------------------------------------------
(* The durable state machine. *)

TerminalStates == {"applied", "duplicate", "no_change", "informational",
                   "ignored", "blocked", "dead_letter"}

ActiveStates == {"validated", "snapshot_loaded", "planned", "policy_evaluated",
                 "applying", "readback_verified"}

EventStates == TerminalStates \cup ActiveStates
                 \cup {"received", "failed", "awaiting_approval"}

\* _TRANSITIONS: the states a row may move to; the terminal ones have no entry.
Successors(s) ==
    CASE s = "received"          -> {"validated", "blocked", "duplicate"}
      [] s = "validated"         -> {"snapshot_loaded", "blocked", "duplicate", "failed"}
      [] s = "snapshot_loaded"   -> {"planned", "no_change", "informational", "ignored", "failed"}
      [] s = "planned"           -> {"policy_evaluated", "failed"}
      [] s = "policy_evaluated"  -> {"applying", "awaiting_approval", "blocked", "failed"}
      [] s = "awaiting_approval" -> {"applying", "blocked", "planned"}
      [] s = "applying"          -> {"readback_verified", "failed", "blocked"}
      [] s = "readback_verified" -> {"applied", "failed"}
      [] s = "failed"            -> {"validated", "dead_letter", "blocked"}
      [] OTHER                   -> {}

Leases == {"none", "live", "lapsed"}

QueueTypeOK ==
    /\ state \in [Events -> EventStates \cup {"absent"}]
    /\ holder \in [Events -> Workers \cup {Nobody}]
    /\ lease \in [Events -> Leases]
    /\ backoff \in [Events -> BOOLEAN]
    /\ attempts \in [Events -> 0..MaxAttempts]
    /\ digest \in [Events -> Snapshots \cup {NoSnapshot}]
    /\ objectRow \in [Objects -> Events \cup {NoEvent}]
    /\ objectLive \in [Objects -> BOOLEAN]
    /\ receipts \subseteq Events \X Snapshots \X Mappings

QueueInit ==
    /\ state = [e \in Events |-> "absent"]
    /\ holder = [e \in Events |-> Nobody]
    /\ lease = [e \in Events |-> "none"]
    /\ backoff = [e \in Events |-> FALSE]
    /\ attempts = [e \in Events |-> 0]
    /\ digest = [e \in Events |-> NoSnapshot]
    /\ objectRow = [o \in Objects |-> NoEvent]
    /\ objectLive = [o \in Objects |-> FALSE]
    /\ receipts = {}

-----------------------------------------------------------------------------
(* accept() and the lookups it shares with bind_snapshot(). *)

\* Another row with the same provider, identity, version and snapshot digest.
HasSemanticTwin(e, d) ==
    \E f \in Events \ {e} : /\ state[f] # "absent"
                            /\ IdentityOf[f] = IdentityOf[e]
                            /\ digest[f] = d

\* accept() inserts the row.  An envelope that already carries a snapshot digest
\* d is stored as a duplicate when its SELECT found a twin; a webhook carries none.
InsertEvent(e, d, twin) ==
    /\ state[e] = "absent"
    /\ state' = [state EXCEPT ![e] = IF twin THEN "duplicate" ELSE "received"]
    /\ digest' = [digest EXCEPT ![e] = d]
    /\ UNCHANGED <<backoff, attempts, receipts, leaseVars>>

-----------------------------------------------------------------------------
(* claim(): one BEGIN IMMEDIATE transaction. *)

\* Mutation: the NOT EXISTS on event_object_lease is missing.
ClaimableIgnoringObjects(e) ==
    /\ state[e] \in {"received", "failed"}
    /\ ~backoff[e]
    /\ lease[e] # "live"

Claimable(e) ==
    /\ state[e] \in {"received", "failed"}
    /\ ~backoff[e]
    /\ lease[e] # "live"
    /\ ~objectLive[ObjectOf[e]]

\* ORDER BY received_at, event_id LIMIT 1
Oldest(e) == \A f \in Events : Claimable(f) => e <= f

ClaimEvent(w, e) ==
    /\ Claimable(e)
    /\ Oldest(e)
    /\ holder' = [holder EXCEPT ![e] = w]
    /\ lease' = [lease EXCEPT ![e] = "live"]
    /\ objectRow' = [objectRow EXCEPT ![ObjectOf[e]] = e]
    /\ objectLive' = [objectLive EXCEPT ![ObjectOf[e]] = TRUE]
    /\ UNCHANGED <<state, backoff, attempts, digest, receipts>>

-----------------------------------------------------------------------------
(* transition(): a SELECT with three refusals, then an UPDATE (and a DELETE of *)
(* the object lease when the new state releases the event).                    *)

\* RuntimeError: the row is terminal, or new is not a successor of its state.
IllegalTransition(e, new) == new \notin Successors(state[e])

\* PermissionError: someone else holds the lease.  Expiry is not looked at, and
\* the operator's empty worker id (Nobody) passes.
HeldByAnother(e, w) == w # Nobody /\ holder[e] # Nobody /\ holder[e] # w

ReleasesLease(new) == new \in TerminalStates \cup {"awaiting_approval", "failed"}

\* DELETE FROM event_object_lease WHERE event_id = e
DeleteObjectLease(e) ==
    /\ objectRow' = [o \in Objects |-> IF objectRow[o] = e THEN NoEvent ELSE objectRow[o]]
    /\ objectLive' = [o \in Objects |-> objectLive[o] /\ objectRow[o] # e]

\* The UPDATE writes back the lease h, l that the SELECT had read.
WriteTransition(e, new, h, l) ==
    /\ state' = [state EXCEPT ![e] = new]
    /\ IF ReleasesLease(new)
         THEN /\ holder' = [holder EXCEPT ![e] = Nobody]
              /\ lease' = [lease EXCEPT ![e] = "none"]
              /\ DeleteObjectLease(e)
         ELSE /\ holder' = [holder EXCEPT ![e] = h]
              /\ lease' = [lease EXCEPT ![e] = l]
              /\ UNCHANGED <<objectRow, objectLive>>
    /\ UNCHANGED <<backoff, attempts, digest, receipts>>

-----------------------------------------------------------------------------
(* The UPDATEs of bind_snapshot(), fail() and record_receipt(). *)

WriteDigest(e, d) ==
    /\ digest' = [digest EXCEPT ![e] = d]
    /\ UNCHANGED <<state, backoff, attempts, receipts, leaseVars>>

\* Mutation: no dead letter at all.
FailureStateRetryForever(n, limit) == "failed"

\* fail() checks neither the state nor the holder of the row.  n is the
\* attempt_count its SELECT read, limit its max_attempts argument.
FailureState(n, limit) == IF n + 1 >= limit THEN "dead_letter" ELSE "failed"

WriteFailure(e, n, limit) ==
    /\ state' = [state EXCEPT ![e] = FailureState(n, limit)]
    /\ attempts' = [attempts EXCEPT ![e] = IF n < MaxAttempts THEN n + 1 ELSE n]
    /\ backoff' = [backoff EXCEPT ![e] = FailureState(n, limit) = "failed"]
    /\ holder' = [holder EXCEPT ![e] = Nobody]
    /\ lease' = [lease EXCEPT ![e] = "none"]
    /\ DeleteObjectLease(e)
    /\ UNCHANGED <<digest, receipts>>

\* The primary key is the digest of the mapping alone, and the INSERT has OR IGNORE: an
\* equal mapping on record, of whatever event, stays the only one.
OnRecord(r) == \E f \in Events, t \in Snapshots : <<f, t, r>> \in receipts

InsertReceipt(e, s, r) ==
    /\ receipts' = IF OnRecord(r) THEN receipts ELSE receipts \cup {<<e, s, r>>}
    /\ UNCHANGED <<state, backoff, attempts, digest, leaseVars>>

\* EventOperator.release_dead_letter(): a fresh attempt budget, due at once.
WriteRelease(e) ==
    /\ state' = [state EXCEPT ![e] = "failed"]
    /\ attempts' = [attempts EXCEPT ![e] = 0]
    /\ backoff' = [backoff EXCEPT ![e] = FALSE]
    /\ UNCHANGED <<digest, receipts, leaseVars>>

-----------------------------------------------------------------------------
(* Time.  The clock is abstracted to the two instants the queries compare with: *)
(* the end of a lease and the end of a backoff.                                 *)

\* claim() gives both leases of an event the same expiry, so they end together.
LapseEventLease(e) ==
    /\ lease[e] = "live"
    /\ lease' = [lease EXCEPT ![e] = "lapsed"]
    /\ objectLive' = [o \in Objects |-> objectLive[o] /\ objectRow[o] # e]
    /\ UNCHANGED <<state, holder, backoff, attempts, digest, objectRow, receipts>>

\* An object lease whose event row lost the matching expiry ends on its own.
LapseObjectLease(o) ==
    /\ objectLive[o]
    /\ lease[objectRow[o]] # "live"
    /\ objectLive' = [objectLive EXCEPT ![o] = FALSE]
    /\ UNCHANGED <<state, holder, lease, backoff, attempts, digest, objectRow, receipts>>

EndBackoff(e) ==
    /\ backoff[e]
    /\ backoff' = [backoff EXCEPT ![e] = FALSE]
    /\ UNCHANGED <<state, attempts, digest, receipts, leaseVars>>
=============================================================================
