----------------------------- MODULE AtLeastOnce -----------------------------
(***************************************************************************)
(* What the outbox promises, without batches, files and processes: what is *)
(* written was accepted, what is settled was written, and nothing that was *)
(* settled or written is ever not.  An event may be written again, before  *)
(* it is settled or after.  Outbox implements this whoever exports at once *)
(* and whatever fails.                                                      *)
(***************************************************************************)
CONSTANT Events

VARIABLES accepted, written, settled   \* sets of events

DeliveryInit == accepted = {} /\ written = {} /\ settled = {}

Accept(e) ==
    /\ e \notin accepted
    /\ accepted' = accepted \cup {e}
    /\ UNCHANGED <<written, settled>>

Write(S) ==
    /\ S \subseteq accepted
    /\ written' = written \cup S
    /\ UNCHANGED <<accepted, settled>>

Settle(S) ==
    /\ S \subseteq written
    /\ settled' = settled \cup S
    /\ UNCHANGED <<accepted, written>>

DeliveryNext ==
    \/ \E e \in Events : Accept(e)
    \/ \E S \in SUBSET Events : Write(S) \/ Settle(S)

DeliverySpec == DeliveryInit /\ [][DeliveryNext]_<<accepted, written, settled>>
=============================================================================
