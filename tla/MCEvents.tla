------------------------------ MODULE MCEvents ------------------------------
(* Small instances of EventProcessor: events 1, 2, ... in receipt order. *)
EXTENDS EventProcessor, TLC

CONSTANTS o1, o2, w1, w2

\* Two deliveries about one object, with one identity and version.
OneObject == [e \in Events |-> o1]
OneIdentity == [e \in Events |-> "item"]

NoEvents == {}
NoteEvents == {2}
ProposalsAndWrites == {"awaiting_approval", "applying"}
OnlyProposals == {"awaiting_approval"}

WorkerSymmetry == Permutations(Workers)
=============================================================================
