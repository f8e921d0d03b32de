-------------------------- MODULE MCReconciliation --------------------------
(* Instances of Reconciliation for TLC. *)
EXTENDS Reconciliation, TLC

CONSTANTS a1, a2, m1

\* Comments are numbered, for the kinds of an instance.
MixedKinds == [c \in Comments |-> CASE c = 1 -> "delegate" [] c = 2 -> "command"
                                    [] OTHER -> "transition"]

\* The explicit command is on an Action Record of its own.
TwoActions == [c \in Comments |-> IF c = 2 THEN a2 ELSE a1]
WholeOrOne == {Actions, {a1}}
OneMarker == [c \in Comments |-> m1]

RunSymmetry == Permutations(BaselineRuns)
=============================================================================
