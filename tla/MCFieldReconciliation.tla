------------------------ MODULE MCFieldReconciliation ------------------------
(* Instances of FieldReconciliation for TLC. *)
EXTENDS FieldReconciliation

\* One field of each authority; the other fields have no rule.
BothWays == [f \in Fields |-> CASE f = 1 -> "todoist" [] f = 2 -> "notion"
                                [] OTHER -> "unknown"]

\* " p1" is what somebody typed for "p1".
Typed == [v \in Values |-> IF v = " p1" THEN "p1" ELSE v]

\* Each side lacks what the other is the authority of.
Differing == {[s \in Sides |-> [f \in Fields |-> IF Rule[f] = s THEN "p1" ELSE "none"]]}

\* The authority's value changes, in substance or in its spelling only; the copy is
\* overwritten; a field nobody has a rule for appears.
Typing == {<<"todoist", 1, "none">>, <<"todoist", 1, " p1">>, <<"notion", 2, "none">>,
           <<"notion", 1, "none">>, <<"todoist", 2, " p1">>, <<"notion", 3, "p1">>}
=============================================================================
