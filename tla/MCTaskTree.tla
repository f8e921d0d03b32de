----------------------------- MODULE MCTaskTree -----------------------------
(***************************************************************************)
(* Planning and the task tree with up to five candidates.  Titles and      *)
(* Done-when texts are letters; "near" and "nearer" resemble each other.   *)
(***************************************************************************)
EXTENDS TaskTree

MCResembling == {<<"near", "nearer">>, <<"nearer", "near">>}

MCObservable == {"goal", "side", "a", "b", "c", "near", "nearer"}

goal == Outcome(1, "goal", 1)

\* A step before another waits for a dependency: the other is renumbered.
Renumbered == << [Action(2, "a", 2) EXCEPT !.deps = {9}, !.ready = FALSE], Action(3, "b", 3), goal >>

\* A chain: the third resembles the second, which doubles the first in its place only.
Chain == << goal, [Action(4, "nearer", 4) EXCEPT !.objective = "x"], Action(3, "near", 2),
            Action(2, "a", 2) >>

\* One identifier for two.
TwiceGiven == << goal, Action(2, "a", 2), [Action(2, "b", 3) EXCEPT !.mine = FALSE] >>

\* One identifier for two, of which the second is no double: both are steps, and both
\* are what the second is.
TwiceNew == << goal, [Action(2, "a", 2) EXCEPT !.mine = FALSE],
               [Action(3, "b", 2) EXCEPT !.objective = "x"], Action(3, "c", 3) >>

\* Two outcomes that share a step; the third outcome doubles the second.
Shared == << goal, Outcome(2, "side", 2), Outcome(3, "side", 3),
             [Action(4, "a", 4) EXCEPT !.deps = {1, 2}], [Action(5, "b", 5) EXCEPT !.deps = {1}] >>

\* More steps, in time, than go without a review.
Many == << goal, Action(2, "a", 2), [Action(3, "b", 3) EXCEPT !.horizon = "conditional"],
           [Action(4, "c", 4) EXCEPT !.horizon = "next"] >>

\* Steps that are not, or not yet, for a task.
Kept == << goal, ManagementItem(2, "c", 2), Action(3, "vague", 3), Action(4, "a", 4),
           [Action(5, "b", 5) EXCEPT !.recurring = TRUE] >>

MCInputs == {Renumbered, Chain, TwiceGiven, TwiceNew, Shared, Many, Kept}
=============================================================================
