-------------------------- MODULE ExecutionPlanning --------------------------
(***************************************************************************)
(* The execution planner (src/atlas_ros/planning/execution.py): which      *)
(* candidates of a management package become tasks, in which order, and    *)
(* how many.  It keeps no state; its operators are functions of the        *)
(* candidates and of the index of what exists already.                     *)
(*                                                                         *)
(* Texts are compared after normalization, so that a text is its normal    *)
(* form.  The workstream, section and item of a candidate are one number,  *)
(* its place in their order.                                               *)
(***************************************************************************)
EXTENDS Integers, SequencesExt

CONSTANTS
    Resembling,       \* pairs of titles that are nearly, not quite, the same
    Observable,       \* the Done-when texts that are specific
    MaxSteps,         \* ExecutionPlanningPolicy.max_steps
    ReviewThreshold,  \* its review_threshold
    AllowExpanded     \* its allow_expanded_budget

ASSUME PlanningAssumption ==
    /\ \A pair \in Resembling : pair[1] # pair[2] /\ <<pair[2], pair[1]>> \in Resembling
    /\ MaxSteps \in Nat /\ ReviewThreshold \in Nat /\ MaxSteps <= ReviewThreshold
    /\ AllowExpanded \in BOOLEAN

-----------------------------------------------------------------------------
(* Candidates. *)

Candidate ==
    [id : Int, type : {"parent", "action", "management"}, title : STRING, objective : STRING,
     doneWhen : STRING, item : Int, deps : SUBSET Int, mine : BOOLEAN, ready : BOOLEAN,
     horizon : {"current", "next", "conditional", "future", "blocked", "not_applicable"},
     triggered : BOOLEAN, complete : BOOLEAN, unclear : BOOLEAN, embedded : BOOLEAN,
     valuable : BOOLEAN, independent : BOOLEAN, recurring : BOOLEAN, neutral : BOOLEAN]

\* An action, as a section of the package lists it; the fields that are left out of
\* the list have these values, but for ready.
Action(id, title, item) ==
    [id |-> id, type |-> "action", title |-> title, objective |-> title, doneWhen |-> title,
     item |-> item, deps |-> {}, mine |-> TRUE, ready |-> TRUE, horizon |-> "current",
     triggered |-> FALSE, complete |-> FALSE, unclear |-> FALSE, embedded |-> FALSE,
     valuable |-> TRUE, independent |-> TRUE, recurring |-> FALSE, neutral |-> TRUE]

\* The outcome of the package itself.
Outcome(id, title, item) == [Action(id, title, item) EXCEPT !.type = "parent"]

\* A decision, approval, requirement or piece of evidence of the package.
ManagementItem(id, title, item) ==
    [Action(id, title, item) EXCEPT !.type = "management", !.doneWhen = "", !.ready = FALSE,
        !.horizon = "not_applicable", !.embedded = TRUE, !.valuable = FALSE,
        !.independent = FALSE]

UniqueIds(given) == \A i, j \in DOMAIN given : given[i].id = given[j].id => i = j

-----------------------------------------------------------------------------
(* Orders.  An order of candidates is a set of pairs of their positions. *)

Pairs(given) == (DOMAIN given) \X (DOMAIN given)

\* As they are given.  (Mutation, where another order is meant.)
AsGiven(given) == {pair \in Pairs(given) : pair[1] < pair[2]}

\* By identifier; those with one identifier stay in order.
ById(given) ==
    {pair \in Pairs(given) :
        \/ given[pair[1]].id < given[pair[2]].id
        \/ given[pair[1]].id = given[pair[2]].id /\ pair \in AsGiven(given)}

ByItem(given) ==
    {pair \in Pairs(given) :
        \/ given[pair[1]].item < given[pair[2]].item
        \/ given[pair[1]].item = given[pair[2]].item /\ pair \in ById(given)}

\* The number of the positions that go before this one.
Rank(position, positions, before) == Cardinality({i \in positions : <<i, position>> \in before})

\* The values at some positions, in order.
InOrder(values, positions, before) ==
    [k \in 1..Cardinality(positions) |->
        values[CHOOSE i \in positions : Rank(i, positions, before) = k - 1]]

-----------------------------------------------------------------------------
(* Duplicates. *)

\* One of the layers says that the two are the same.  (Candidates with equal canonical
\* signatures have equal objectives and Done-when texts.)
Matches(c, d) ==
    \/ c.id = d.id
    \/ c.title = d.title
    \/ c.objective = d.objective /\ c.doneWhen = d.doneWhen
    \/ c.item = d.item
    \/ c.type = "parent" /\ c.objective = d.title
    \/ d.type = "parent" /\ d.objective = c.title
    \/ c.deps # {} /\ c.deps = d.deps /\ c.objective = d.objective

\* The two may be the same: somebody has to look.
Resembles(c, d) == c.type = d.type /\ <<c.title, d.title>> \in Resembling

\* What the first of the kept candidates, among those sorted by identifier, that has to
\* do with the k-th makes of it.
Finding(sorted, k, kept) ==
    LET close == {j \in kept : Matches(sorted[k], sorted[j]) \/ Resembles(sorted[k], sorted[j])}
    IN  IF close = {} THEN "new"
        ELSE IF Matches(sorted[k], sorted[Min(close)]) THEN "duplicate" ELSE "ambiguous"

\* Mutation: compared with all that went before, kept or not.
AnalysisOfAll(sorted) == [k \in DOMAIN sorted |-> Finding(sorted, k, 1..(k - 1))]

\* Each candidate is compared with those kept so far.
Analysis(sorted) ==
    LET finding[k \in DOMAIN sorted] ==
            Finding(sorted, k, {j \in 1..(k - 1) : finding[j] = "new"})
    IN  finding

\* The last of the candidates with this identifier.
LastWith(candidates, id) == candidates[Max({i \in DOMAIN candidates : candidates[i].id = id})]

\* Of candidates with one identifier only the last finding stays.
Findings(given) ==
    LET sorted == InOrder(given, DOMAIN given, ById(given))
        finding == Analysis(sorted)
    IN  [id \in {given[i].id : i \in DOMAIN given} |->
            finding[Max({k \in DOMAIN sorted : sorted[k].id = id})]]

-----------------------------------------------------------------------------
(* What exists already. *)

\* How an object that exists, open, completed or cancelled, relates to the candidate.
Relation(c, object) ==
    CASE c.id = object.source -> "exact"
      [] /\ c.id # object.source
         /\ c.objective = object.objective /\ c.doneWhen = object.doneWhen ->
             IF object.state = "completed" THEN "completed" ELSE "open"
      [] OTHER -> "none"

Match(c, index) ==
    LET equivalent == {object \in index : Relation(c, object) # "none"}
    IN  IF equivalent = {} THEN "none"
        ELSE IF \E o1, o2 \in equivalent : o1 # o2 THEN "ambiguous"
        ELSE Relation(c, CHOOSE object \in equivalent : TRUE)

\* Mutation: only open objects count.
RepresentedIfOpen(c, match) == match = "open"

Represented(c, match) == match \in {"exact", "open"} \/ (match = "completed" /\ ~c.recurring)

-----------------------------------------------------------------------------
(* The decision on one candidate. *)

Unresolved(c) == c.unclear \/ (c.deps # {} /\ ~c.ready)

Horizon(c) ==
    CASE c.complete -> "completed"
      [] ~c.complete /\ Unresolved(c) -> "blocked"
      [] ~c.complete /\ ~Unresolved(c) /\ c.horizon = "conditional" /\ c.triggered -> "current"
      [] OTHER -> c.horizon

Executable(c) == c.type \in {"parent", "action"}

\* The Task Projection Test.
Passes(c, finding, match) ==
    /\ c.mine
    /\ Executable(c) /\ c.independent
    /\ c.ready
    /\ c.doneWhen \in Observable
    /\ ~c.complete
    /\ Horizon(c) = "current"
    /\ ~Unresolved(c)
    /\ finding = "new"
    /\ ~Represented(c, match) /\ match # "ambiguous"
    /\ ~c.embedded
    /\ c.valuable
    /\ c.neutral

\* The first reason against projecting it.
Status(c, finding, match) ==
    IF finding = "duplicate" THEN "suppress_duplicate"
    ELSE IF finding = "ambiguous" THEN "review_required"
    ELSE IF Represented(c, match) THEN "suppress_existing"
    ELSE IF match = "ambiguous" THEN "review_required"
    ELSE IF Horizon(c) \in {"next", "conditional", "future"} THEN "defer"
    ELSE IF ~c.mine THEN "withhold_not_owned"
    ELSE IF c.complete THEN "withhold_complete"
    ELSE IF Unresolved(c) THEN "withhold_unresolved"
    ELSE IF ~Executable(c) \/ c.embedded THEN "withhold_not_object"
    ELSE IF ~Passes(c, finding, match) THEN "withhold_not_ready"
    ELSE "project"

-----------------------------------------------------------------------------
(* Plans. *)

\* Mutation: one more than the threshold goes without a review.
AllowedOneMore(n) == IF n > ReviewThreshold + 1 THEN 0 ELSE n

\* How many of n eligible steps are projected.
Allowed(n) ==
    CASE n > ReviewThreshold -> 0
      [] MaxSteps < n /\ n <= ReviewThreshold /\ AllowExpanded -> n
      [] OTHER -> IF n <= MaxSteps THEN n ELSE MaxSteps

Outcomes(given) ==
    InOrder(given, {i \in DOMAIN given : given[i].type = "parent"}, ById(given))

\* Of candidates with one identifier the last is looked up in the index.
Decision(c, given, index) ==
    Status(c, Findings(given)[c.id], Match(LastWith(given, c.id), index))

\* The positions of the candidates that may be steps under the outcome.
Eligible(given, outcome, index) ==
    {i \in DOMAIN given : /\ given[i].type # "parent" /\ given[i].id # outcome.id
                          /\ Decision(given[i], given, index) = "project"}

\* The plan of the first outcome: the outcome, if it is projected, and the steps under it.
\* Steps are selected by identifier, and of those with one the last is taken.
Plan(given, index) ==
    LET outcome == Outcomes(given)[1]
        eligible == Eligible(given, outcome, index)
        inOrder == InOrder(given, eligible, ByItem(given))
        selected == {inOrder[k].id : k \in 1..Allowed(Cardinality(eligible))}
    IN  [outcome |-> outcome, projected |-> Decision(outcome, given, index) = "project",
         steps |-> InOrder([i \in eligible |-> LastWith(inOrder, given[i].id)],
                           {i \in eligible : given[i].id \in selected}, ByItem(given)),
         review |-> Cardinality(eligible) > ReviewThreshold]

\* An outcome and the candidates that depend on it.
Part(given, outcome) ==
    <<outcome>> \o InOrder(given, {i \in DOMAIN given : given[i].type # "parent"
                                                        /\ outcome.id \in given[i].deps},
                           AsGiven(given))

\* Several outcomes have a plan each, with the candidates that depend on them; an outcome
\* that is the double of another, or not projected, has none.  A plan carries the
\* number of its outcome, 0 if there is only one.
Plans(given, index) ==
    LET outcomes == Outcomes(given)
        numbered == [n \in DOMAIN outcomes |->
                        [number |-> n, plan |-> Plan(Part(given, outcomes[n]), index)]]
    IN  IF Len(outcomes) <= 1
          THEN <<[number |-> 0, plan |-> Plan(given, index)]>>
          ELSE InOrder(numbered,
                       {n \in DOMAIN outcomes : /\ Findings(outcomes)[outcomes[n].id] = "new"
                                                /\ numbered[n].plan.projected},
                       AsGiven(outcomes))
=============================================================================
