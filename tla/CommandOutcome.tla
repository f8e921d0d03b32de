--------------------------- MODULE CommandOutcome ---------------------------
(***************************************************************************)
(* What the orchestrator promises of a command, without attempts, states or *)
(* compensation: the verdict on a command is given after its effects came   *)
(* and went; "settled" is given when every write of it is in effect, and    *)
(* neither the verdict nor the effects change afterwards, unless all        *)
(* verdicts are lost.                                                      *)
(***************************************************************************)
CONSTANTS Commands, WritesOf

VARIABLES
    effects,   \* the writes <<c, i>> in effect
    verdict    \* verdict[c]: "open", "reported" or "settled"

outcomeVars == <<effects, verdict>>

EffectsOf(c) == {i \in WritesOf[c] : <<c, i>> \in effects}

OutcomeInit ==
    /\ effects = {}
    /\ verdict = [c \in Commands |-> "open"]

\* One write of an unsettled command takes effect or is undone.
Change(c, i) ==
    /\ verdict[c] # "settled"
    /\ \/ effects' = effects \cup {<<c, i>>}
       \/ effects' = effects \ {<<c, i>>}
    /\ UNCHANGED verdict

\* The verdict does not change what was done.
Judge(c, v) ==
    /\ verdict[c] # "settled"
    /\ v = "settled" => EffectsOf(c) = WritesOf[c]
    /\ verdict' = [verdict EXCEPT ![c] = v]
    /\ UNCHANGED effects

LoseVerdicts ==
    /\ verdict' = [c \in Commands |-> "open"]
    /\ UNCHANGED effects

OutcomeNext ==
    \/ \E c \in Commands : \/ \E i \in WritesOf[c] : Change(c, i)
                           \/ \E v \in {"reported", "settled"} : Judge(c, v)
    \/ LoseVerdicts

OutcomeSpec == OutcomeInit /\ [][OutcomeNext]_outcomeVars
=============================================================================
