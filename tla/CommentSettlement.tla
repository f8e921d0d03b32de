-------------------------- MODULE CommentSettlement --------------------------
(***************************************************************************)
(* What reconciliation promises of a comment, without commands and          *)
(* checkpoints: a plan takes it up while it is open, what it asks for is    *)
(* carried out, as often as it takes, and then it is settled for good, as   *)
(* applied only if it has been carried out and as informational only if it  *)
(* asks for nothing or for what is there already; or it is set aside.  An   *)
(* explicit command is done with when it is settled; a delegation may be    *)
(* carried out again by any plan that took it up while it was open.         *)
(* Reconciliation implements this, whatever fails or dies.                  *)
(***************************************************************************)
EXTENDS Integers

CONSTANTS Comments, Kind, Markers, MarkerOf

VARIABLES
    approved,  \* comments some plan has taken up
    record,    \* comments with the record they ask for
    tasks,     \* tasks[m]: how many tasks with marker m were made
    named,     \* named[c]: the task the record of comment c names, or 0
    outcome    \* outcome[c]: "open", or what comment c was settled as

Outcomes == {"applied", "informational", "ignored"}

SettlementInit ==
    /\ approved = {} /\ record = {}
    /\ tasks = [m \in Markers |-> 0]
    /\ named = [c \in Comments |-> 0]
    /\ outcome = [c \in Comments |-> "open"]

Approve(new) ==
    /\ \A c \in new : outcome[c] = "open"
    /\ approved' = approved \cup new
    /\ UNCHANGED <<record, tasks, named, outcome>>

Withdraw(old) ==
    /\ approved' = approved \ old
    /\ UNCHANGED <<record, tasks, named, outcome>>

MakeRecord(c) ==
    /\ \/ Kind[c] = "command" /\ outcome[c] = "open"
       \/ Kind[c] = "delegate" /\ c \in approved
    /\ record' = record \cup {c}
    /\ UNCHANGED <<approved, tasks, named, outcome>>

Delegated(c) == Kind[c] = "delegate" /\ c \in approved /\ c \in record

MakeTask(c) ==
    /\ Delegated(c)
    /\ tasks' = [tasks EXCEPT ![MarkerOf[c]] = @ + 1]
    /\ UNCHANGED <<approved, record, named, outcome>>

\* The record names the latest task of its marker.
NameTask(c) ==
    /\ Delegated(c) /\ tasks[MarkerOf[c]] > 0
    /\ named' = [named EXCEPT ![c] = tasks[MarkerOf[c]]]
    /\ UNCHANGED <<approved, record, tasks, outcome>>

CarriedOut(c) ==
    \/ Kind[c] = "conflicting"
    \/ Kind[c] = "command" /\ c \in record
    \/ Kind[c] = "delegate" /\ c \in record /\ named[c] \in 1..tasks[MarkerOf[c]]

Settle(c, as) ==
    /\ as = "informational" => Kind[c] \in {"note", "command"}
    /\ as = "applied" => CarriedOut(c)
    /\ outcome[c] = "open"
    /\ outcome' = [outcome EXCEPT ![c] = as]
    /\ UNCHANGED <<approved, record, tasks, named>>

SettlementNext ==
    \/ \E some \in SUBSET Comments : Approve(some) \/ Withdraw(some)
    \/ \E c \in Comments :
          \/ MakeRecord(c) \/ MakeTask(c) \/ NameTask(c)
          \/ \E as \in Outcomes : Settle(c, as)

SettlementSpec ==
    SettlementInit /\ [][SettlementNext]_<<approved, record, tasks, named, outcome>>
=============================================================================
