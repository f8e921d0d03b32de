--------------------------- MODULE MCOrchestrator ---------------------------
(* Small instances of Orchestrator. *)
EXTENDS Orchestrator

Task == [kind |-> "write", provider |-> "todoist", undoable |-> FALSE]
Page == [Task EXCEPT !.provider = "notion"]
Read(op) == [op EXCEPT !.kind = "read"]
Verify(op) == [op EXCEPT !.kind = "verify"]
Undoable(op) == [op EXCEPT !.undoable = TRUE]

\* The commands the factory builds for a parent task and its page, with one read of
\* each kind; one with undoable writes around one that is not, as the tests of
\* compensation build; and one without operations, which the contract admits.
Samples == [planned |-> <<Read(Task), Task, Verify(Task), Page, Verify(Page)>>,
            undone |-> <<Undoable(Task), Task, Undoable(Task), Task>>,
            empty |-> <<>>]
=============================================================================
