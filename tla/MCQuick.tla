------------------------------ MODULE MCQuick ------------------------------
(* Small instances of QuickInitialization. *)
EXTENDS QuickInitialization
=============================================================================
