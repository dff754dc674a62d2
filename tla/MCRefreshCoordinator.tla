-------------------------- MODULE MCRefreshCoordinator --------------------------
(* A small instance of RefreshCoordinator for TLC. *)
EXTENDS RefreshCoordinator

(* Two kinds of change to one path and one kind to another: with a limit of
   one path both the change limit and the path limit are reached.          *)
MCChanges == {Rescan,
              [kind |-> "change", paths |-> {"a"}],
              [kind |-> "delete", paths |-> {"a"}],
              [kind |-> "create", paths |-> {"b"}]}

===============================================================================
