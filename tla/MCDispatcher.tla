---------------------------- MODULE MCDispatcher ----------------------------
(* Small instances of Dispatcher for TLC.                                  *)
EXTENDS Dispatcher

(* A type that alerts and one that does not: allow() tells no others apart. *)
SomeTypes == {"task.failed", "task.succeeded"}

NoneOrTwo == {0, 2}
=============================================================================
