------------------------------- MODULE MCWatcher -------------------------------
(* Small instances of Watcher. *)
EXTENDS Watcher

==============================================================================
