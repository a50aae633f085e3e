------------------------------ MODULE MCWatcher -----------------------------
(* A small instance of Watcher for TLC: a busy tree is given up on after    *)
(* three debounces, and the minimum interval is longer than that.           *)
EXTENDS Watcher
=============================================================================
