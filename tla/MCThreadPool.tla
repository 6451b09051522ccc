---------------------------- MODULE MCThreadPool ----------------------------
(* Instances of ThreadPool for TLC: a few workers and tasks. *)
EXTENDS ThreadPool

CONSTANTS w1, w2, w3
MCWorker == {w1, w2, w3}
=============================================================================
