----------------------------- MODULE MCSignalQueue -----------------------------
EXTENDS SignalQueue, TLC

(* Processes, and senders, are all alike. *)
Alike == Permutations(Procs) \cup Permutations(Senders)
=============================================================================
