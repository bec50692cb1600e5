----------------------------- MODULE MCLaunchers -----------------------------
\* Processes are interchangeable, and so are pids.
EXTENDS Launchers, TLC

Symmetry == Permutations(Pid) \cup Permutations(Process)
=============================================================================
