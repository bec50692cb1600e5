------------------------------ MODULE Processes ------------------------------
(***************************************************************************)
(* What Elevation.cpp and EtwMonitor.cpp rely on of Windows processes:     *)
(* pids, handles and the end of a process.  A pid names a process while it *)
(* lives and, after that, for as long as somebody has a handle to it; then *)
(* the number is given to another process.  External code.                 *)
(***************************************************************************)
EXTENDS Integers, FiniteSets

CONSTANTS
  Process,  \* all processes that run the launcher, in any order
  Pid,      \* the numbers Windows gives to them
  Nobody    \* no process

ASSUME ProcessAssumption == Nobody \notin Process /\ 0 \notin Pid

VARIABLES
  state,    \* "unborn", "alive" or "dead"
  pid,      \* the number of a process, 0 before it is born
  how,      \* how a process ended
  holds     \* the processes it has a handle to

processVars == <<state, pid, how, holds>>

\* Ways to end: wmain returned, a control event ended it, early or not, or it
\* was killed.
Endings == {"returned", "control", "early", "killed"}

Alive(p) == state[p] = "alive"

\* A process object exists.
Exists(p) ==
  /\ state[p] # "unborn"
  /\ \/ Alive(p)
     \/ \E q \in Process : Alive(q) /\ p \in holds[q]

\* OpenProcess: whom the pid names.
Named(n) ==
  IF \E p \in Process : Exists(p) /\ pid[p] = n
  THEN CHOOSE p \in Process : Exists(p) /\ pid[p] = n
  ELSE Nobody

\* Some live process has the pid.
PidAlive(n) == \E p \in Process : Alive(p) /\ pid[p] = n

ProcessInit ==
  /\ state = [p \in Process |-> "unborn"]
  /\ pid = [p \in Process |-> 0]
  /\ how = [p \in Process |-> "none"]
  /\ holds = [p \in Process |-> {}]

\* Process p is created with a pid that names nobody; those in openers get a
\* handle to it.
Born(p, n, openers) ==
  /\ state[p] = "unborn"
  /\ Named(n) = Nobody
  /\ state' = [state EXCEPT ![p] = "alive"]
  /\ pid' = [pid EXCEPT ![p] = n]
  /\ holds' = [q \in Process |-> IF q \in openers THEN holds[q] \cup {p} ELSE holds[q]]
  /\ UNCHANGED how

\* A process ends and closes its handles.
Ends(p, ending) ==
  /\ state' = [state EXCEPT ![p] = "dead"]
  /\ how' = [how EXCEPT ![p] = ending]
  /\ holds' = [holds EXCEPT ![p] = {}]
  /\ UNCHANGED pid

ProcessTypeOK ==
  /\ state \in [Process -> {"unborn", "alive", "dead"}]
  /\ pid \in [Process -> Pid \cup {0}]
  /\ how \in [Process -> Endings \cup {"none"}]
  /\ holds \in [Process -> SUBSET Process]
=============================================================================
