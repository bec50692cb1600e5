------------------------------- MODULE Elevation -------------------------------
(***************************************************************************)
(* The handover between two launchers (Elevation.cpp).  A launcher that is *)
(* not elevated (the original) starts itself again through UAC and waits;  *)
(* the elevated instance gets the original's pid on its command line and   *)
(* everything else, its environment among it, from a file mapping that is  *)
(* named after that pid.  Either may end at any time.                      *)
(*                                                                         *)
(* A mapping is represented by the launcher that created it.  The text     *)
(* that an elevated instance with a console of its own forwards is left    *)
(* out, and so are its working directory and the user's SID, which go the  *)
(* way of the environment.                                                 *)
(***************************************************************************)
EXTENDS Processes

VARIABLES
  main,     \* where a launcher is in wmain
  admin,    \* the launcher runs elevated
  etw,      \* use_etw, and no reason to skip it
  by,       \* --elevated-by, or 0
  starter,  \* history: the launcher that started this one
  orig,     \* ElevatedSession::original_
  hdr,      \* the mapping that a launcher has open
  cstate,   \* HandoffHeader::console_state of a mapping
  console   \* the console of a process: the user's of a launcher, or its own

elevationVars == <<main, admin, etw, by, starter, orig, hdr, cstate, console>>

Mains == {"none", "decide", "uac", "shell", "wait", "open", "map", "attach", "publish",
          "parent", "create", "inject", "etw", "starting", "handler", "run",
          "exited", "stopping", "finish", "gone"}

At(p, label) == main[p] = label

MoveTo(p, label) == main' = [main EXCEPT ![p] = label]

\* OpenFileMapping: the mapping named after pid n, if any.
Mappings(n) == {m \in Process : pid[m] = n /\ \E q \in Process : hdr[q] = m}

-----------------------------------------------------------------------------
(* The original *)

\* Only --etw without the rights for it asks for elevation.  A mapping of our
\* name that is still there, or any other failure, leaves ETW out.
Decide(o) ==
  /\ At(o, "decide")
  /\ \/ /\ MoveTo(o, "parent") /\ UNCHANGED <<etw, hdr, cstate>>
        \* etw without elevation is --no-elevate
     \/ /\ etw[o] /\ ~admin[o]
        /\ MoveTo(o, "parent")
        /\ etw' = [etw EXCEPT ![o] = FALSE]
        /\ UNCHANGED <<hdr, cstate>>
     \/ /\ etw[o] /\ ~admin[o]
        /\ Mappings(pid[o]) = {}
        /\ MoveTo(o, "uac")
        /\ hdr' = [hdr EXCEPT ![o] = o]
        /\ cstate' = [cstate EXCEPT ![o] = "pending"]
        /\ UNCHANGED etw
  /\ UNCHANGED <<processVars, admin, by, starter, orig, console>>

\* The launcher goes on alone, and ElevationRequest is destroyed.
GoOnAlone(o) ==
  /\ MoveTo(o, "parent")
  /\ etw' = [etw EXCEPT ![o] = FALSE]
  /\ hdr' = [hdr EXCEPT ![o] = Nobody]
  /\ UNCHANGED <<admin, by, starter, orig, cstate, console>>

\* ShellExecuteEx: the user declines, or it fails.
Declined(o) ==
  /\ At(o, "uac")
  /\ GoOnAlone(o)
  /\ UNCHANGED processVars

\* ShellExecuteEx: the user accepts, and Windows starts the elevated instance,
\* with a handle to it for the original or without.
Accepted(o, e, n) ==
  /\ At(o, "uac")
  /\ Born(e, n, {o}) \/ Born(e, n, {})
  /\ main' = [main EXCEPT ![o] = "shell", ![e] = "open"]
  /\ admin' = [admin EXCEPT ![e] = TRUE]
  /\ etw' = [etw EXCEPT ![e] = TRUE]
  /\ by' = [by EXCEPT ![e] = pid[o]]
  /\ starter' = [starter EXCEPT ![e] = o]
  /\ UNCHANGED <<orig, hdr, cstate, console>>

\* The original has SHELLEXECUTEINFO's hProcess.
HasElevated(o) == \E e \in holds[o] : starter[e] = o

\* Without it the original goes on alone, beside the elevated instance.
NoHandle(o) ==
  /\ At(o, "shell") /\ ~HasElevated(o)
  /\ GoOnAlone(o)
  /\ UNCHANGED processVars

\* With it Wait is called, and registers WaitCtrlHandler.
BeginWait(o) ==
  /\ At(o, "shell") /\ HasElevated(o)
  /\ MoveTo(o, "wait")
  /\ UNCHANGED <<processVars, admin, etw, by, starter, orig, hdr, cstate, console>>

\* Wait has seen the end of the elevated instance.
WaitOver(o) ==
  /\ At(o, "wait")
  /\ \E e \in holds[o] : starter[e] = o /\ ~Alive(e)

\* WaitCtrlHandler swallows the event unless the elevated instance has said
\* that it has a console of its own.
Swallows(o) == At(o, "wait") /\ cstate[o] # "own"

-----------------------------------------------------------------------------
(* The elevated instance *)

\* The process to wait for and to be the target's parent.
Original(e) == Named(by[e])

\* Begin returns false: nobody is waiting, for all that can be seen.
NobodyWaits(e) ==
  /\ At(e, "open")
  /\ Original(e) # Nobody => ~Alive(Original(e))

\* Mutant: the pid is taken for the handle.
OpenPid(e) ==
  /\ At(e, "open")
  /\ Original(e) # Nobody /\ Alive(Original(e))
  /\ MoveTo(e, "map")
  /\ orig' = [orig EXCEPT ![e] = by[e]]
  /\ UNCHANGED <<processVars, admin, etw, by, starter, hdr, cstate, console>>

\* Begin opens the original before its pid can be reused, or is denied access,
\* and then does not see whether it lives.
OpenOriginal(e) ==
  /\ At(e, "open") /\ Original(e) # Nobody
  /\ MoveTo(e, "map")
  /\ \/ /\ Alive(Original(e))
        /\ orig' = [orig EXCEPT ![e] = Original(e)]
        /\ holds' = [holds EXCEPT ![e] = @ \cup {Original(e)}]
     \/ UNCHANGED <<orig, holds>>
  /\ UNCHANGED <<state, pid, how, admin, etw, by, starter, hdr, cstate, console>>

\* The handoff is opened by name; it may be missing or not be accepted.
OpenHandoff(e) ==
  /\ At(e, "map")
  /\ MoveTo(e, "attach")
  /\ \/ \E m \in Mappings(by[e]) : hdr' = [hdr EXCEPT ![e] = m]
     \/ UNCHANGED hdr
  /\ UNCHANGED <<processVars, admin, etw, by, starter, orig, cstate, console>>

\* SwitchConsole: AttachConsole to the console of the pid, or a new one ...
SwitchConsole(e) ==
  /\ At(e, "attach")
  /\ MoveTo(e, "publish")
  /\ \/ /\ Original(e) # Nobody /\ Alive(Original(e))
        /\ console' = [console EXCEPT ![e] = console[Original(e)]]
     \/ console' = [console EXCEPT ![e] = e]
  /\ UNCHANGED <<processVars, admin, etw, by, starter, orig, hdr, cstate>>

\* ... and the original is told which.
PublishConsole(e) ==
  /\ At(e, "publish")
  /\ MoveTo(e, "parent")
  /\ cstate' = IF hdr[e] = Nobody THEN cstate
               ELSE [cstate EXCEPT ![hdr[e]] = IF console[e] = e THEN "own" ELSE "attached"]
  /\ UNCHANGED <<processVars, admin, etw, by, starter, orig, hdr, console>>

\* Mutant: the pid is looked up again.
ParentsByPid(e) ==
  IF Original(e) # Nobody /\ Alive(Original(e)) THEN {Original(e)} ELSE {"shell", Nobody}

\* ParentProcess: the original if it lives, else the shell if there is one.
Parents(e) ==
  IF orig[e] # Nobody /\ Alive(orig[e]) THEN {orig[e]} ELSE {"shell", Nobody}

\* The end of a process closes its views of mappings.  Nobody asks again for
\* what is reset here.
LauncherGone(p) ==
  /\ MoveTo(p, "gone")
  /\ hdr' = [hdr EXCEPT ![p] = Nobody]
  /\ orig' = [orig EXCEPT ![p] = Nobody]
  /\ console' = [console EXCEPT ![p] = Nobody]
  /\ etw' = [etw EXCEPT ![p] = FALSE]
  /\ cstate' = [cstate EXCEPT ![p] = "pending"]
  /\ UNCHANGED <<admin, by, starter>>

-----------------------------------------------------------------------------

ElevationInit ==
  /\ main = [p \in Process |-> "none"]
  /\ admin = [p \in Process |-> FALSE]
  /\ etw = [p \in Process |-> FALSE]
  /\ by = [p \in Process |-> 0]
  /\ starter = [p \in Process |-> Nobody]
  /\ orig = [p \in Process |-> Nobody]
  /\ hdr = [p \in Process |-> Nobody]
  /\ cstate = [p \in Process |-> "pending"]
  /\ console = [p \in Process |-> Nobody]

ElevationStep(p) ==
  \/ Decide(p) \/ Declined(p) \/ NoHandle(p) \/ BeginWait(p)
  \/ OpenOriginal(p) \/ OpenHandoff(p) \/ SwitchConsole(p) \/ PublishConsole(p)

ElevationTypeOK ==
  /\ main \in [Process -> Mains]
  /\ admin \in [Process -> BOOLEAN] /\ etw \in [Process -> BOOLEAN]
  /\ by \in [Process -> Pid \cup {0}]
  /\ starter \in [Process -> Process \cup {Nobody}]
  /\ orig \in [Process -> Process \cup {Nobody}]
  /\ hdr \in [Process -> Process \cup {Nobody}]
  /\ cstate \in [Process -> {"pending", "attached", "own"}]
  /\ console \in [Process -> Process \cup {Nobody}]
=============================================================================
