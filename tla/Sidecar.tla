------------------------------- MODULE Sidecar -------------------------------
(***************************************************************************)
(* The sidecar file of --etw (Model.cpp): its lines are written by the     *)
(* thread that reads the pipe, by the consumer of the ETW session and by   *)
(* the launcher's main loop, each under Model::mu_, so that every operator *)
(* here is one critical section.  Until the pipe has brought hello there   *)
(* is no time base and lines wait in side_prebuf_.                         *)
(*                                                                         *)
(* A line is reduced to its kind; "record" stands for the lines about      *)
(* single objects (etw_object, etw_bind, location, residency, ...), whose  *)
(* content is the subject of EtwJoin.                                      *)
(***************************************************************************)
EXTENDS Integers, Sequences

VARIABLES
  etw_enabled_,   \* Model::etw_enabled_
  side_,          \* Model::side_, and what became of the file
  hello_seen_,    \* Model::hello_seen_
  side_prebuf_,   \* Model::side_prebuf_
  child_exiting_, \* Model::child_exiting_
  file,           \* external: the lines in the file
  given           \* history: the lines given to SideLine since it was opened

sidecarVars == <<etw_enabled_, side_, hello_seen_, side_prebuf_,
                 child_exiting_, file, given>>

Line == {"etw_hello", "record", "counters", "target_exiting", "etw_stats"}

-----------------------------------------------------------------------------

\* Mutant: lines are written at once.
SideLineAtOnce(ls) ==
  /\ given' = IF side_ = "none" THEN given ELSE given \o ls
  /\ file' = IF side_ = "open" THEN file \o ls ELSE file
  /\ UNCHANGED side_prebuf_

\* SideLine, for the lines of one critical section: nothing without a file,
\* and before hello into the buffer.
SideLine(ls) ==
  /\ given' = IF side_ = "none" THEN given ELSE given \o ls
  /\ IF hello_seen_
     THEN /\ file' = IF side_ = "open" THEN file \o ls ELSE file
          /\ UNCHANGED side_prebuf_
     ELSE /\ side_prebuf_' = IF side_ = "open" THEN side_prebuf_ \o ls ELSE side_prebuf_
          /\ UNCHANGED file

\* EnableEtw; the file may not open.
EnableEtw ==
  /\ etw_enabled_' = TRUE
  /\ side_' \in {"none", "open"}
  /\ UNCHANGED <<hello_seen_, side_prebuf_, child_exiting_, file, given>>

\* DisableEtw closes the file and deletes it.
DisableEtw ==
  /\ etw_enabled_' = FALSE
  /\ side_' = IF side_ = "open" THEN "deleted" ELSE side_
  /\ side_prebuf_' = <<>>
  /\ UNCHANGED <<hello_seen_, child_exiting_, file, given>>

\* OnEvent for hello: the first one opens the file's content, and the lines
\* that waited for it follow.
OnHello ==
  /\ hello_seen_' = TRUE
  /\ IF etw_enabled_ /\ ~hello_seen_ /\ side_ = "open"
     THEN /\ file' = (file \o <<"etw_hello">>) \o side_prebuf_
          /\ side_prebuf_' = <<>>
     ELSE UNCHANGED <<file, side_prebuf_>>
  /\ UNCHANGED <<etw_enabled_, side_, child_exiting_, given>>

\* OnEvent for an event about an object, which may bind it.
OnObjectEvent(ls) ==
  /\ SideLine(IF etw_enabled_ THEN ls ELSE <<>>)
  /\ UNCHANGED <<etw_enabled_, side_, hello_seen_, child_exiting_>>

\* The line of PollChildLocked, which reports the exit once.
ExitLines(exits) ==
  IF exits /\ ~child_exiting_ THEN <<"target_exiting">> ELSE <<>>

\* A record of the consumer: AfterChildExitLocked, which may poll the child,
\* comes before the lines.
OnEtwRecord(exits, ls) ==
  /\ etw_enabled_
  /\ child_exiting_' = (child_exiting_ \/ exits)
  /\ SideLine(ExitLines(exits) \o ls)
  /\ UNCHANGED <<etw_enabled_, side_, hello_seen_>>

\* PollChild, by the main loop.
PollChild(exits) ==
  /\ child_exiting_' = (child_exiting_ \/ exits)
  /\ SideLine(ExitLines(exits))
  /\ UNCHANGED <<etw_enabled_, side_, hello_seen_>>

\* EtwTick: once a second the counters, if there are any.
EtwTick(ls) ==
  /\ SideLine(IF etw_enabled_ THEN ls ELSE <<>>)
  /\ UNCHANGED <<etw_enabled_, side_, hello_seen_, child_exiting_>>

\* FinishEtw: the last line, which queues up behind those that hello never came
\* for, and fclose.
FinishEtw ==
  /\ IF etw_enabled_ /\ side_ = "open"
     THEN /\ file' = (file \o side_prebuf_) \o <<"etw_stats">>
          /\ given' = given \o <<"etw_stats">>
          /\ side_prebuf_' = <<>>
          /\ side_' = "closed"
     ELSE UNCHANGED <<file, given, side_prebuf_, side_>>
  /\ UNCHANGED <<etw_enabled_, hello_seen_, child_exiting_>>

-----------------------------------------------------------------------------

SidecarInit ==
  /\ etw_enabled_ = FALSE
  /\ side_ = "none"
  /\ hello_seen_ = FALSE
  /\ side_prebuf_ = <<>>
  /\ child_exiting_ = FALSE
  /\ file = <<>>
  /\ given = <<>>

SidecarTypeOK ==
  /\ {etw_enabled_, hello_seen_, child_exiting_} \subseteq BOOLEAN
  /\ side_ \in {"none", "open", "closed", "deleted"}
  /\ {side_prebuf_, file, given} \subseteq Seq(Line)
=============================================================================
