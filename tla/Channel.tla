------------------------------- MODULE Channel -------------------------------
(***************************************************************************)
(* What PipeClient::Send promises to the DLL: a message offered by a       *)
(* thread is delivered whole, once, in one step and in the order in which  *)
(* the thread offers its messages, as long as the channel is open; it is   *)
(* given up only if the channel is not, or with the thread.  A channel     *)
(* that was closed stays so.                                               *)
(***************************************************************************)
EXTENDS Sequences

CONSTANTS
  Sender,
  Message,
  None      \* what is pending for a sender with nothing to send

VARIABLES
  state,    \* "new", "open" or "closed"
  alive,    \* the senders that were not terminated
  pending,  \* per sender: the message it has offered
  received  \* the messages that were delivered

vars == <<state, alive, pending, received>>

Init ==
  /\ state = "new"
  /\ alive = Sender
  /\ pending = [s \in Sender |-> None]
  /\ received = <<>>

Open ==
  /\ state = "new"
  /\ state' = "open"
  /\ UNCHANGED <<alive, pending, received>>

Close ==
  /\ state' = "closed"
  /\ UNCHANGED <<alive, pending, received>>

Offer(s) ==
  /\ s \in alive
  /\ pending[s] = None
  /\ pending'[s] \in Message
  /\ pending' = [pending EXCEPT ![s] = pending'[s]]
  /\ UNCHANGED <<state, alive, received>>

Deliver(s) ==
  /\ state = "open"
  /\ pending[s] # None
  /\ received' = Append(received, pending[s])
  /\ pending' = [pending EXCEPT ![s] = None]
  /\ UNCHANGED <<state, alive>>

Drop(s) ==
  /\ state # "open"
  /\ pending[s] # None
  /\ pending' = [pending EXCEPT ![s] = None]
  /\ UNCHANGED <<state, alive, received>>

\* The senders in S are terminated ...
Abort(S) ==
  /\ alive' = alive \ S
  /\ pending' = [s \in Sender |-> IF s \in S THEN None ELSE pending[s]]
  /\ UNCHANGED <<state, received>>

\* ... all but s, which has a last message to send.
AbortOthers(s) ==
  /\ s \in alive
  /\ alive' = {s}
  /\ pending'[s] \in Message
  /\ pending' = [u \in Sender |-> IF u = s THEN pending'[s] ELSE None]
  /\ UNCHANGED <<state, received>>

Next ==
  \/ Open
  \/ Close
  \/ \E s \in Sender : Offer(s) \/ Deliver(s) \/ Drop(s) \/ AbortOthers(s)
  \/ \E S \in SUBSET Sender : Abort(S)

Spec == Init /\ [][Next]_vars
=============================================================================
