------------------------------ MODULE DelayLine ------------------------------
(***************************************************************************)
(* What libamznaec promises the audio HAL, without locks, handles or       *)
(* blocks: at most one client owns the microphone session, and what that   *)
(* client gets back is the frames it captured, processed, in order, one    *)
(* block late, starting with one block of silence.  A client without the   *)
(* session gets its own frames back untouched.                             *)
(***************************************************************************)
EXTENDS Naturals, Sequences

CONSTANTS Threads, Frames, Silence, Block, MaxRead, NoThread

VARIABLES owner,  \* the client whose stream is processed, or NoThread
          line,   \* the frames on their way back to it, oldest first
          reader, \* the client being served, or NoThread
          buf     \* each client's capture buffer

lineVars == <<owner, line, reader, buf>>

Raw(v) == [v |-> v, done |-> FALSE]
Done(v) == [v |-> v, done |-> TRUE]
Values(fs) == [i \in 1..Len(fs) |-> fs[i].v]

LineInit ==
  /\ owner = NoThread
  /\ line = <<>>
  /\ reader = NoThread
  /\ buf = [t \in Threads |-> <<>>]

\* A client opens the microphone: it takes the session from whoever had it.
Take(t) ==
  /\ reader = NoThread
  /\ owner' = t
  /\ line' = [i \in 1..Block |-> Silence]
  /\ UNCHANGED <<reader, buf>>

\* The session ends: its owner closed it, or somebody's open gave it up.
Drop ==
  /\ reader = NoThread
  /\ owner' = NoThread
  /\ line' = <<>>
  /\ UNCHANGED <<reader, buf>>

\* The driver fills a client's buffer.
Capture(t) ==
  /\ reader # t
  /\ \E n \in 0..MaxRead : \E vs \in [1..n -> Frames] :
        buf' = [buf EXCEPT ![t] = [i \in 1..n |-> Raw(vs[i])]]
  /\ UNCHANGED <<owner, line, reader>>

\* The owner's capture enters the line.
Accept(t) ==
  /\ reader = NoThread
  /\ owner = t
  /\ reader' = t
  /\ line' = line \o Values(buf[t])
  /\ UNCHANGED <<owner, buf>>

\* The owner gets as many frames as it captured, processed, from the front.
Deliver(t) ==
  /\ reader = t
  /\ reader' = NoThread
  /\ buf' = [buf EXCEPT ![t] = [i \in 1..Len(@) |-> Done(line[i])]]
  /\ line' = SubSeq(line, Len(buf[t]) + 1, Len(line))
  /\ UNCHANGED owner

LineNext ==
  \/ Drop
  \/ \E t \in Threads : Take(t) \/ Capture(t) \/ Accept(t) \/ Deliver(t)

LineSpec == LineInit /\ [][LineNext]_lineVars
=============================================================================
