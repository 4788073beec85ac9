------------------------------- MODULE AmznAec -------------------------------
(***************************************************************************)
(* libamznaec_shim (shims/libamznaec/amznaec_shim.cpp): the pcm_open,      *)
(* pcm_read and pcm_close it puts in front of tinyalsa's.                  *)
(*                                                                         *)
(* A call is split where another thread can run: after the real library    *)
(* call, at the unlocked look at g.pcm in pcm_read, and at the mutex.      *)
(* What runs under g.lock is one action, except pcm_read's block loop,     *)
(* one action per block with the lock held.  Buffers count frames          *)
(* (kFrameBytes bytes); a frame is its captured value and whether it went  *)
(* through process_block_l.  tinyalsa is external: a handle is any one     *)
(* not open now, so a closed handle's address can come back.  As the       *)
(* library demands, one thread at a time uses a handle.                    *)
(***************************************************************************)
EXTENDS AecConfig

CONSTANTS
  Threads,    \* threads of the audio HAL
  Handles,    \* addresses a struct pcm can have
  Frames,     \* values a captured frame can have
  Silence,    \* the value of a priming frame
  Block,      \* kBlock, in frames
  MaxRead,    \* bound: the longest pcm_read, in frames
  NoThread, NoPcm

ASSUME BlockAssumption == Block \in Nat \ {0}
ASSUME BoundAssumption == MaxRead \in Nat
ASSUME NameAssumption ==
  /\ NoThread \notin Threads
  /\ NoPcm \notin Handles
  /\ Silence \notin Frames

VARIABLES
  opened, \* handles the real library has open
  held,   \* the handle each thread has open, or NoPcm
  buf,    \* the buffer of each thread's pcm_read
  pc,     \* where each thread is inside a call
  lock,   \* the holder of g.lock between two actions, or NoThread
  pcm,    \* g.pcm
  conf,   \* g.s, g.sel (as a set) and g.mode
  apm,    \* the WebRTC processors in g.apm
  spx,    \* g.spx # nullptr
  geometry, \* g.geometry
  in, out \* g.in, g.out

client == <<opened, held, buf, pc>>
processors == <<conf, apm, spx, geometry>>
vars == <<client, lock, pcm, processors, in, out>>

Raw(v) == [v |-> v, done |-> FALSE]
Done(v) == [v |-> v, done |-> TRUE]
Frame == [v : Frames \cup {Silence}, done : BOOLEAN]

priming == [i \in 1..Block |-> Done(Silence)]

-----------------------------------------------------------------------------
Init ==
  /\ opened = {}
  /\ held = [t \in Threads |-> NoPcm]
  /\ buf = [t \in Threads |-> <<>>]
  /\ pc = [t \in Threads |-> "idle"]
  /\ lock = NoThread
  /\ pcm = NoPcm
  /\ conf = [s |-> Unread, sel |-> {}, mode |-> 0]
  /\ apm = {}
  /\ spx = FALSE
  /\ geometry = <<>>
  /\ in = <<>>
  /\ out = <<>>

Goto(t, label) == pc' = [pc EXCEPT ![t] = label]

\* FAULTY: the queues outlive the session.
TeardownKeepsQueues ==
  /\ pcm' = NoPcm
  /\ apm' = {}
  /\ spx' = FALSE
  /\ geometry' = <<>>
  /\ UNCHANGED <<in, out>>

teardown_l ==
  /\ pcm' = NoPcm
  /\ apm' = {}
  /\ spx' = FALSE
  /\ geometry' = <<>>
  /\ in' = <<>>
  /\ out' = <<>>

-----------------------------------------------------------------------------
(* pcm_open.  A real open that returns NULL changes nothing.               *)

\* The real library opened a stream; one without the FPGA's shape is not ours.
OpenReal(t) ==
  /\ pc[t] = "idle"
  /\ held[t] = NoPcm
  /\ \E h \in Handles \ opened :
       /\ opened' = opened \cup {h}
       /\ held' = [held EXCEPT ![t] = h]
  /\ \E c \in Streams : Goto(t, IF is_mic_pcm(c) THEN "opened" ELSE "idle")
  /\ UNCHANGED <<buf, lock, pcm, processors, in, out>>

EnterOpen(t) ==
  /\ pc[t] = "opened"
  /\ lock = NoThread
  /\ Goto(t, "idle")
  /\ UNCHANGED <<opened, held, buf, lock>>

\* persist.vendor.amznaec.enable is 0: whatever session there was is gone.
OpenDisabled(t) ==
  /\ EnterOpen(t)
  /\ teardown_l
  /\ \E s \in Settings : ~s.enable /\ conf' = [conf EXCEPT !.s = s]

\* Some processor could not be made; the ones already made are destroyed.
OpenFailed(t) ==
  /\ EnterOpen(t)
  /\ teardown_l
  /\ \E s \in Settings : s.enable /\ conf' = Configure(s)

\* FAULTY: no priming silence.
OpenUnprimed(t) ==
  /\ EnterOpen(t)
  /\ \E s \in Settings :
       /\ s.enable
       /\ conf' = Configure(s)
       /\ apm' = Apms(Configure(s))
       /\ spx' = UsesSpeex(Configure(s))
       /\ geometry' = build_geometry(Configure(s))
  /\ pcm' = held[t]
  /\ in' = <<>>
  /\ out' = <<>>

\* Everything was made: the session passes to this handle, and the output
\* starts with one block of silence.
OpenSession(t) ==
  /\ EnterOpen(t)
  /\ \E s \in Settings :
       /\ s.enable
       /\ conf' = Configure(s)
       /\ apm' = Apms(Configure(s))
       /\ spx' = UsesSpeex(Configure(s))
       /\ geometry' = build_geometry(Configure(s))
  /\ pcm' = held[t]
  /\ in' = <<>>
  /\ out' = priming

-----------------------------------------------------------------------------
(* pcm_read.  A real read that fails returns its error and changes nothing. *)

\* The driver filled the buffer.  An empty or ragged read is returned as it
\* is (ragged: a byte count that is no whole number of frames).
ReadReal(t) ==
  /\ pc[t] = "idle"
  /\ held[t] # NoPcm
  /\ \E n \in 0..MaxRead : \E vs \in [1..n -> Frames] : \E ragged \in BOOLEAN :
       /\ buf' = [buf EXCEPT ![t] = [i \in 1..n |-> Raw(vs[i])]]
       /\ Goto(t, IF n = 0 \/ ragged THEN "idle" ELSE "check")
  /\ UNCHANGED <<opened, held, lock, pcm, processors, in, out>>

\* The look at g.pcm without the lock.
ReadCheck(t) ==
  /\ pc[t] = "check"
  /\ Goto(t, IF held[t] = pcm THEN "wait" ELSE "idle")
  /\ UNCHANGED <<opened, held, buf, lock, pcm, processors, in, out>>

\* FAULTY: the unlocked look is trusted.
ReadTrustsFirstLook(t) ==
  /\ pc[t] = "wait"
  /\ lock = NoThread
  /\ lock' = t
  /\ in' = in \o buf[t]
  /\ Goto(t, "blocks")
  /\ UNCHANGED <<opened, held, buf, pcm, processors, out>>

\* The lock is taken and g.pcm looked at again.
ReadEnter(t) ==
  /\ pc[t] = "wait"
  /\ lock = NoThread
  /\ IF held[t] = pcm
     THEN /\ lock' = t
          /\ in' = in \o buf[t]
          /\ Goto(t, "blocks")
     ELSE /\ Goto(t, "idle")
          /\ UNCHANGED <<lock, in>>
  /\ UNCHANGED <<opened, held, buf, pcm, processors, out>>

ProcessedBlock(fs) == [i \in 1..Block |-> Done(fs[i].v)]

\* FAULTY: the newest block first.
ProcessTail(t) ==
  /\ pc[t] = "blocks"
  /\ Len(in) >= Block
  /\ out' = out \o ProcessedBlock(SubSeq(in, Len(in) - Block + 1, Len(in)))
  /\ in' = SubSeq(in, 1, Len(in) - Block)
  /\ UNCHANGED <<client, lock, pcm, processors>>

ProcessBlock(t) ==
  /\ pc[t] = "blocks"
  /\ Len(in) >= Block
  /\ out' = out \o ProcessedBlock(SubSeq(in, 1, Block))
  /\ in' = SubSeq(in, Block + 1, Len(in))
  /\ UNCHANGED <<client, lock, pcm, processors>>

\* FAULTY: an early return with the lock held.
ReadExitKeepsLock(t) ==
  /\ pc[t] = "blocks"
  /\ Len(in) < Block
  /\ Goto(t, "idle")
  /\ UNCHANGED <<opened, held, buf, lock, pcm, processors, in, out>>

\* FAULTY: what the caller gets is not taken out of the queue.
ReadExitCopies(t) ==
  /\ pc[t] = "blocks"
  /\ Len(in) < Block
  /\ buf' = [buf EXCEPT ![t] = SubSeq(out, 1, Len(buf[t]))]
  /\ lock' = NoThread
  /\ Goto(t, "idle")
  /\ UNCHANGED <<opened, held, pcm, processors, in, out>>

\* Less than a block is left: the caller gets the front of out, or, on the
\* underrun the code logs, its own frames back.
ReadExit(t) ==
  /\ pc[t] = "blocks"
  /\ Len(in) < Block
  /\ IF Len(out) >= Len(buf[t])
     THEN /\ buf' = [buf EXCEPT ![t] = SubSeq(out, 1, Len(buf[t]))]
          /\ out' = SubSeq(out, Len(buf[t]) + 1, Len(out))
     ELSE UNCHANGED <<buf, out>>
  /\ lock' = NoThread
  /\ Goto(t, "idle")
  /\ UNCHANGED <<opened, held, pcm, processors, in>>

-----------------------------------------------------------------------------
(* pcm_close.                                                              *)

\* FAULTY: any close ends the session.
CloseAnybodys(t) ==
  /\ pc[t] = "idle"
  /\ held[t] # NoPcm
  /\ lock = NoThread
  /\ teardown_l
  /\ Goto(t, "closing")
  /\ UNCHANGED <<opened, held, buf, lock, conf>>

\* FAULTY: the session outlives its handle.
CloseForgets(t) ==
  /\ pc[t] = "idle"
  /\ held[t] # NoPcm
  /\ lock = NoThread
  /\ Goto(t, "closing")
  /\ UNCHANGED <<opened, held, buf, lock, pcm, processors, in, out>>

\* The shim gives up the session while the handle is still open.
CloseShim(t) ==
  /\ pc[t] = "idle"
  /\ held[t] # NoPcm
  /\ lock = NoThread
  /\ IF held[t] = pcm
     THEN teardown_l
     ELSE UNCHANGED <<pcm, apm, spx, geometry, in, out>>
  /\ Goto(t, "closing")
  /\ UNCHANGED <<opened, held, buf, lock, conf>>

CloseReal(t) ==
  /\ pc[t] = "closing"
  /\ opened' = opened \ {held[t]}
  /\ held' = [held EXCEPT ![t] = NoPcm]
  /\ Goto(t, "idle")
  /\ UNCHANGED <<buf, lock, pcm, processors, in, out>>

-----------------------------------------------------------------------------
Open(t) == OpenReal(t) \/ OpenDisabled(t) \/ OpenFailed(t) \/ OpenSession(t)
Read(t) ==
  ReadReal(t) \/ ReadCheck(t) \/ ReadEnter(t) \/ ProcessBlock(t) \/ ReadExit(t)
Close(t) == CloseShim(t) \/ CloseReal(t)

Next == \E t \in Threads : Open(t) \/ Read(t) \/ Close(t)

Spec == Init /\ [][Next]_vars

\* The thread that holds g.lock runs: nothing in the region blocks.
Fairness == \A t \in Threads : WF_vars(ProcessBlock(t)) /\ WF_vars(ReadExit(t))

FairSpec == Spec /\ Fairness

-----------------------------------------------------------------------------
(* Properties.                                                             *)

\* Every variable keeps its type.
TypeOK ==
  /\ opened \subseteq Handles
  /\ held \in [Threads -> Handles \cup {NoPcm}]
  /\ buf \in [Threads -> Seq(Frame)]
  /\ pc \in [Threads -> {"idle", "opened", "check", "wait", "blocks", "closing"}]
  /\ lock \in Threads \cup {NoThread}
  /\ pcm \in Handles \cup {NoPcm}
  /\ conf \in ConfType
  /\ apm \subseteq Apm
  /\ spx \in BOOLEAN
  /\ geometry \in Seq(Point)
  /\ in \in Seq(Frame)
  /\ out \in Seq(Frame)

\* The thread in pcm_read's block loop, and no other, holds g.lock, and the
\* session it works on is its own until it leaves.
LoopOwnsSession ==
  \A t \in Threads :
    /\ lock = t <=> pc[t] = "blocks"
    /\ pc[t] = "blocks" => pcm = held[t]

\* The session belongs to a handle that is open and not on its way to the
\* real pcm_close, so a new handle at a freed address is never mistaken for it.
SessionHandleOpen ==
  pcm # NoPcm =>
    /\ pcm \in opened
    /\ \E t \in Threads : held[t] = pcm /\ pc[t] \notin {"opened", "closing"}

\* What in and out hold together is the priming block plus what the read in
\* progress brought: every read takes out as much as it puts in.
Conserved ==
  pcm # NoPcm =>
    Len(in) + Len(out) = Block + (IF lock = NoThread THEN 0 ELSE Len(buf[lock]))

\* amznaec_shim.cpp:568, "By construction out always holds at least count
\* bytes": the underrun branch of pcm_read is never taken, whatever the mix
\* of read lengths.
NoUnderrun ==
  \A t \in Threads : pc[t] = "blocks" /\ Len(in) < Block => Len(out) >= Len(buf[t])

\* The microphones a processor's output is meant for: channel 0 for a mix or a
\* beam; each selected one with WebRTC; with Speex the first of them alone,
\* where amznaec_shim.cpp:36-38 would have each.
OutputFor(c) ==
  IF c.mode # 0 THEN {0}
  ELSE {m \in c.sel : c.s.engine = 1 => \A k \in c.sel : m <= k}

Due(c, m) ==
  CASE m \in c.s.mute -> "zero"
    [] m \notin c.s.mute /\ m \in OutputFor(c) -> "output"
    [] OTHER -> "raw"

\* While there is a session, a block finds what pcm_open made for it, for any
\* property store: each WebRTC processor that is run exists, was made for as
\* many channels as it is given, and beamforms just in mode 2; with Speex none
\* is made beside it; a mix or a beam has two microphones, and the beamformer's
\* points are as many and no closer than it can divide by.  What comes back on a
\* channel is what Due says: it is never the microphone's own sound with the
\* gain, nor a processor's output that stays behind in near_.
ProcessorsReady ==
  pcm # NoPcm =>
    /\ \A r \in run_apms(conf, apm, spx) : \E a \in apm :
         a.mic = r.mic /\ a.channels = r.channels /\ (a.beamform <=> conf.mode = 2)
    /\ IF spx THEN apm = {} /\ conf.mode # 2 ELSE conf.mode = 0 => Made(apm) = conf.sel
    /\ conf.mode # 0 => Cardinality(conf.sel) >= 2
    /\ Usable(geometry, Cardinality(conf.sel))
    /\ \A m \in Mics : Returned(conf, apm, spx, m) = Due(conf, m)

\* Without a session no processor, and no frame of an earlier one, is left.
NothingLeftBehind ==
  pcm = NoPcm => apm = {} /\ ~spx /\ geometry = <<>> /\ in = <<>> /\ out = <<>>

\* A session ends only by its own handle's pcm_close or by a later open of
\* the microphone, never by another stream's read or close.
EndedByOwnerOrOpen ==
  [][pcm # NoPcm /\ pcm' # pcm =>
       \E t \in Threads : \/ held[t] = pcm /\ pc'[t] = "closing"
                          \/ pc[t] = "opened" /\ pc'[t] = "idle"]_vars

\* g.lock does not stay held: pcm_read's loop ends for every read length.
LockReleased == lock # NoThread ~> lock = NoThread

\* The blob sees its microphone stream processed, in order and one block
\* late, or untouched: the shim implements DelayLine.
Owner ==
  IF pcm = NoPcm THEN NoThread ELSE CHOOSE t \in Threads : held[t] = pcm
FrameValues(fs) == [i \in 1..Len(fs) |-> fs[i].v]
Line == FrameValues(out) \o FrameValues(in)
DL == INSTANCE DelayLine WITH owner <- Owner, line <- Line, reader <- lock
ImplementsDelayLine == DL!LineSpec
=============================================================================
