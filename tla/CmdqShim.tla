------------------------------ MODULE CmdqShim -------------------------------
(***************************************************************************)
(* The ioctl wrapper that libcmdqevent puts into cameraserver              *)
(* (shims/libcmdqevent/cmdq_event_shim.c:190-356 and 528-673).  Every      *)
(* ioctl of every thread goes through it:                                  *)
(*   - a submit to the command engine has its event ids translated, in the *)
(*     caller's own buffer (EventMap);                                     *)
(*   - a call to the ISP may be traced, and a traced wait for the end of   *)
(*     a frame may be preceded by reads and writes of the shim's own;      *)
(*   - the answer of a GETINFO may have its format overridden.             *)
(* The caller builds the metas of each submit anew.  Logging is left out.  *)
(***************************************************************************)
EXTENDS EventMap

CONSTANTS
  Threads,
  Headers, \* what cmdq_event_common.h may declare
  Trees,   \* what the device tree may give hardware values to
  Submits, \* bound: the metas a caller may submit
  Texts,   \* what persist.camera.bayer can hold, as characters; <<>> if unset
  Recheck  \* debug.isptrace is read every so many looks (64 in the code)

ASSUME CmdqAssumption ==
  /\ Headers \subseteq Header
  /\ \A header \in Headers : OneNamePerIndex(header)
  /\ \A tree \in Trees : DOMAIN tree \subseteq Nat /\ tree \in [DOMAIN tree -> Nat]
  /\ Submits \subseteq Seq([op : Nat, offset : Nat])
  /\ Texts \subseteq Seq(STRING)
  /\ Recheck \in Nat \ {0}

\* What a caller may ask of the kernel: a submit; an ISP call, which may be a
\* wait for PASS1_TG1_DON; a sensor feature; a GETINFO with the info structs
\* it wants filled; and the rest, which the shim passes on.
Kinds == {"submit", "isp", "wait", "feature", "getinfo", "other"}
Requests ==
  {[kind |-> "submit", metas |-> m, infos |-> {}] : m \in Submits}
    \cup {[kind |-> "getinfo", metas |-> <<>>, infos |-> I] : I \in SUBSET {1, 2}}
    \cup {[kind |-> k, metas |-> <<>>, infos |-> {}] : k \in Kinds \ {"submit", "getinfo"}}

VARIABLES
  header, tree, \* the kernel's sources, of which event_map was made
  isptrace,     \* debug.isptrace: "never" set, or "on" or "off" since
  state, calls, \* isp_trace_on's statics; calls modulo Recheck
  pc,           \* where each thread is: "caller" is outside of the shim
  req,          \* its request
  buf,          \* the metas in its memory
  seen,         \* calls as it loaded it
  sent,         \* the commands it has given to the driver in this call
  job,          \* the program the engine was given, if any
  format        \* the data formats its info structs hold

vars == <<header, tree, isptrace, state, calls, pc, req, buf, seen, sent, job, format>>

event_map == hw_to_enum(header, tree)
Nothing == [kind |-> "other", metas |-> <<>>, infos |-> {}]

Init ==
  /\ header \in Headers /\ tree \in Trees
  /\ isptrace = "never" /\ state = "unknown" /\ calls = 0
  /\ pc = [t \in Threads |-> "caller"]
  /\ req = [t \in Threads |-> Nothing]
  /\ buf = [t \in Threads |-> <<>>]
  /\ seen = [t \in Threads |-> 0]
  /\ sent = [t \in Threads |-> <<>>]
  /\ job = [t \in Threads |-> {}]
  /\ format = [t \in Threads |-> <<>>]

Goto(t, label) == pc' = [pc EXCEPT ![t] = label]
Send(t, commands) == sent' = [sent EXCEPT ![t] = @ \o commands]

\* setprop debug.isptrace, by hand.
SetTrace ==
  /\ isptrace' \in {"on", "off"}
  /\ UNCHANGED <<header, tree, state, calls, pc, req, buf, seen, sent, job, format>>

\* A thread of the camera stack calls ioctl.
Call(t) ==
  /\ pc[t] = "caller"
  /\ \E r \in Requests :
       /\ req' = [req EXCEPT ![t] = r]
       /\ buf' = [buf EXCEPT ![t] = r.metas]
       /\ Goto(t, CASE r.kind \in {"isp", "wait", "feature"} -> "look"
                    [] r.kind = "submit" -> "translate"
                    [] OTHER -> "forward")
  /\ UNCHANGED <<header, tree, isptrace, state, calls, seen, sent, job, format>>

-----------------------------------------------------------------------------
(* isp_trace_on: two statics without a lock.                               *)

\* Where a look leads: only a traced wait does more than the caller asked.
Onward(t, on) == IF on /\ req[t].kind = "wait" THEN "probe" ELSE "forward"

\* Reading debug.isptrace, and going on.
Decide(t) ==
  /\ state' = IF isptrace = "on" THEN "on" ELSE "off"
  /\ Goto(t, Onward(t, isptrace = "on"))

\* state == 0, or the load of ++calls.
Look(t) ==
  /\ pc[t] = "look"
  /\ IF state = "unknown"
       THEN Decide(t) /\ UNCHANGED seen
       ELSE /\ seen' = [seen EXCEPT ![t] = calls]
            /\ Goto(t, "count")
            /\ UNCHANGED state
  /\ UNCHANGED <<header, tree, isptrace, calls, req, buf, sent, job, format>>

\* The store of ++calls, the test of it and the return.
Count(t) ==
  /\ pc[t] = "count"
  /\ calls' = (seen[t] + 1) % Recheck
  /\ seen' = [seen EXCEPT ![t] = 0]
  /\ IF calls' = 0 THEN Decide(t)
                   ELSE Goto(t, Onward(t, state = "on")) /\ UNCHANGED state
  /\ UNCHANGED <<header, tree, isptrace, req, buf, sent, job, format>>

-----------------------------------------------------------------------------
(* isp_ioctl_trace: sampling the state at a wait, and the pokes of          *)
(* debug.isppoke.                                                           *)

Pokes == {<<>>, <<"write", "write">>, <<"write">>}

\* FAULTY: the poke is issued in place of the caller's wait.
ProbeReturns(t) ==
  /\ pc[t] = "probe"
  /\ \E poke \in Pokes : Send(t, <<"read">> \o poke)
  /\ Goto(t, "return")
  /\ UNCHANGED <<header, tree, isptrace, state, calls, req, buf, seen, job, format>>

Probe(t) ==
  /\ pc[t] = "probe"
  /\ \E poke \in Pokes : Send(t, <<"read">> \o poke)
  /\ Goto(t, "forward")
  /\ UNCHANGED <<header, tree, isptrace, state, calls, req, buf, seen, job, format>>

-----------------------------------------------------------------------------
(* ioctl: the translation, the kernel, the override.                       *)

\* FAULTY: only the first meta is translated.
TranslateFirst(t) ==
  /\ pc[t] = "translate"
  /\ buf' = [buf EXCEPT ![t] = [i \in DOMAIN @ |-> IF i = 1 THEN Translated(@[i], event_map) ELSE @[i]]]
  /\ Goto(t, "forward")
  /\ UNCHANGED <<header, tree, isptrace, state, calls, req, seen, sent, job, format>>

Translate(t) ==
  /\ pc[t] = "translate"
  /\ buf' = [buf EXCEPT ![t] = [i \in DOMAIN @ |-> Translated(@[i], event_map)]]
  /\ Goto(t, "forward")
  /\ UNCHANGED <<header, tree, isptrace, state, calls, req, seen, sent, job, format>>

\* The engine's share of a submit: cmdq's handler runs it or discards it.
Submitted(metas) ==
  LET table == EventTable(header, tree)
  IN  IF Accepted(metas, table) THEN {Program(metas, table)} ELSE {}

\* The caller's own command.  A GETINFO that succeeds fills the structs.
Forward(t) ==
  /\ pc[t] = "forward"
  /\ Send(t, <<req[t].kind>>)
  /\ job' = [job EXCEPT ![t] = IF req[t].kind = "submit" THEN Submitted(buf[t]) ELSE {}]
  /\ \/ /\ req[t].kind = "getinfo" \* and it succeeds
        /\ format' = [format EXCEPT ![t] = [i \in req[t].infos |-> "reported"]]
        /\ Goto(t, "override")
     \/ Goto(t, "return") /\ UNCHANGED format
  /\ UNCHANGED <<header, tree, isptrace, state, calls, req, buf, seen>>

\* The four orders of a Bayer sensor.
Formats == {"0", "1", "2", "3"}

\* The order the property asks for, if it names one.
bayer_override(text) == IF Len(text) = 1 /\ text[1] \in Formats THEN text[1] ELSE "none"

\* FAULTY: only the struct GETINFO2 has is overridden.
OverrideFirst(t) ==
  /\ pc[t] = "override"
  /\ \E text \in Texts : LET want == bayer_override(text) IN
       format' = [format EXCEPT ![t] = [i \in DOMAIN @ |-> IF want # "none" /\ i = 1 THEN want ELSE @[i]]]
  /\ Goto(t, "return")
  /\ UNCHANGED <<header, tree, isptrace, state, calls, req, buf, seen, sent, job>>

\* persist.camera.bayer, read once and anew for each call.
Override(t) ==
  /\ pc[t] = "override"
  /\ \E text \in Texts : LET want == bayer_override(text) IN
       format' = [format EXCEPT ![t] = [i \in DOMAIN @ |-> IF want # "none" THEN want ELSE @[i]]]
  /\ Goto(t, "return")
  /\ UNCHANGED <<header, tree, isptrace, state, calls, req, buf, seen, sent, job>>

\* The answer of the kernel is the caller's, and its memory is free again.
Return(t) ==
  /\ pc[t] = "return"
  /\ Goto(t, "caller")
  /\ req' = [req EXCEPT ![t] = Nothing]
  /\ buf' = [buf EXCEPT ![t] = <<>>]
  /\ sent' = [sent EXCEPT ![t] = <<>>]
  /\ job' = [job EXCEPT ![t] = {}]
  /\ format' = [format EXCEPT ![t] = <<>>]
  /\ UNCHANGED <<header, tree, isptrace, state, calls, seen>>

Step(t) == \/ Call(t) \/ Look(t) \/ Count(t) \/ Probe(t) \/ Translate(t)
           \/ Forward(t) \/ Override(t) \/ Return(t)
Next == SetTrace \/ \E t \in Threads : Step(t)
Spec == Init /\ [][Next]_vars

-----------------------------------------------------------------------------
(* What must hold.                                                         *)

Places == {"caller", "look", "count", "probe", "translate", "forward", "override", "return"}
Metas == Seq([op : Nat, offset : Nat])

\* Type invariant.
TypeOK ==
  /\ header \in Headers /\ tree \in Trees
  /\ isptrace \in {"never", "on", "off"} /\ state \in {"unknown", "on", "off"}
  /\ calls \in 0..(Recheck - 1)
  /\ pc \in [Threads -> Places] /\ req \in [Threads -> Requests]
  /\ buf \in [Threads -> Metas] /\ seen \in [Threads -> 0..(Recheck - 1)]
  /\ sent \in [Threads -> Seq(Kinds \cup {"read", "write"})]
  /\ DOMAIN job = Threads /\ DOMAIN format = Threads

\* The map inverts the kernel's table: whatever it gives for a hardware event
\* is an index the kernel knows, and stands for that event (gen_event_map.py:
\* "exactly the inverse of what cmdq_core_get_event_value() does").
MapInverts ==
  LET table == EventTable(header, tree)
  IN  \A hw \in DOMAIN event_map :
        event_map[hw] \in DOMAIN table /\ table[event_map[hw]] = hw

\* Every event a submit names is in the map.
Mapped(metas) == \A i \in DOMAIN metas : metas[i].op \in EventOps => metas[i].offset \in DOMAIN event_map

\* A submit whose events are all in the map is accepted, and the engine runs
\* just what the library meant: the same operations on the hardware events it
\* named, with the registers it named (cmdq_event_shim.c:575-590).
KnownSubmitsRun ==
  \A t \in Threads :
    pc[t] = "return" /\ req[t].kind = "submit" /\ Mapped(req[t].metas) => job[t] = {req[t].metas}

\* A call reaches the driver once, as the last command of the wrapper, and
\* alone if tracing was never asked for (cmdq_event_shim.c:311, 528-673).
ForwardedOnce ==
  \A t \in Threads : pc[t] = "return" =>
    LET n == Len(sent[t])
    IN  /\ n > 0 /\ sent[t][n] = req[t].kind
        /\ \A i \in 1..(n - 1) : sent[t][i] \in {"read", "write"}
        /\ isptrace = "never" => n = 1

\* The structs of one GETINFO never disagree, and hold a format there is: the
\* driver filled none of them and they are left alone, or it filled all and all
\* keep what it reported or got the same override, whatever the property holds
\* (cmdq_event_shim.c:628-669).
AnswersAgree ==
  \A t \in Threads : pc[t] = "return" /\ req[t].kind = "getinfo" =>
    \/ format[t] = <<>>
    \/ \E f \in {"reported"} \cup Formats : format[t] = [i \in req[t].infos |-> f]
=============================================================================
