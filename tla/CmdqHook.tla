------------------------------ MODULE CmdqHook -------------------------------
(***************************************************************************)
(* The clients of the command engine that tools/cmdq-trace brings, beside  *)
(* the camera under libcmdqevent (CmdqShim):                               *)
(*   - cameraserver started by camwrap, with ioctl_hook.so preloaded in    *)
(*     the shim's stead: it judges the metas of every submit as it passes, *)
(*     and translates their events unless CMDQ_FIX_EVENTS is 0;            *)
(*   - cmdqprobe, which submits jobs of its own and tells from the job_id  *)
(*     whether the kernel took them.                                       *)
(* A behaviour is that of one of the three.  The hook's isp_trace_on is    *)
(* the shim's; its tracer only logs, so a wait is any other ISP call, and  *)
(* the ioctls of the sensors pass it like the rest.  The engine bases of   *)
(* the metas are in range.                                                 *)
(***************************************************************************)
EXTENDS CmdqShim

CONSTANTS
  TokenMax, \* CMDQ_SYNC_TOKEN_MAX, 0x1FF in the code
  Sweep     \* the events cmdqprobe tries one by one

ASSUME HookAssumption ==
  /\ TokenMax \in Nat
  /\ \A h \in Headers : \A i \in DOMAIN h : h[i].index < TokenMax
  /\ Sweep \in Seq(Nat)

VARIABLES
  client,     \* whose behaviour it is: "shim", "camwrap", "hook", "probe" or "gone"
  asked,      \* CMDQ_FIX_EVENTS where camwrap is started: "unset", "0" or "1"
  passed,     \* and as camwrap hands it on
  fix_events, \* the hook's static
  bad,        \* the metas of its submit each thread judged bad
  probe       \* cmdqprobe: cases run, and the last struct's job_id

hook_vars == <<client, asked, passed, fix_events, bad, probe>>
library_vars == <<vars, hook_vars>>

HookInit ==
  /\ Init
  /\ client \in {"shim", "camwrap", "probe"}
  /\ asked \in (IF client = "camwrap" THEN {"unset", "0", "1"} ELSE {"unset"})
  /\ passed = "unset" /\ fix_events = -1
  /\ bad = [t \in Threads |-> {}]
  /\ probe = [cases |-> 0, job_id |-> 0]

-----------------------------------------------------------------------------
(* camwrap.                                                                *)

\* Dropping the privileges and execve, each of which may fail.
CamWrap ==
  /\ client = "camwrap"
  /\ \/ client' = "hook" /\ passed' = IF asked = "0" THEN "0" ELSE "1"
     \/ client' = "gone" /\ UNCHANGED passed
  /\ UNCHANGED <<vars, asked, fix_events, bad, probe>>

-----------------------------------------------------------------------------
(* ioctl_hook.so.                                                          *)

HookCall(t) ==
  /\ pc[t] = "caller"
  /\ \E r \in {q \in Requests : q.kind \in {"submit", "isp", "other"}} :
       /\ req' = [req EXCEPT ![t] = r]
       /\ buf' = [buf EXCEPT ![t] = r.metas]
       /\ Goto(t, CASE r.kind = "isp" -> "look" [] r.kind = "submit" -> "judge" [] OTHER -> "pass")
  /\ UNCHANGED <<header, tree, isptrace, state, calls, seen, sent, job, format, hook_vars>>

\* The environment is looked up at the first event.
Resolved(metas) ==
  IF fix_events < 0 /\ \E i \in DOMAIN metas : CarriesEvent(metas[i])
    THEN IF passed = "0" THEN 0 ELSE 1
    ELSE fix_events
should_fix == fix_events' = 1

\* What is wrong with a meta, by the hook's copy of the kernel's checks.
Bad(meta) ==
  \/ meta.op >= 12 \/ meta.op \in {1, 8} \* out of range; READ and WRITE_FD
  \/ CarriesEvent(meta) /\ meta.offset >= TokenMax
  \/ meta.op \in {0, 2, 9, 10} /\ (meta.offset > 4092 \/ meta.offset % 4 # 0)

\* FAULTY: the events are translated whatever the environment says.
HookTranslateAlways(t) ==
  LET fixed == [i \in DOMAIN buf[t] |-> Translated(buf[t][i], event_map)] IN
  /\ pc[t] = "judge"
  /\ fix_events' = Resolved(buf[t])
  /\ buf' = [buf EXCEPT ![t] = fixed]
  /\ bad' = [bad EXCEPT ![t] = {i \in DOMAIN fixed : Bad(fixed[i])}]
  /\ Goto(t, "pass")
  /\ UNCHANGED <<header, tree, isptrace, state, calls, req, seen, sent, job, format,
                 client, asked, passed, probe>>

\* FAULTY: an event is judged by its hardware value, before it is translated.
HookJudgeFirst(t) ==
  LET fixed == [i \in DOMAIN buf[t] |->
                  IF should_fix THEN Translated(buf[t][i], event_map) ELSE buf[t][i]] IN
  /\ pc[t] = "judge"
  /\ fix_events' = Resolved(buf[t])
  /\ buf' = [buf EXCEPT ![t] = fixed]
  /\ bad' = [bad EXCEPT ![t] = {i \in DOMAIN fixed : Bad(buf[t][i])}]
  /\ Goto(t, "pass")
  /\ UNCHANGED <<header, tree, isptrace, state, calls, req, seen, sent, job, format,
                 client, asked, passed, probe>>

\* The loop over the metas: an event is translated in place, then judged.
HookJudge(t) ==
  LET fixed == [i \in DOMAIN buf[t] |->
                  IF should_fix THEN Translated(buf[t][i], event_map) ELSE buf[t][i]] IN
  /\ pc[t] = "judge"
  /\ fix_events' = Resolved(buf[t])
  /\ buf' = [buf EXCEPT ![t] = fixed]
  /\ bad' = [bad EXCEPT ![t] = {i \in DOMAIN fixed : Bad(fixed[i])}]
  /\ Goto(t, "pass")
  /\ UNCHANGED <<header, tree, isptrace, state, calls, req, seen, sent, job, format,
                 client, asked, passed, probe>>

\* real_ioctl, traced or not: the hook is done but for its log lines.
HookForward(t) ==
  /\ pc[t] \in {"pass", "forward"}
  /\ Send(t, <<req[t].kind>>)
  /\ job' = [job EXCEPT ![t] = IF req[t].kind = "submit" THEN Submitted(buf[t]) ELSE {}]
  /\ Goto(t, "hooked")
  /\ UNCHANGED <<header, tree, isptrace, state, calls, req, buf, seen, format, hook_vars>>

HookReturn(t) ==
  /\ pc[t] = "hooked"
  /\ Goto(t, "caller")
  /\ req' = [req EXCEPT ![t] = Nothing]
  /\ buf' = [buf EXCEPT ![t] = <<>>]
  /\ sent' = [sent EXCEPT ![t] = <<>>]
  /\ job' = [job EXCEPT ![t] = {}]
  /\ bad' = [bad EXCEPT ![t] = {}]
  /\ UNCHANGED <<header, tree, isptrace, state, calls, seen, format,
                 client, asked, passed, fix_events, probe>>

\* isp_trace_on, the shim's word for word.
HookTrace(t) == (Look(t) \/ Count(t)) /\ UNCHANGED hook_vars

-----------------------------------------------------------------------------
(* cmdqprobe.                                                              *)

MOP_WRITE == [op |-> 0, offset |-> 8]
MOP_POLL == [op |-> 2, offset |-> 1032]
MOP_WAIT(event) == [op |-> 3, offset |-> event]
Writes(count) == [i \in 1..count |-> MOP_WRITE]

\* main's cases: the engine flags, the sizes, the mix, and the sweep.
Cases ==
  <<Writes(1), Writes(1), Writes(1), Writes(167), Writes(231),
    <<MOP_WRITE, MOP_POLL>>, <<MOP_WRITE, MOP_POLL, MOP_WAIT(53)>>>>
  \o [i \in DOMAIN Sweep |-> <<MOP_WAIT(Sweep[i])>>]

\* run and run_evt: a struct of zeroes, in which the kernel writes the job_id
\* if it takes the job; it may refuse one for reasons outside of this model.
Run(metas) ==
  \E ran \in {FALSE, Accepted(metas, EventTable(header, tree))} :
    probe' = [cases |-> probe.cases + 1, job_id |-> IF ran THEN probe.cases + 1 ELSE 0]

\* One case after the other, on a device that may fail to open.
Probing ==
  /\ client = "probe"
  /\ \/ /\ probe.cases < Len(Cases)
        /\ Run(Cases[probe.cases + 1])
        /\ UNCHANGED client
     \/ /\ probe.cases \in {0, Len(Cases)}
        /\ client' = "gone"
        /\ UNCHANGED probe
  /\ UNCHANGED <<vars, asked, passed, fix_events, bad>>

-----------------------------------------------------------------------------
HookStep(t) == HookCall(t) \/ HookTrace(t) \/ HookJudge(t) \/ HookForward(t) \/ HookReturn(t)

HookNext ==
  \/ client = "shim" /\ Next /\ UNCHANGED hook_vars
  \/ CamWrap
  \/ client = "hook" /\ ((SetTrace /\ UNCHANGED hook_vars) \/ \E t \in Threads : HookStep(t))
  \/ Probing

-----------------------------------------------------------------------------
(* What must hold.                                                         *)

\* The hook changes nothing but what it was asked to: a call reaches the
\* driver once and by itself; started with CMDQ_FIX_EVENTS=0 the kernel gets
\* the caller's own metas ("trace without rewriting", ioctl_hook.c:15), and
\* otherwise a submit of known events runs as the library meant it, whichever
\* thread was the first to resolve the environment.
HookTransparent ==
  \A t \in Threads : pc[t] = "hooked" =>
    /\ sent[t] = <<req[t].kind>>
    /\ asked = "0" /\ req[t].kind = "submit" => job[t] = Submitted(req[t].metas)
    /\ asked # "0" /\ req[t].kind = "submit" /\ Mapped(req[t].metas) => job[t] = {req[t].metas}

\* An event the hook reports as bad is one for which the kernel discards the
\* submit ("mirror kernel translate_meta() validation", ioctl_hook.c:276), the
\* event being judged as the kernel sees it.
HookVerdict ==
  \A t \in Threads : pc[t] = "hooked" =>
    \A i \in bad[t] : CarriesEvent(req[t].metas[i]) => job[t] = {}
=============================================================================
