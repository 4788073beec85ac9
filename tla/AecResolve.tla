----------------------------- MODULE AecResolve ------------------------------
(***************************************************************************)
(* How libamznaec finds the real tinyalsa (amznaec_shim.cpp:162-177).      *)
(* Every pcm_open, pcm_read and pcm_close begins with resolve(), which     *)
(* fills three pointers without a lock and which other threads leave as    *)
(* soon as they see the first of them.  One step is one load or store of a *)
(* pointer, in the order of the source.                                    *)
(***************************************************************************)
EXTENDS Naturals, Sequences

CONSTANT Threads

Symbols == <<"open", "read", "close">> \* in the order they are looked up
Ops == {"open", "read", "close"}

VARIABLES
  where, \* what has the symbols: "lib" (libtinyalsa), "next" (RTLD_NEXT) or "none"
  real,  \* the pointers that are not null
  op,    \* the call each thread is in
  pc,    \* where it is: "client" is outside of the shim
  n,     \* the symbol it looks up next
  stream \* the threads that have a pcm open

vars == <<where, real, op, pc, n, stream>>

Init ==
  /\ where \in {"lib", "next", "none"}
  /\ real = {}
  /\ op = [t \in Threads |-> "open"]
  /\ pc = [t \in Threads |-> "client"]
  /\ n = [t \in Threads |-> 1]
  /\ stream = {}

Goto(t, label) == pc' = [pc EXCEPT ![t] = label]

\* A read or a close needs a pcm.
Call(t) ==
  /\ pc[t] = "client"
  /\ \E o \in IF t \in stream THEN {"read", "close"} ELSE {"open"} : op' = [op EXCEPT ![t] = o]
  /\ Goto(t, "resolve")
  /\ UNCHANGED <<where, real, n, stream>>

\* if (real_pcm_open) return; and the dlopen of libtinyalsa.
Resolve(t) ==
  /\ pc[t] = "resolve"
  /\ Goto(t, IF "open" \in real THEN "forward" ELSE IF where = "lib" THEN "lib" ELSE "next")
  /\ n' = [n EXCEPT ![t] = 1]
  /\ UNCHANGED <<where, real, op, stream>>

\* The next symbol from one place, and where the thread goes after the last.
LookUp(t, place, after) ==
  /\ pc[t] = place
  /\ real' = IF where = place THEN real \cup {Symbols[n[t]]} ELSE real
  /\ IF n[t] < Len(Symbols) THEN n' = [n EXCEPT ![t] = @ + 1] /\ UNCHANGED pc
                            ELSE n' = [n EXCEPT ![t] = 1] /\ Goto(t, after)
  /\ UNCHANGED <<where, op, stream>>

\* libtinyalsa's own symbols, then RTLD_NEXT for what is still null.
Dlsym(t) == LookUp(t, "lib", "next") \/ LookUp(t, "next", "check")

\* LOG_ALWAYS_FATAL
Check(t) ==
  /\ pc[t] = "check"
  /\ Goto(t, IF Ops \subseteq real THEN "forward" ELSE "fatal")
  /\ UNCHANGED <<where, real, op, n, stream>>

\* The call through the pointer.
Forward(t) ==
  /\ pc[t] = "forward"
  /\ IF op[t] \in real
     THEN /\ Goto(t, "client")
          /\ stream' = CASE op[t] = "open" -> stream \cup {t}
                         [] op[t] = "close" -> stream \ {t}
                         [] OTHER -> stream
     ELSE Goto(t, "crash") /\ UNCHANGED stream
  /\ UNCHANGED <<where, real, op, n>>

\* Fatal or crashed, the process is gone.
Alive == \A t \in Threads : pc[t] \notin {"fatal", "crash"}

Next ==
  /\ Alive
  /\ \E t \in Threads : Call(t) \/ Resolve(t) \/ Dlsym(t) \/ Check(t) \/ Forward(t)

Spec == Init /\ [][Next]_vars

-----------------------------------------------------------------------------
(* Properties.                                                             *)

\* amznaec_shim.cpp:174-176, all three symbols or LOG_ALWAYS_FATAL: a call never
\* goes through a null pointer.
NeverNull == \A t \in Threads : pc[t] # "crash"

=============================================================================
