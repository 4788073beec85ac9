------------------------- MODULE CmdqLibrary_proofs --------------------------
(***************************************************************************)
(* Theorems about everything preloaded into cameraserver.  First the shim  *)
(* (CmdqShim), for every header that declares an index for one name only,  *)
(* every device tree, any number of threads and any submit.  Then the      *)
(* library as a whole, of LibrarySpec: what is shown of the shim still     *)
(* holds where the tools may take its place; the hook of the tools is      *)
(* transparent and its verdicts are the kernel's; and the AWB trim scales  *)
(* every gain once.                                                        *)
(***************************************************************************)
EXTENDS CmdqLibrary, WellFoundedInduction, SequenceTheorems, FiniteSetTheorems, TLAPS

-----------------------------------------------------------------------------
(* The shim.                                                               *)

(* A set of numbers has a least element.                                    *)
LEMMA FirstExists ==
  ASSUME NEW S \in SUBSET Nat, S # {}
  PROVE  First(S) \in S /\ \A n \in S : First(S) =< n
<1>1. \E x \in S : \A y \in S : ~(<<y, x>> \in OpToRel(<, Nat))
  BY NatLessThanWellFounded, WFMin
<1>2. PICK x \in S : \A y \in S : ~(<<y, x>> \in OpToRel(<, Nat))
  BY <1>1
<1>3. \A y \in S : x =< y
  <2> SUFFICES ASSUME NEW y \in S, ~(x =< y) PROVE FALSE
    OBVIOUS
  <2>1. y < x /\ x \in Nat /\ y \in Nat
    OBVIOUS
  <2>2. <<y, x>> \in OpToRel(<, Nat)
    BY <2>1 DEF OpToRel
  <2> QED
    BY <2>2, <1>2
<1> QED
  BY <1>3 DEF First

(* The index enum_by_dts has for a name is one declared for it.             *)
LEMMA EnumDeclared ==
  ASSUME NEW h \in Header, NEW name \in DOMAIN enum_by_dts(h)
  PROVE  \E i \in DOMAIN h : /\ h[i].name = name /\ h[i].index >= 0
                             /\ enum_by_dts(h)[name] = h[i].index
<1>1. Declarations(h, name) # {} /\ Declarations(h, name) \in SUBSET Nat
  BY DEF enum_by_dts, Declarations, Header
<1>2. First(Declarations(h, name)) \in Declarations(h, name)
  BY <1>1, FirstExists
<1>3. enum_by_dts(h)[name] = h[First(Declarations(h, name))].index
  BY DEF enum_by_dts
<1> QED
  BY <1>2, <1>3 DEF Declarations

(* What hw_to_enum has for a hardware value is the index of a name with     *)
(* that value.                                                             *)
LEMMA MapClaims ==
  ASSUME NEW h \in Header, NEW T, T \in [DOMAIN T -> Nat], DOMAIN T \subseteq Nat,
         NEW hw \in DOMAIN hw_to_enum(h, T)
  PROVE  \E name \in DOMAIN T \cap DOMAIN enum_by_dts(h) :
            T[name] = hw /\ hw_to_enum(h, T)[hw] = enum_by_dts(h)[name]
<1>1. Claims(h, T, hw) # {} /\ Claims(h, T, hw) \in SUBSET Nat
  BY DEF hw_to_enum, Claims
<1>2. First(Claims(h, T, hw)) \in Claims(h, T, hw)
  BY <1>1, FirstExists
<1>3. hw_to_enum(h, T)[hw] = enum_by_dts(h)[First(Claims(h, T, hw))]
  BY DEF hw_to_enum
<1> QED
  BY <1>2, <1>3 DEF Claims

(* The map inverts the kernel's table.                                     *)
LEMMA TableInverse ==
  ASSUME NEW h \in Header, OneNamePerIndex(h),
         NEW T, T \in [DOMAIN T -> Nat], DOMAIN T \subseteq Nat,
         NEW hw \in DOMAIN hw_to_enum(h, T)
  PROVE  /\ hw_to_enum(h, T)[hw] \in DOMAIN EventTable(h, T)
         /\ EventTable(h, T)[hw_to_enum(h, T)[hw]] = hw
<1> DEFINE Named(i) == {k \in DOMAIN h : h[k].index = i /\ h[k].name \in DOMAIN T}
           e == hw_to_enum(h, T)[hw]
<1>1. PICK name \in DOMAIN T \cap DOMAIN enum_by_dts(h) : T[name] = hw /\ e = enum_by_dts(h)[name]
  BY MapClaims
<1>2. PICK i \in DOMAIN h : h[i].name = name /\ h[i].index >= 0 /\ e = h[i].index
  BY <1>1, EnumDeclared
<1>3. i \in Named(e)
  BY <1>1, <1>2
<1>4. PICK k \in Named(e) : k = CHOOSE n \in Named(e) : TRUE
  BY <1>3
<1>5. h[k].name = name
  BY <1>2, <1>4 DEF OneNamePerIndex, Header
<1>6. /\ e \in DOMAIN EventTable(h, T)
      /\ EventTable(h, T)[e] = T[h[k].name]
  BY <1>2, <1>3, <1>4 DEF EventTable
<1> QED
  BY <1>1, <1>5, <1>6

-----------------------------------------------------------------------------
(* The type invariant.                                                     *)

LEMMA InSeq ==
  ASSUME NEW S, NEW s \in Seq(S), NEW i \in DOMAIN s
  PROVE  s[i] \in S
OBVIOUS

LEMMA NothingType == Nothing \in Requests /\ <<>> \in Metas
<1>1. "other" \in Kinds \ {"submit", "getinfo"}
  BY DEF Kinds
<1>2. Nothing \in {[kind |-> k, metas |-> <<>>, infos |-> {}] : k \in Kinds \ {"submit", "getinfo"}}
  BY <1>1 DEF Nothing
<1> QED
  BY <1>2 DEF Requests, Metas

LEMMA RequestType == ASSUME NEW r \in Requests PROVE r.metas \in Metas /\ r.kind \in Kinds
<1>1. <<>> \in Metas
  BY DEF Metas
<1>2. CASE \E m \in Submits : r = [kind |-> "submit", metas |-> m, infos |-> {}]
  BY <1>2, CmdqAssumption DEF Kinds, Metas
<1>3. CASE \E I \in SUBSET {1, 2} : r = [kind |-> "getinfo", metas |-> <<>>, infos |-> I]
  BY <1>3, <1>1 DEF Kinds
<1>4. CASE \E k \in Kinds : r = [kind |-> k, metas |-> <<>>, infos |-> {}]
  BY <1>4, <1>1
<1> QED
  BY <1>2, <1>3, <1>4 DEF Requests

\* The kernel's sources are among those it may have.
Sources == header \in Headers /\ tree \in Trees

(* An entry of the map is a natural number.                                *)
LEMMA MapType ==
  ASSUME Sources, NEW hw \in DOMAIN event_map
  PROVE  event_map[hw] \in Nat
<1>1. header \in Header /\ tree \in [DOMAIN tree -> Nat] /\ DOMAIN tree \subseteq Nat
  BY CmdqAssumption DEF Sources
<1>2. PICK name \in DOMAIN enum_by_dts(header) : event_map[hw] = enum_by_dts(header)[name]
  BY <1>1, MapClaims DEF event_map
<1>3. PICK i \in DOMAIN header : header[i].index >= 0 /\ event_map[hw] = header[i].index
  BY <1>1, <1>2, EnumDeclared
<1>4. header[i] \in [name : Nat, index : Int]
  BY <1>1, InSeq DEF Header
<1> QED
  BY <1>3, <1>4

LEMMA TranslatedType ==
  ASSUME Sources, NEW metas \in Metas
  PROVE  [i \in DOMAIN metas |-> Translated(metas[i], event_map)] \in Metas
<1>1. \A i \in DOMAIN metas : Translated(metas[i], event_map) \in [op : Nat, offset : Nat]
  <2> SUFFICES ASSUME NEW i \in DOMAIN metas
      PROVE  Translated(metas[i], event_map) \in [op : Nat, offset : Nat]
    OBVIOUS
  <2>1. metas[i] \in [op : Nat, offset : Nat]
    BY InSeq DEF Metas
  <2>2. CASE metas[i].offset \in DOMAIN event_map
    <3>1. event_map[metas[i].offset] \in Nat
      BY <2>2, MapType
    <3> QED
      BY <2>1, <3>1 DEF Translated
  <2>3. CASE metas[i].offset \notin DOMAIN event_map
    BY <2>1, <2>3 DEF Translated
  <2> QED
    BY <2>2, <2>3
<1>2. DOMAIN metas = 1..Len(metas) /\ Len(metas) \in Nat
  BY DEF Metas
<1> QED
  BY <1>1, <1>2 DEF Metas

(* What a probe sends, and what sending does to the log.                   *)
LEMMA SentType ==
  ASSUME NEW poke \in Pokes
  PROVE  /\ <<"read">> \o poke \in Seq(Kinds \cup {"read", "write"})
         /\ <<"read">> \o poke \in Seq({"read", "write"})
<1>1. poke \in Seq({"read", "write"})
  <2> DEFINE R == {"read", "write"}
  <2>1. <<>> \in Seq(R) /\ <<"write">> \in Seq(R) /\ <<"write", "write">> \in Seq(R)
    OBVIOUS
  <2> QED
    BY <2>1 DEF Pokes
<1>2. poke \in Seq(Kinds \cup {"read", "write"}) /\ <<"read">> \in Seq(Kinds \cup {"read", "write"})
  BY <1>1
<1>3. <<"read">> \in Seq({"read", "write"})
  OBVIOUS
<1> QED
  BY <1>1, <1>2, <1>3

LEMMA SendType ==
  ASSUME NEW C, sent \in [Threads -> Seq(C)], NEW t \in Threads, NEW s \in Seq(C), Send(t, s)
  PROVE  sent' \in [Threads -> Seq(C)] /\ sent'[t] = sent[t] \o s
<1>1. sent[t] \o s \in Seq(C)
  OBVIOUS
<1> QED
  BY <1>1 DEF Send

LEMMA TypeInit == Init => TypeOK
BY NothingType, CmdqAssumption DEF Init, TypeOK, Places

LEMMA TypeNext == TypeOK /\ [Next]_vars => TypeOK'
<1> SUFFICES ASSUME TypeOK, [Next]_vars PROVE TypeOK'
  OBVIOUS
<1> USE DEF TypeOK, Places
<1>1. CASE SetTrace
  BY <1>1 DEF SetTrace
<1>2. ASSUME NEW t \in Threads, Call(t) PROVE TypeOK'
  BY <1>2, RequestType DEF Call, Goto
<1>3. ASSUME NEW t \in Threads, Look(t) PROVE TypeOK'
  BY <1>3 DEF Look, Decide, Onward, Goto
<1>4. ASSUME NEW t \in Threads, Count(t) PROVE TypeOK'
  <2>1. calls' \in 0..(Recheck - 1) /\ 0 \in 0..(Recheck - 1)
    BY <1>4, CmdqAssumption DEF Count
  <2> QED
    BY <1>4, <2>1 DEF Count, Decide, Onward, Goto
<1>5. ASSUME NEW t \in Threads, Probe(t) PROVE TypeOK'
  <2>1. PICK poke \in Pokes : Send(t, <<"read">> \o poke)
    BY <1>5 DEF Probe
  <2>2. <<"read">> \o poke \in Seq(Kinds \cup {"read", "write"})
    BY SentType
  <2>3. sent' \in [Threads -> Seq(Kinds \cup {"read", "write"})]
    BY <2>1, <2>2, SendType
  <2> QED
    BY <1>5, <2>3 DEF Probe, Goto
<1>6. ASSUME NEW t \in Threads, Translate(t) PROVE TypeOK'
  <2>1. [i \in DOMAIN buf[t] |-> Translated(buf[t][i], event_map)] \in Metas
    BY TranslatedType DEF Sources
  <2> QED
    BY <1>6, <2>1 DEF Translate, Goto
<1>7. ASSUME NEW t \in Threads, Forward(t) PROVE TypeOK'
  <2>1. <<req[t].kind>> \in Seq(Kinds \cup {"read", "write"})
    BY RequestType
  <2>2. sent' \in [Threads -> Seq(Kinds \cup {"read", "write"})]
    BY <1>7, <2>1, SendType DEF Forward
  <2> QED
    BY <1>7, <2>2 DEF Forward, Goto
<1>8. ASSUME NEW t \in Threads, Override(t) PROVE TypeOK'
  BY <1>8 DEF Override, Goto
<1>9. ASSUME NEW t \in Threads, Return(t) PROVE TypeOK'
  BY <1>9, NothingType DEF Return, Goto
<1>10. CASE UNCHANGED vars
  BY <1>10 DEF vars
<1> QED
  BY <1>1, <1>2, <1>3, <1>4, <1>5, <1>6, <1>7, <1>8, <1>9, <1>10 DEF Next, Step

(* Type correctness of the wrapper.                                        *)
THEOREM ShimTypes == Spec => []TypeOK
<1>1. Init => TypeOK
  BY TypeInit
<1>2. TypeOK /\ [Next]_vars => TypeOK'
  BY TypeNext
<1> QED
  BY <1>1, <1>2, PTL DEF Spec

LEMMA SourcesInvert == Sources => MapInverts
<1> SUFFICES ASSUME Sources, NEW hw \in DOMAIN event_map
    PROVE  /\ event_map[hw] \in DOMAIN EventTable(header, tree)
           /\ EventTable(header, tree)[event_map[hw]] = hw
  BY DEF MapInverts
<1>1. /\ header \in Header /\ OneNamePerIndex(header)
      /\ tree \in [DOMAIN tree -> Nat] /\ DOMAIN tree \subseteq Nat
  BY CmdqAssumption DEF Sources
<1> QED
  BY <1>1, TableInverse DEF event_map

(* The map in use inverts the table of the kernel in use: the claim of     *)
(* gen_event_map.py's header, for every pair of kernel sources.            *)
THEOREM MapIsInverse == Spec => []MapInverts
<1>1. TypeOK => MapInverts
  BY SourcesInvert DEF TypeOK, Sources
<1> QED
  BY <1>1, ShimTypes, PTL

-----------------------------------------------------------------------------
(* What becomes of a submit.                                               *)

Translation(metas) == [i \in DOMAIN metas |-> Translated(metas[i], event_map)]

\* How far a thread has come with the submit it was asked for.
Further(t) ==
  req[t].kind = "submit" =>
    /\ pc[t] \in {"translate", "forward", "return"}
    /\ pc[t] = "translate" => buf[t] = req[t].metas
    /\ pc[t] = "forward" => buf[t] = Translation(req[t].metas)
    /\ pc[t] = "return" => job[t] = Submitted(Translation(req[t].metas))

SubmitInv == \A t \in Threads : Further(t)

(* Translating and then letting the kernel look the events up gives back   *)
(* what was submitted, if the map has every event of it.                   *)
LEMMA RoundTrip ==
  ASSUME MapInverts, NEW metas \in Metas, Mapped(metas)
  PROVE  Submitted(Translation(metas)) = {metas}
<1> DEFINE table == EventTable(header, tree)
           moved == Translation(metas)
<1>1. DOMAIN moved = DOMAIN metas
  BY DEF Translation
<1>2. ASSUME NEW i \in DOMAIN metas
      PROVE  /\ moved[i].op = metas[i].op
             /\ metas[i].op \in EventOps =>
                  /\ moved[i].offset \in DOMAIN table
                  /\ [moved[i] EXCEPT !.offset = table[moved[i].offset]] = metas[i]
             /\ metas[i].op \notin EventOps => moved[i] = metas[i]
  <2>1. metas[i] \in [op : Nat, offset : Nat] /\ moved[i] = Translated(metas[i], event_map)
    BY InSeq DEF Metas, Translation
  <2>2. CASE metas[i].op \in EventOps
    <3>1. metas[i].offset \in DOMAIN event_map
      BY <2>2 DEF Mapped
    <3>2. /\ event_map[metas[i].offset] \in DOMAIN table
          /\ table[event_map[metas[i].offset]] = metas[i].offset
      BY <3>1 DEF MapInverts
    <3>3. moved[i] = [metas[i] EXCEPT !.offset = event_map[metas[i].offset]]
      BY <2>1, <2>2, <3>1 DEF Translated, CarriesEvent, EventOps, MOP_EVENT_FIRST, MOP_EVENT_LAST
    <3> QED
      BY <2>1, <2>2, <3>2, <3>3
  <2>3. CASE metas[i].op \notin EventOps
    BY <2>1, <2>3 DEF Translated, CarriesEvent, EventOps, MOP_EVENT_FIRST, MOP_EVENT_LAST
  <2> QED
    BY <2>2, <2>3
<1>3. Accepted(moved, table)
  BY <1>1, <1>2 DEF Accepted
<1>4. Program(moved, table) = [i \in DOMAIN metas |-> metas[i]]
  BY <1>1, <1>2 DEF Program
<1>5. metas = [i \in DOMAIN metas |-> metas[i]]
  BY DEF Metas
<1> QED
  BY <1>3, <1>4, <1>5 DEF Submitted

LEMMA SubmitNext == TypeOK /\ SubmitInv /\ [Next]_vars => SubmitInv'
<1> SUFFICES ASSUME TypeOK, SubmitInv, [Next]_vars, NEW u \in Threads PROVE Further(u)'
  BY DEF SubmitInv
<1> USE DEF TypeOK, SubmitInv, Further, Translation, Submitted, event_map, Goto
<1>1. CASE SetTrace
  BY <1>1 DEF SetTrace
<1>2. ASSUME NEW t \in Threads, Call(t) PROVE Further(u)'
  BY <1>2 DEF Call
<1>3. ASSUME NEW t \in Threads, Look(t) PROVE Further(u)'
  BY <1>3 DEF Look, Decide, Onward
<1>4. ASSUME NEW t \in Threads, Count(t) PROVE Further(u)'
  BY <1>4 DEF Count, Decide, Onward
<1>5. ASSUME NEW t \in Threads, Probe(t) PROVE Further(u)'
  BY <1>5 DEF Probe
<1>6. ASSUME NEW t \in Threads, Translate(t) PROVE Further(u)'
  BY <1>6 DEF Translate
<1>7. ASSUME NEW t \in Threads, Forward(t) PROVE Further(u)'
  <2>1. /\ pc[t] = "forward" /\ UNCHANGED <<header, tree, req, buf>>
        /\ pc' = [pc EXCEPT ![t] = "override"] \/ pc' = [pc EXCEPT ![t] = "return"]
        /\ req[t].kind = "submit" => pc' = [pc EXCEPT ![t] = "return"]
        /\ job' = [job EXCEPT ![t] = IF req[t].kind = "submit" THEN Submitted(buf[t]) ELSE {}]
    BY <1>7 DEF Forward
  <2>2. CASE u = t
    <3>1. CASE req[t].kind = "submit"
      <4>1. buf[t] = Translation(req[t].metas)
        BY <2>1, <2>2, <3>1
      <4>2. job'[t] = Submitted(buf[t]) /\ pc'[t] = "return" /\ req' = req
        BY <2>1, <3>1
      <4>3. (Submitted(Translation(req[t].metas)))' = Submitted(Translation(req[t].metas))
        BY <2>1
      <4> HIDE DEF Submitted, Translation
      <4> QED
        BY <2>2, <4>1, <4>2, <4>3
    <3>2. CASE req[t].kind # "submit"
      BY <2>1, <2>2, <3>2
    <3> QED
      BY <3>1, <3>2
  <2>3. CASE u # t
    BY <2>1, <2>3
  <2> QED
    BY <2>2, <2>3
<1>8. ASSUME NEW t \in Threads, Override(t) PROVE Further(u)'
  BY <1>8 DEF Override
<1>9. ASSUME NEW t \in Threads, Return(t) PROVE Further(u)'
  BY <1>9 DEF Return, Nothing
<1>10. CASE UNCHANGED vars
  BY <1>10 DEF vars
<1> QED
  BY <1>1, <1>2, <1>3, <1>4, <1>5, <1>6, <1>7, <1>8, <1>9, <1>10 DEF Next, Step

LEMMA SubmitsRun == TypeOK /\ MapInverts /\ SubmitInv => KnownSubmitsRun
<1> SUFFICES ASSUME TypeOK, MapInverts, SubmitInv, NEW t \in Threads,
                    pc[t] = "return", req[t].kind = "submit", Mapped(req[t].metas)
             PROVE  job[t] = {req[t].metas}
  BY DEF KnownSubmitsRun
<1>1. req[t].metas \in Metas
  BY RequestType DEF TypeOK
<1> QED
  BY <1>1, RoundTrip DEF SubmitInv, Further

(* A submit of known events is accepted and runs as the library meant it.  *)
THEOREM KnownEventsRun == Spec => []KnownSubmitsRun
<1>1. Init => SubmitInv
  BY DEF Init, SubmitInv, Further, Nothing
<1>2. TypeOK /\ SubmitInv /\ [Next]_vars => SubmitInv'
  BY SubmitNext
<1> QED
  BY <1>1, <1>2, SubmitsRun, ShimTypes, MapIsInverse, PTL DEF Spec

-----------------------------------------------------------------------------
(* What reaches the driver.                                                *)

Own == {"read", "write"} \* the commands that are the shim's own
Quiet == isptrace = "never"

\* The caller's command is out, and is the last.
Passed(t) ==
  LET n == Len(sent[t])
  IN  n > 0 /\ sent[t][n] = req[t].kind /\ (\A i \in 1..(n - 1) : sent[t][i] \in Own) /\ (Quiet => n = 1)

Sending(t) ==
  /\ pc[t] \in {"caller", "look", "count", "translate", "probe"} => sent[t] = <<>>
  /\ pc[t] = "probe" => ~Quiet
  /\ pc[t] = "forward" => sent[t] \in Seq(Own) /\ (Quiet => sent[t] = <<>>)
  /\ pc[t] \in {"override", "return"} => Passed(t)

SentInv == (state = "on" => ~Quiet) /\ \A t \in Threads : Sending(t)

LEMMA SentNext == TypeOK /\ SentInv /\ [Next]_vars => SentInv'
<1> SUFFICES ASSUME TypeOK, SentInv, [Next]_vars PROVE SentInv'
  OBVIOUS
<1> USE DEF TypeOK, SentInv, Sending, Passed, Quiet, Goto, Places
<1>1. CASE SetTrace
  BY <1>1 DEF SetTrace
<1>2. ASSUME NEW t \in Threads, Call(t) PROVE SentInv'
  <2>1. PICK r \in Requests :
          /\ req' = [req EXCEPT ![t] = r]
          /\ \E label \in {"look", "translate", "forward"} : pc' = [pc EXCEPT ![t] = label]
    BY <1>2 DEF Call
  <2>2. pc[t] = "caller" /\ UNCHANGED <<isptrace, state, sent>> /\ <<>> \in Seq(Own)
    BY <1>2 DEF Call
  <2> QED
    BY <2>1, <2>2
<1>3. ASSUME NEW t \in Threads, Look(t) PROVE SentInv'
  <2>1. <<>> \in Seq(Own)
    OBVIOUS
  <2> QED
    BY <1>3, <2>1 DEF Look, Decide, Onward
<1>4. ASSUME NEW t \in Threads, Count(t) PROVE SentInv'
  <2>1. <<>> \in Seq(Own)
    OBVIOUS
  <2> QED
    BY <1>4, <2>1 DEF Count, Decide, Onward
<1>5. ASSUME NEW t \in Threads, Probe(t) PROVE SentInv'
  <2>1. PICK poke \in Pokes : Send(t, <<"read">> \o poke)
    BY <1>5 DEF Probe
  <2>2. sent'[t] \in Seq(Own) /\ \A u \in Threads \ {t} : sent'[u] = sent[u]
    <3>1. sent[t] = <<>> /\ <<"read">> \o poke \in Seq(Own)
      BY <1>5, SentType DEF Probe, Own
    <3> QED
      BY <2>1, <3>1 DEF Send
  <2>3. pc' = [pc EXCEPT ![t] = "forward"] /\ pc[t] = "probe" /\ UNCHANGED <<isptrace, state, req>>
    BY <1>5 DEF Probe
  <2> QED
    BY <2>2, <2>3
<1>6. ASSUME NEW t \in Threads, Translate(t) PROVE SentInv'
  <2>1. <<>> \in Seq(Own)
    OBVIOUS
  <2> QED
    BY <1>6, <2>1 DEF Translate
<1>7. ASSUME NEW t \in Threads, Forward(t) PROVE SentInv'
  <2>1. /\ pc[t] = "forward" /\ UNCHANGED <<isptrace, state, req>>
        /\ \E label \in {"override", "return"} : pc' = [pc EXCEPT ![t] = label]
        /\ sent' = [sent EXCEPT ![t] = @ \o <<req[t].kind>>]
    BY <1>7 DEF Forward, Send
  <2>2. sent[t] \in Seq(Own) /\ (Quiet => sent[t] = <<>>) /\ req[t].kind \in Kinds
    BY <2>1, RequestType
  <2>3. Passed(t)'
    <3> DEFINE s == sent[t] \o <<req[t].kind>>
    <3>1. /\ Len(s) = Len(sent[t]) + 1 /\ Len(sent[t]) \in Nat /\ s[Len(s)] = req[t].kind
          /\ \A i \in 1..Len(sent[t]) : s[i] = sent[t][i] /\ sent[t][i] \in Own
      BY <2>2
    <3>2. Quiet => Len(s) = 1
      BY <2>2, <3>1
    <3>3. sent'[t] = s /\ req' = req /\ (Quiet' <=> Quiet)
      BY <2>1
    <3>4. Len(s) > 0 /\ \A i \in 1..(Len(s) - 1) : s[i] \in Own
      BY <3>1, SMTT(30)
    <3> HIDE DEF s, Quiet
    <3> QED
      BY <3>1, <3>2, <3>3, <3>4
  <2>4. \A u \in Threads \ {t} : Sending(u)'
    BY <2>1
  <2> QED
    BY <2>1, <2>3, <2>4
<1>8. ASSUME NEW t \in Threads, Override(t) PROVE SentInv'
  BY <1>8 DEF Override
<1>9. ASSUME NEW t \in Threads, Return(t) PROVE SentInv'
  BY <1>9 DEF Return
<1>10. CASE UNCHANGED vars
  BY <1>10 DEF vars
<1> QED
  BY <1>1, <1>2, <1>3, <1>4, <1>5, <1>6, <1>7, <1>8, <1>9, <1>10 DEF Next, Step

(* A call reaches the driver once, last, and alone unless tracing was      *)
(* asked for, for any number of threads sharing the tracing's statics.     *)
THEOREM CommandsPassOnce == Spec => []ForwardedOnce
<1>1. Init => SentInv
  BY DEF Init, SentInv, Sending, Quiet
<1>2. TypeOK /\ SentInv /\ [Next]_vars => SentInv'
  BY SentNext
<1>3. SentInv => ForwardedOnce
  BY DEF SentInv, Sending, Passed, Quiet, Own, ForwardedOnce
<1> QED
  BY <1>1, <1>2, <1>3, ShimTypes, PTL DEF Spec

-----------------------------------------------------------------------------
(* What a GETINFO answers.                                                 *)

Uniform(t, f) == format[t] = [i \in req[t].infos |-> f]

\* The structs are untouched until the kernel filled them, and then all alike.
Answering(t) ==
  /\ pc[t] \notin {"override", "return"} => format[t] = <<>>
  /\ pc[t] = "override" => Uniform(t, "reported")
  /\ pc[t] = "return" => format[t] = <<>> \/ \E f \in {"reported"} \cup Formats : Uniform(t, f)

AnswerInv == \A t \in Threads : Answering(t)

\* What the property asks for is a format there is, or nothing.
LEMMA OverrideKnown == \A text : bayer_override(text) \in Formats \cup {"none"}
BY DEF bayer_override

LEMMA AnswerNext == TypeOK /\ AnswerInv /\ [Next]_vars => AnswerInv'
<1> SUFFICES ASSUME TypeOK, AnswerInv, [Next]_vars, NEW u \in Threads PROVE Answering(u)'
  BY DEF AnswerInv
<1> USE DEF TypeOK, AnswerInv, Answering, Uniform, Goto
<1>1. CASE SetTrace
  BY <1>1 DEF SetTrace
<1>2. ASSUME NEW t \in Threads, Call(t) PROVE Answering(u)'
  <2>1. PICK r \in Requests :
          /\ req' = [req EXCEPT ![t] = r]
          /\ \E label \in {"look", "translate", "forward"} : pc' = [pc EXCEPT ![t] = label]
    BY <1>2 DEF Call
  <2>2. pc[t] = "caller" /\ format' = format
    BY <1>2 DEF Call
  <2> QED
    BY <2>1, <2>2
<1>3. ASSUME NEW t \in Threads, Look(t) \/ Count(t) PROVE Answering(u)'
  <2>1. /\ pc[t] \in {"look", "count"} /\ UNCHANGED <<req, format>>
        /\ \E label \in {"count", "probe", "forward"} : pc' = [pc EXCEPT ![t] = label]
    BY <1>3 DEF Look, Count, Decide, Onward
  <2> QED
    BY <2>1
<1>4. ASSUME NEW t \in Threads, Probe(t) \/ Translate(t) PROVE Answering(u)'
  <2>1. /\ pc[t] \in {"probe", "translate"} /\ UNCHANGED <<req, format>>
        /\ pc' = [pc EXCEPT ![t] = "forward"]
    BY <1>4 DEF Probe, Translate
  <2> QED
    BY <2>1
<1>5. ASSUME NEW t \in Threads, Forward(t) PROVE Answering(u)'
  <2>1. pc[t] = "forward" /\ req' = req /\ format[t] = <<>>
    BY <1>5 DEF Forward
  <2>2. \/ /\ format' = [format EXCEPT ![t] = [i \in req[t].infos |-> "reported"]]
           /\ pc' = [pc EXCEPT ![t] = "override"]
        \/ format' = format /\ pc' = [pc EXCEPT ![t] = "return"]
    BY <1>5 DEF Forward
  <2>3. CASE u = t
    BY <2>1, <2>2, <2>3
  <2>4. CASE u # t
    <3>1. format'[u] = format[u] /\ pc'[u] = pc[u] /\ req'[u] = req[u]
      BY <2>1, <2>2, <2>4
    <3> QED
      BY <3>1
  <2> QED
    BY <2>3, <2>4
<1>6. ASSUME NEW t \in Threads, Override(t) PROVE Answering(u)'
  <2>1. PICK text \in Texts :
          format' = [format EXCEPT ![t] =
            [i \in DOMAIN @ |-> IF bayer_override(text) # "none" THEN bayer_override(text) ELSE @[i]]]
    BY <1>6 DEF Override
  <2>2. pc[t] = "override" /\ pc' = [pc EXCEPT ![t] = "return"] /\ req' = req
    BY <1>6 DEF Override
  <2> DEFINE f == IF bayer_override(text) # "none" THEN bayer_override(text) ELSE "reported"
  <2>3. f \in {"reported"} \cup Formats
    BY OverrideKnown
  <2>4. format'[t] = [i \in req[t].infos |-> f]
    BY <2>1, <2>2
  <2> HIDE DEF f
  <2>5. CASE u = t
    BY <2>2, <2>3, <2>4, <2>5
  <2>6. CASE u # t
    BY <2>1, <2>2, <2>6
  <2> QED
    BY <2>5, <2>6
<1>7. ASSUME NEW t \in Threads, Return(t) PROVE Answering(u)'
  BY <1>7 DEF Return
<1>8. CASE UNCHANGED vars
  BY <1>8 DEF vars
<1> QED
  BY <1>1, <1>2, <1>3, <1>4, <1>5, <1>6, <1>7, <1>8 DEF Next, Step

(* The structs of one GETINFO never disagree and hold a format there is,   *)
(* whatever the property holds and however it changes between calls.       *)
THEOREM AnswersUniform == Spec => []AnswersAgree
<1>1. Init => AnswerInv
  BY DEF Init, AnswerInv, Answering, Uniform
<1>2. TypeOK /\ AnswerInv /\ [Next]_vars => AnswerInv'
  BY AnswerNext
<1>3. AnswerInv => AnswersAgree
  BY DEF AnswerInv, Answering, Uniform, AnswersAgree
<1> QED
  BY <1>1, <1>2, <1>3, ShimTypes, PTL DEF Spec

-----------------------------------------------------------------------------
(* The four properties as a consequence of the four invariants, for the    *)
(* specifications that take these actions over.                            *)

LEMMA ShimHolds ==
  TypeOK /\ SubmitInv /\ SentInv /\ AnswerInv =>
    MapInverts /\ KnownSubmitsRun /\ ForwardedOnce /\ AnswersAgree
<1> SUFFICES ASSUME TypeOK, SubmitInv, SentInv, AnswerInv
    PROVE  MapInverts /\ KnownSubmitsRun /\ ForwardedOnce /\ AnswersAgree
  OBVIOUS
<1>1. MapInverts
  BY SourcesInvert DEF TypeOK, Sources
<1>2. KnownSubmitsRun
  BY <1>1, SubmitsRun
<1>3. ForwardedOnce
  BY DEF SentInv, Sending, Passed, Quiet, Own, ForwardedOnce
<1>4. AnswersAgree
  BY DEF AnswerInv, Answering, Uniform, AnswersAgree
<1> QED
  BY <1>1, <1>2, <1>3, <1>4

-----------------------------------------------------------------------------
(* The library.                                                            *)

\* The two halves of the library are explored one at a time, and each makes
\* its own steps or none.
LEMMA LibraryStep ==
  /\ LibraryInit => HookInit /\ AwbInit
  /\ [LibraryNext]_<<library_vars, awb_vars, exploring>> =>
       [HookNext]_library_vars /\ [AwbNext]_awb_vars
BY DEF LibraryInit, LibraryNext

-----------------------------------------------------------------------------
(* The hook.                                                               *)

\* What a submit's metas have become once the hook is through with them.
Given(metas) == IF asked = "0" THEN metas ELSE Translation(metas)

\* The metas the hook reports.
Reported(metas) == {i \in DOMAIN metas : Bad(metas[i])}

HookPlaces == {"caller", "look", "count", "judge", "pass", "forward", "hooked"}

\* How far the hook has come with a thread's call.
Hooking(t) ==
  /\ pc[t] \in {"look", "count", "forward"} => req[t].kind = "isp"
  /\ pc[t] = "judge" => req[t].kind = "submit" /\ buf[t] = req[t].metas
  /\ pc[t] \in {"pass", "hooked"} /\ req[t].kind = "submit" =>
       buf[t] = Given(req[t].metas) /\ bad[t] = Reported(buf[t])
  /\ req[t].kind # "submit" \/ pc[t] \in {"caller", "judge"} => bad[t] = {}
  /\ pc[t] # "hooked" => sent[t] = <<>>
  /\ pc[t] = "hooked" => sent[t] = <<req[t].kind>>
  /\ pc[t] = "hooked" /\ req[t].kind = "submit" => job[t] = Submitted(buf[t])

\* The environment of the hook, and what it has made of it so far.
Environment ==
  /\ client = "hook" => passed = IF asked = "0" THEN "0" ELSE "1"
  /\ fix_events \in {-1, 0, 1}
  /\ fix_events = 0 => asked = "0"
  /\ fix_events = 1 => asked # "0"

HookTyped ==
  /\ pc \in [Threads -> HookPlaces] /\ req \in [Threads -> Requests]
  /\ buf \in [Threads -> Metas]
  /\ DOMAIN sent = Threads /\ DOMAIN job = Threads /\ DOMAIN bad = Threads

HookInv == Sources /\ HookTyped /\ Environment /\ \A t \in Threads : Hooking(t)

\* What the shim's proofs keep.
ShimInv == TypeOK /\ SubmitInv /\ SentInv /\ AnswerInv

\* A behaviour is that of the shim, or of the others.
ClientInv == IF client = "shim" THEN ShimInv ELSE HookInv

LEMMA ClientInit == HookInit => ClientInv
<1> SUFFICES ASSUME HookInit PROVE ClientInv
  OBVIOUS
<1>1. ShimInv
  <2>1. Init
    BY DEF HookInit
  <2> QED
    BY <2>1, TypeInit DEF ShimInv, Init, SubmitInv, Further, Nothing, SentInv, Sending, Quiet,
                          AnswerInv, Answering, Uniform
<1>2. HookInv
  <2>1. Sources /\ HookTyped
    BY NothingType DEF HookInit, Init, Sources, HookTyped, HookPlaces
  <2>2. Environment
    BY DEF HookInit, Environment
  <2>3. \A t \in Threads : Hooking(t)
    BY DEF HookInit, Init, Hooking, Nothing
  <2> QED
    BY <2>1, <2>2, <2>3 DEF HookInv
<1> QED
  BY <1>1, <1>2 DEF ClientInv

\* The first two steps of the loop over the metas: what the submit becomes.
LEMMA JudgedMetas ==
  ASSUME Environment, client = "hook", NEW metas \in Metas, fix_events' = Resolved(metas)
  PROVE  /\ [i \in DOMAIN metas |->
               IF should_fix THEN Translated(metas[i], event_map) ELSE metas[i]] = Given(metas)
         /\ fix_events' \in {-1, 0, 1}
         /\ fix_events' = 0 => asked = "0"
         /\ fix_events' = 1 => asked # "0"
<1> DEFINE fixed == [i \in DOMAIN metas |->
                       IF should_fix THEN Translated(metas[i], event_map) ELSE metas[i]]
<1>1. /\ fix_events' \in {-1, 0, 1}
      /\ fix_events' = 0 => asked = "0"
      /\ fix_events' = 1 => asked # "0"
  BY DEF Resolved, Environment
<1>2. metas = [i \in DOMAIN metas |-> metas[i]]
  BY DEF Metas
<1>3. CASE fix_events' = 1
  BY <1>1, <1>3 DEF should_fix, Given, Translation
<1>4. CASE fix_events' = 0
  BY <1>1, <1>2, <1>4 DEF should_fix, Given
<1>5. CASE fix_events' = -1
  <2>1. \A i \in DOMAIN metas : ~CarriesEvent(metas[i])
    BY <1>5 DEF Resolved, Environment
  <2>2. Translation(metas) = metas /\ fixed = metas
    BY <1>2, <1>5, <2>1 DEF Translation, Translated, should_fix
  <2> QED
    BY <1>1, <2>2 DEF Given
<1> QED
  BY <1>1, <1>3, <1>4, <1>5

LEMMA GivenType == ASSUME Sources, NEW metas \in Metas PROVE Given(metas) \in Metas
BY TranslatedType DEF Given, Translation

\* What a thread's place, request, metas and log are decides how far it is.
LEMMA HookingKept ==
  ASSUME Sources, UNCHANGED <<header, tree, asked>>, NEW t \in Threads, Hooking(t),
         pc'[t] = pc[t], req'[t] = req[t], buf'[t] = buf[t], sent'[t] = sent[t],
         job'[t] = job[t], bad'[t] = bad[t]
  PROVE  Hooking(t)'
BY DEF Hooking, Given, Translation, Translated, event_map, Reported, Submitted

LEMMA HookStepKeeps ==
  ASSUME HookInv, client = "hook", client' = "hook", UNCHANGED <<asked, passed>>,
         NEW t \in Threads, HookStep(t)
  PROVE  HookInv'
<1> USE DEF HookInv, HookTyped, Sources, Goto
<1>1. CASE HookCall(t)
  <2>1. PICK r \in {q \in Requests : q.kind \in {"submit", "isp", "other"}} :
          /\ req' = [req EXCEPT ![t] = r] /\ buf' = [buf EXCEPT ![t] = r.metas]
          /\ pc' = [pc EXCEPT ![t] = CASE r.kind = "isp" -> "look"
                                      [] r.kind = "submit" -> "judge" [] OTHER -> "pass"]
    BY <1>1 DEF HookCall
  <2>2. pc[t] = "caller" /\ UNCHANGED <<header, tree, sent, job, hook_vars>>
    BY <1>1 DEF HookCall
  <2>3. Sources' /\ HookTyped' /\ Environment'
    BY <2>1, <2>2, RequestType DEF hook_vars, Environment, HookPlaces
  <2>4. Hooking(t)'
    BY <2>1, <2>2 DEF hook_vars, Hooking
  <2>5. ASSUME NEW u \in Threads \ {t} PROVE Hooking(u)'
    BY <2>1, <2>2, HookingKept DEF hook_vars
  <2> QED
    BY <2>3, <2>4, <2>5
<1>2. CASE HookTrace(t)
  <2>1. /\ UNCHANGED <<header, tree, req, buf, sent, job, hook_vars>>
        /\ \/ pc[t] = "look" /\ pc' = [pc EXCEPT ![t] = "count"]
           \/ pc[t] \in {"look", "count"} /\ \E on \in BOOLEAN : pc' = [pc EXCEPT ![t] = Onward(t, on)]
    BY <1>2 DEF HookTrace, Look, Count, Decide
  <2>2. pc[t] \in {"look", "count"} /\ (pc' = [pc EXCEPT ![t] = "count"] \/ pc' = [pc EXCEPT ![t] = "forward"])
    BY <2>1 DEF Hooking, Onward
  <2>3. Sources' /\ HookTyped' /\ Environment'
    BY <2>1, <2>2 DEF hook_vars, Environment, HookPlaces
  <2>4. Hooking(t)'
    BY <2>1, <2>2 DEF hook_vars, Hooking
  <2>5. ASSUME NEW u \in Threads \ {t} PROVE Hooking(u)'
    BY <2>1, <2>2, HookingKept DEF hook_vars
  <2> QED
    BY <2>3, <2>4, <2>5
<1>3. CASE HookJudge(t)
  <2> DEFINE fixed == [i \in DOMAIN buf[t] |->
                         IF should_fix THEN Translated(buf[t][i], event_map) ELSE buf[t][i]]
  <2>1. /\ pc[t] = "judge" /\ pc' = [pc EXCEPT ![t] = "pass"]
        /\ fix_events' = Resolved(buf[t])
        /\ buf' = [buf EXCEPT ![t] = fixed]
        /\ bad' = [bad EXCEPT ![t] = {i \in DOMAIN fixed : Bad(fixed[i])}]
        /\ UNCHANGED <<header, tree, req, sent, job>>
    BY <1>3 DEF HookJudge
  <2>2. /\ fixed = Given(buf[t])
        /\ fix_events' \in {-1, 0, 1}
        /\ fix_events' = 0 => asked = "0"
        /\ fix_events' = 1 => asked # "0"
    BY <2>1, JudgedMetas
  <2> HIDE DEF fixed
  <2>3. buf[t] = req[t].metas /\ req[t].kind = "submit" /\ sent[t] = <<>>
    BY <2>1 DEF Hooking
  <2>4. buf' = [buf EXCEPT ![t] = Given(req[t].metas)]
        /\ bad' = [bad EXCEPT ![t] = Reported(Given(req[t].metas))]
        /\ Given(req[t].metas) \in Metas
    BY <2>1, <2>2, <2>3, GivenType DEF Reported
  <2>5. (Given(req[t].metas))' = Given(req[t].metas)
    BY <2>1 DEF Given, Translation, Translated, event_map
  <2> HIDE DEF Given
  <2>6. Sources' /\ HookTyped' /\ Environment'
    BY <2>1, <2>2, <2>4 DEF Environment, HookPlaces
  <2>7. Hooking(t)'
    BY <2>1, <2>3, <2>4, <2>5 DEF Hooking, Reported
  <2>8. ASSUME NEW u \in Threads \ {t} PROVE Hooking(u)'
    BY <2>1, <2>4, HookingKept
  <2> QED
    BY <2>6, <2>7, <2>8
<1>4. CASE HookForward(t)
  <2>1. /\ pc[t] \in {"pass", "forward"} /\ pc' = [pc EXCEPT ![t] = "hooked"]
        /\ sent' = [sent EXCEPT ![t] = @ \o <<req[t].kind>>]
        /\ job' = [job EXCEPT ![t] = IF req[t].kind = "submit" THEN Submitted(buf[t]) ELSE {}]
        /\ UNCHANGED <<header, tree, req, buf, hook_vars>>
    BY <1>4 DEF HookForward, Send
  <2>2. sent'[t] = <<req[t].kind>>
    <3>1. <<req[t].kind>> \in Seq(Kinds)
      BY RequestType
    <3>2. sent[t] = <<>> /\ sent'[t] = sent[t] \o <<req[t].kind>>
      BY <2>1 DEF Hooking
    <3> QED
      BY <3>1, <3>2, ConcatEmptySeq
  <2>3. Sources' /\ HookTyped' /\ Environment'
    BY <2>1 DEF hook_vars, Environment, HookPlaces
  <2>4. (Submitted(buf[t]))' = Submitted(buf[t]) /\ (Given(req[t].metas))' = Given(req[t].metas)
    BY <2>1 DEF Submitted, Given, Translation, Translated, event_map, hook_vars
  <2>5. req[t].kind = "submit" => pc[t] = "pass"
    BY <2>1 DEF Hooking
  <2> HIDE DEF Submitted, Given
  <2>6. Hooking(t)'
    BY <2>1, <2>2, <2>4, <2>5 DEF hook_vars, Hooking, Reported
  <2>7. ASSUME NEW u \in Threads \ {t} PROVE Hooking(u)'
    BY <2>1, HookingKept DEF hook_vars
  <2> QED
    BY <2>3, <2>6, <2>7
<1>5. CASE HookReturn(t)
  <2>1. /\ pc' = [pc EXCEPT ![t] = "caller"] /\ req' = [req EXCEPT ![t] = Nothing]
        /\ buf' = [buf EXCEPT ![t] = <<>>] /\ sent' = [sent EXCEPT ![t] = <<>>]
        /\ job' = [job EXCEPT ![t] = {}] /\ bad' = [bad EXCEPT ![t] = {}]
        /\ UNCHANGED <<header, tree, fix_events>>
    BY <1>5 DEF HookReturn
  <2>2. Sources' /\ HookTyped' /\ Environment'
    BY <2>1, NothingType DEF Environment, HookPlaces
  <2>3. Hooking(t)'
    BY <2>1 DEF Hooking
  <2>4. ASSUME NEW u \in Threads \ {t} PROVE Hooking(u)'
    BY <2>1, HookingKept
  <2> QED
    BY <2>2, <2>3, <2>4
<1> QED
  BY <1>1, <1>2, <1>3, <1>4, <1>5 DEF HookStep

\* A step that is no thread's leaves every thread where it is.
LEMMA HookAside ==
  ASSUME HookInv, UNCHANGED <<header, tree, pc, req, buf, sent, job, asked, fix_events, bad>>,
         client' = "hook" => passed' = IF asked = "0" THEN "0" ELSE "1"
  PROVE  HookInv'
<1>1. Sources' /\ HookTyped' /\ Environment'
  BY DEF HookInv, Sources, HookTyped, Environment
<1>2. \A t \in Threads : Hooking(t)'
  BY HookingKept DEF HookInv
<1> QED
  BY <1>1, <1>2 DEF HookInv

LEMMA ClientNext == ClientInv /\ [HookNext]_library_vars => ClientInv'
<1> SUFFICES ASSUME ClientInv, [HookNext]_library_vars PROVE ClientInv'
  OBVIOUS
<1>1. CASE client = "shim" /\ Next /\ UNCHANGED hook_vars
  <2>1. ShimInv' /\ client' = "shim"
    BY <1>1, TypeNext, SubmitNext, SentNext, AnswerNext DEF ClientInv, ShimInv, hook_vars
  <2> QED
    BY <2>1 DEF ClientInv
<1>2. CASE CamWrap
  <2>1. HookInv /\ client' # "shim"
    BY <1>2 DEF CamWrap, ClientInv
  <2>2. HookInv'
    BY <1>2, <2>1, HookAside DEF CamWrap, vars
  <2> QED
    BY <2>1, <2>2 DEF ClientInv
<1>3. CASE client = "hook" /\ SetTrace /\ UNCHANGED hook_vars
  <2>1. HookInv /\ client' # "shim"
    BY <1>3 DEF hook_vars, ClientInv
  <2>2. HookInv'
    BY <1>3, <2>1, HookAside DEF SetTrace, hook_vars, HookInv, Environment
  <2> QED
    BY <2>1, <2>2 DEF ClientInv
<1>4. ASSUME client = "hook", NEW t \in Threads, HookStep(t) PROVE ClientInv'
  <2>1. UNCHANGED <<client, asked, passed>>
    BY <1>4 DEF HookStep, HookCall, HookTrace, HookJudge, HookForward, HookReturn, hook_vars
  <2>2. HookInv'
    BY <1>4, <2>1, HookStepKeeps DEF ClientInv
  <2> QED
    BY <1>4, <2>1, <2>2 DEF ClientInv
<1>5. CASE Probing
  <2>1. HookInv /\ client' \notin {"shim", "hook"}
    BY <1>5 DEF Probing, ClientInv
  <2>2. HookInv'
    BY <1>5, <2>1, HookAside DEF Probing, vars
  <2> QED
    BY <2>1, <2>2 DEF ClientInv
<1>6. CASE UNCHANGED library_vars
  <2>1. CASE client = "shim"
    <3>1. [Next]_vars
      BY <1>6 DEF library_vars
    <3>2. ShimInv'
      BY <2>1, <3>1, TypeNext, SubmitNext, SentNext, AnswerNext DEF ClientInv, ShimInv
    <3> QED
      BY <1>6, <2>1, <3>2 DEF ClientInv, library_vars, hook_vars
  <2>2. CASE client # "shim"
    <3>1. HookInv'
      BY <1>6, <2>2, HookAside DEF ClientInv, HookInv, Environment, library_vars, hook_vars, vars
    <3> QED
      BY <1>6, <2>2, <3>1 DEF ClientInv, library_vars, hook_vars
  <2> QED
    BY <2>1, <2>2
<1> QED
  BY <1>1, <1>2, <1>3, <1>4, <1>5, <1>6 DEF HookNext

LEMMA ClientsApart == LibrarySpec => []ClientInv
<1>1. LibraryInit => ClientInv
  BY LibraryStep, ClientInit
<1>2. ClientInv /\ [LibraryNext]_<<library_vars, awb_vars, exploring>> => ClientInv'
  BY LibraryStep, ClientNext
<1> QED
  BY <1>1, <1>2, PTL DEF LibrarySpec

-----------------------------------------------------------------------------
(* What the shim promises survives the tools.                              *)

\* No thread of the hook is at the shim's return.
LEMMA ElsewhereNoReturn == ASSUME HookInv, NEW t \in Threads PROVE pc[t] # "return"
BY DEF HookInv, HookTyped, HookPlaces

(* With the tools about, and one of them or the shim preloaded, the map is *)
(* still the inverse of the kernel's table, a submit of known events still *)
(* runs as it was meant, a call still reaches the driver once and the      *)
(* structs of a GETINFO still agree: the shim's properties, in the library *)
(* as a whole (cmdq_event_shim.c:528-673).                                 *)
THEOREM ShimInLibrary ==
  LibrarySpec => [](MapInverts /\ KnownSubmitsRun /\ ForwardedOnce /\ AnswersAgree)
<1>1. ClientInv => MapInverts /\ KnownSubmitsRun /\ ForwardedOnce /\ AnswersAgree
  <2> SUFFICES ASSUME ClientInv PROVE MapInverts /\ KnownSubmitsRun /\ ForwardedOnce /\ AnswersAgree
    OBVIOUS
  <2>1. CASE client = "shim"
    BY <2>1, ShimHolds DEF ClientInv, ShimInv
  <2>2. CASE client # "shim"
    <3>1. HookInv
      BY <2>2 DEF ClientInv
    <3>2. MapInverts
      BY <3>1, SourcesInvert DEF HookInv
    <3> QED
      BY <3>1, <3>2, ElsewhereNoReturn DEF KnownSubmitsRun, ForwardedOnce, AnswersAgree
  <2> QED
    BY <2>1, <2>2
<1> QED
  BY <1>1, ClientsApart, PTL

-----------------------------------------------------------------------------
(* The hook's own promises.                                                *)

LEMMA HookedOnly == ASSUME ClientInv, NEW t \in Threads, pc[t] = "hooked" PROVE HookInv
BY DEF ClientInv, ShimInv, TypeOK, Places

(* The hook is transparent: a call reaches the driver once and by itself;  *)
(* with CMDQ_FIX_EVENTS=0 the kernel gets the caller's metas, otherwise a  *)
(* submit of known events runs as meant, for any number of threads racing  *)
(* to resolve the environment (ioctl_hook.c:15).                           *)
THEOREM HookPassesOn == LibrarySpec => []HookTransparent
<1>1. ClientInv => HookTransparent
  <2> SUFFICES ASSUME ClientInv, NEW t \in Threads, pc[t] = "hooked"
      PROVE  /\ sent[t] = <<req[t].kind>>
             /\ asked = "0" /\ req[t].kind = "submit" => job[t] = Submitted(req[t].metas)
             /\ asked # "0" /\ req[t].kind = "submit" /\ Mapped(req[t].metas) =>
                  job[t] = {req[t].metas}
    BY DEF HookTransparent
  <2>1. HookInv
    BY HookedOnly
  <2>2. /\ sent[t] = <<req[t].kind>>
        /\ req[t].kind = "submit" => job[t] = Submitted(Given(req[t].metas))
    BY <2>1 DEF HookInv, Hooking
  <2>3. ASSUME asked # "0", req[t].kind = "submit", Mapped(req[t].metas)
        PROVE  job[t] = {req[t].metas}
    <3>1. req[t].metas \in Metas /\ MapInverts
      BY <2>1, RequestType, SourcesInvert DEF HookInv, HookTyped
    <3> QED
      BY <2>2, <2>3, <3>1, RoundTrip DEF Given
  <2> QED
    BY <2>2, <2>3 DEF Given
<1> QED
  BY <1>1, ClientsApart, PTL

\* Translation moves events, never operations.
LEMMA GivenKeepsOps ==
  ASSUME NEW metas \in Metas
  PROVE  /\ DOMAIN Given(metas) = DOMAIN metas
         /\ \A i \in DOMAIN metas : Given(metas)[i].op = metas[i].op
<1> SUFFICES ASSUME NEW i \in DOMAIN metas PROVE Translated(metas[i], event_map).op = metas[i].op
  BY DEF Given, Translation
<1>1. metas[i] \in [op : Nat, offset : Nat]
  BY InSeq DEF Metas
<1> QED
  BY <1>1 DEF Translated

\* The kernel knows no index from TokenMax on.
LEMMA TableBounded ==
  ASSUME Sources, NEW index \in DOMAIN EventTable(header, tree)
  PROVE  index < TokenMax
BY HookAssumption DEF EventTable, Sources

(* An event the hook reports as bad is one the kernel discards the submit  *)
(* for, whatever else the submit holds (ioctl_hook.c:276).                 *)
THEOREM VerdictIsKernels == LibrarySpec => []HookVerdict
<1>1. ClientInv => HookVerdict
  <2> SUFFICES ASSUME ClientInv, NEW t \in Threads, pc[t] = "hooked", NEW i \in bad[t],
                      CarriesEvent(req[t].metas[i])
               PROVE  job[t] = {}
    BY DEF HookVerdict
  <2> DEFINE metas == req[t].metas
             given == Given(metas)
  <2>1. HookInv
    BY HookedOnly
  <2>2. req[t].kind = "submit" /\ job[t] = Submitted(given) /\ i \in Reported(given)
    BY <2>1 DEF HookInv, Hooking
  <2>3. i \in DOMAIN metas /\ given[i].op = metas[i].op /\ given \in Metas
    <3>1. metas \in Metas
      BY <2>1, RequestType DEF HookInv, HookTyped
    <3> QED
      BY <2>1, <2>2, <3>1, GivenKeepsOps, GivenType DEF Reported, HookInv
  <2>4. i \in DOMAIN given /\ given[i] \in [op : Nat, offset : Nat]
    BY <2>2, <2>3, InSeq DEF Reported, Metas
  <2> HIDE DEF given, metas
  <2>5. given[i].op \in EventOps /\ given[i].offset >= TokenMax
    <3>1. given[i].op \in 3..7
      BY <2>3 DEF CarriesEvent, MOP_EVENT_FIRST, MOP_EVENT_LAST, metas
    <3> QED
      BY <2>2, <2>4, <3>1 DEF Reported, Bad, EventOps
  <2>6. given[i].offset \notin DOMAIN EventTable(header, tree)
    BY <2>1, <2>4, <2>5, TableBounded, HookAssumption DEF HookInv
  <2> QED
    BY <2>2, <2>4, <2>5, <2>6 DEF Submitted, Accepted
<1> QED
  BY <1>1, ClientsApart, PTL

-----------------------------------------------------------------------------
(* The AWB trim: where the scan finds triples.                             *)

\* A struct the algorithm and the trim have written: the words that are no
\* gain are what they were, and no gain is 512 if none ever is.
Shaped(w) ==
  /\ \A i \in Index : i \notin Triples /\ i - 2 \notin Triples =>
       w[i] = IF i - 1 \in Triples THEN Unity ELSE Filler
  /\ NoUnityGain => \A k \in Triples : w[k] # Unity /\ w[k + 2] # Unity

LEMMA TripleFits ==
  ASSUME NEW k \in Triples
  PROVE  /\ k \in Int /\ k \in Index /\ k + 1 \in Index /\ k + 2 \in Index
         /\ k - 1 \notin Triples /\ k - 2 \notin Triples
         /\ k + 1 \notin Triples /\ k + 2 \notin Triples
<1>1. /\ k \in Index /\ k + 2 \in Index /\ Words \in Nat
      /\ k + 1 \notin Triples /\ k + 2 \notin Triples
  BY AwbAssumption
<1>2. k - 1 \notin Triples
  <2>1. SUFFICES ASSUME k - 1 \in Triples PROVE FALSE
    OBVIOUS
  <2>2. k - 1 + 1 \notin Triples
    BY <2>1, AwbAssumption
  <2>3. k - 1 + 1 = k
    BY <1>1 DEF Index
  <2> QED
    BY <2>2, <2>3
<1>3. k - 2 \notin Triples
  <2>1. SUFFICES ASSUME k - 2 \in Triples PROVE FALSE
    OBVIOUS
  <2>2. k - 2 + 2 \notin Triples
    BY <2>1, AwbAssumption
  <2>3. k - 2 + 2 = k
    BY <1>1 DEF Index
  <2> QED
    BY <2>2, <2>3
<1> QED
  BY <1>1, <1>2, <1>3 DEF Index

\* A match is a triple: none lies astride.
LEMMA MatchIsTriple ==
  ASSUME UnityApart, NEW w, Shaped(w), NEW i \in Int, i >= 0, i + 2 < Words, Match(w, i)
  PROVE  i \in Triples
<1>1. /\ w[i + 1] = Unity /\ Plausible(w[i]) /\ Plausible(w[i + 2])
      /\ i \in Index /\ i + 1 \in Index /\ i + 2 \in Index
  BY AwbAssumption DEF Match, Index
<1>2. i + 1 \in Triples \/ i - 1 \in Triples \/ i \in Triples
  <2>1. i + 1 \notin Triples /\ i + 1 - 2 \notin Triples =>
          w[i + 1] = IF i + 1 - 1 \in Triples THEN Unity ELSE Filler
    BY <1>1 DEF Shaped
  <2>2. i + 1 - 2 = i - 1 /\ i + 1 - 1 = i
    OBVIOUS
  <2> QED
    BY <1>1, <2>1, <2>2 DEF UnityApart
<1>3. ASSUME i + 1 \in Triples PROVE FALSE
  <2>1. w[i + 1] = Unity /\ ~NoUnityGain
    BY <1>1, <1>3 DEF Shaped
  <2>2. Isolated
    BY <2>1 DEF UnityApart
  <2>3. i \notin Triples /\ i - 1 \notin Triples /\ i - 2 \notin Triples
    <3>1. i + 1 - 1 \notin Triples /\ i + 1 - 2 \notin Triples
      BY <1>3, TripleFits
    <3>2. i - 2 + 3 \in Triples
      BY <1>3
    <3>3. i - 2 \notin Triples
      BY <2>2, <3>2 DEF Isolated
    <3> QED
      BY <3>1, <3>3
  <2>4. w[i] = Filler
    BY <1>1, <2>3 DEF Shaped
  <2> QED
    BY <1>1, <2>2, <2>4 DEF Isolated
<1>4. ASSUME i - 1 \in Triples PROVE FALSE
  <2> DEFINE k == i - 1
  <2>1. k \in Triples /\ k + 2 = i + 1 /\ k + 3 = i + 2 /\ k + 1 = i
    BY <1>4
  <2>2. ~NoUnityGain
    <3>1. w[k + 2] = Unity
      BY <1>1, <2>1
    <3> QED
      BY <2>1, <3>1 DEF Shaped
  <2>3. Isolated
    BY <2>2 DEF UnityApart
  <2>4. i \notin Triples /\ i + 1 \notin Triples /\ i + 2 \notin Triples
    BY <2>1, <2>3, TripleFits DEF Isolated
  <2>5. i + 2 - 2 = i /\ i + 2 - 1 = i + 1
    OBVIOUS
  <2>6. w[i + 2] = Filler
    BY <1>1, <2>4, <2>5 DEF Shaped
  <2> QED
    BY <1>1, <2>3, <2>6 DEF Isolated
<1> QED
  BY <1>2, <1>3, <1>4

\* The scan's recursion, from any index on.
Scan(w, From) ==
  From = [i \in 0..(Words + 2) |->
            IF i + 2 >= Words THEN {}
            ELSE IF Match(w, i) THEN {i} \cup From[i + 3] ELSE From[i + 1]]

Matched(w, n) == {k \in Triples : k >= n /\ Match(w, k)}

LEMMA ScanExists ==
  ASSUME UnityApart, NEW w, Shaped(w)
  PROVE  Scan(w, [i \in 0..(Words + 2) |-> Matched(w, i)])
<1> DEFINE F == [i \in 0..(Words + 2) |-> Matched(w, i)]
<1>1. ASSUME NEW i \in 0..(Words + 2)
      PROVE  F[i] = IF i + 2 >= Words THEN {}
                    ELSE IF Match(w, i) THEN {i} \cup F[i + 3] ELSE F[i + 1]
  <2>1. Words \in Nat /\ Triples \subseteq Int
    BY AwbAssumption DEF Index
  <2>2. CASE i + 2 >= Words
    <3>1. ASSUME NEW k \in Triples, k >= i PROVE FALSE
      BY <2>1, <2>2, <3>1, TripleFits DEF Index
    <3> QED
      BY <2>2, <3>1 DEF Matched
  <2>3. CASE i + 2 < Words /\ Match(w, i)
    <3>1. i \in Triples
      BY <2>3, MatchIsTriple
    <3>2. F[i + 3] = Matched(w, i + 3) /\ i + 3 \in 0..(Words + 2)
      BY <2>1, <2>3
    <3>3. i + 1 \notin Triples /\ i + 2 \notin Triples
      BY <3>1, TripleFits
    <3>4. ASSUME NEW k \in Triples PROVE k >= i <=> k = i \/ k >= i + 3
      BY <2>1, <3>1, <3>3
    <3>5. Matched(w, i) = {i} \cup Matched(w, i + 3)
      BY <2>3, <3>1, <3>4 DEF Matched
    <3> QED
      BY <2>1, <2>3, <3>2, <3>5
  <2>4. CASE i + 2 < Words /\ ~Match(w, i)
    <3>1. F[i + 1] = Matched(w, i + 1)
      BY <2>1, <2>4
    <3>2. ASSUME NEW k \in Triples, Match(w, k) PROVE k >= i <=> k >= i + 1
      BY <2>1, <2>4, <3>2
    <3>3. Matched(w, i) = Matched(w, i + 1)
      BY <3>2 DEF Matched
    <3> QED
      BY <2>1, <2>4, <3>1, <3>3
  <2> QED
    BY <2>1, <2>2, <2>3, <2>4
<1>2. F = [i \in 0..(Words + 2) |->
            IF i + 2 >= Words THEN {}
            ELSE IF Match(w, i) THEN {i} \cup F[i + 3] ELSE F[i + 1]]
  <2> HIDE DEF F
  <2>1. F = [i \in 0..(Words + 2) |-> F[i]]
    BY DEF F
  <2> QED
    BY <1>1, <2>1, Zenon
<1> QED
  BY <1>2 DEF Scan

\* Nothing else satisfies it: of the indices where two scans differ there is
\* no last one.
LEMMA ScanUnique ==
  ASSUME NEW w, NEW F, NEW G, Scan(w, F), Scan(w, G)
  PROVE  \A i \in 0..(Words + 2) : F[i] = G[i]
<1> DEFINE D == {n \in 0..(Words + 2) : F[Words + 2 - n] # G[Words + 2 - n]}
<1>0. Words \in Nat
  BY AwbAssumption
<1>1. ASSUME D # {} PROVE FALSE
  <2>1. D \in SUBSET Nat
    BY <1>0
  <2>2. PICK n \in D : \A m \in D : n =< m
    BY <1>1, <2>1, FirstExists
  <2> DEFINE i == Words + 2 - n
  <2>3. i \in 0..(Words + 2) /\ F[i] # G[i]
    BY <1>0, <2>2
  <2>4. ASSUME NEW j \in 0..(Words + 2), j > i PROVE F[j] = G[j]
    <3>1. Words + 2 - j \in 0..(Words + 2) /\ Words + 2 - j < n /\ Words + 2 - (Words + 2 - j) = j
      BY <1>0, <2>2, <2>4
    <3>2. Words + 2 - j \notin D
      BY <2>2, <3>1
    <3> QED
      BY <3>1, <3>2
  <2> HIDE DEF i, D
  <2>5. /\ F[i] = IF i + 2 >= Words THEN {}
                  ELSE IF Match(w, i) THEN {i} \cup F[i + 3] ELSE F[i + 1]
        /\ G[i] = IF i + 2 >= Words THEN {}
                  ELSE IF Match(w, i) THEN {i} \cup G[i + 3] ELSE G[i + 1]
    BY <2>3 DEF Scan
  <2>6. CASE i + 2 >= Words
    BY <2>3, <2>5, <2>6
  <2>7. CASE ~(i + 2 >= Words)
    <3>1. i + 1 \in 0..(Words + 2) /\ i + 3 \in 0..(Words + 2) /\ i + 1 > i /\ i + 3 > i
      BY <1>0, <2>3, <2>7
    <3>2. F[i + 1] = G[i + 1] /\ F[i + 3] = G[i + 3]
      BY <2>4, <3>1
    <3> QED
      BY <2>3, <2>5, <3>2
  <2> QED
    BY <2>6, <2>7
<1> SUFFICES ASSUME NEW i \in 0..(Words + 2), F[i] # G[i] PROVE FALSE
  OBVIOUS
<1>2. Words + 2 - i \in D
  <2>1. Words + 2 - i \in 0..(Words + 2) /\ Words + 2 - (Words + 2 - i) = i
    BY <1>0
  <2> QED
    BY <2>1
<1> QED
  BY <1>1, <1>2

\* The scan finds the triples that match, all of them and nothing else.
LEMMA HitsAreTriples ==
  ASSUME UnityApart, NEW w, Shaped(w)
  PROVE  Hits(w) = {k \in Triples : Match(w, k)}
<1> DEFINE F == [i \in 0..(Words + 2) |-> Matched(w, i)]
           From == CHOOSE G : Scan(w, G)
<1>1. Scan(w, F)
  BY ScanExists
<1>2. Scan(w, From)
  BY <1>1
<1>3. 0 \in 0..(Words + 2)
  BY AwbAssumption
<1>4. From[0] = F[0]
  <2> HIDE DEF F, From
  <2> QED
    BY <1>1, <1>2, <1>3, ScanUnique
<1>5. F[0] = {k \in Triples : Match(w, k)}
  <2>1. F[0] = Matched(w, 0)
    BY <1>3
  <2>2. \A k \in Triples : k >= 0
    BY AwbAssumption DEF Index
  <2> QED
    BY <2>1, <2>2 DEF Matched
<1>6. Hits(w) = From[0]
  BY DEF Hits, Scan
<1> QED
  BY <1>4, <1>5, <1>6

-----------------------------------------------------------------------------
(* The AWB trim: what it makes of a triple.                                *)

Trimmed(s) == [a \in Anchors |-> trim_prop(s[a])]

\* The pair of gains one trim makes of one the algorithm computed.
TrimOf(pair, gains) ==
  \E s \in Stores : pair = Scaled(Trimmed(s), gains["R"], gains["B"])

\* A triple's gains were rescaled together and once, or lie as computed.
Once(k) ==
  /\ times[k]["R"] \in {0, 1} /\ times[k]["B"] = times[k]["R"]
  /\ times[k]["R"] = 0 => o[k] = raw[k]["R"] /\ o[k + 2] = raw[k]["B"]
  /\ times[k]["R"] = 1 => /\ o[k] = last[k].R /\ o[k + 2] = last[k].B
                         /\ TrimOf(last[k], raw[k])

\* The gains of the last call's triples are corrected: FreshGainsCorrected's
\* condition, of a state.
Corrected(k) ==
  LET want == Scaled(trim, raw[k]["R"], raw[k]["B"])
  IN  (trim # NoTrim /\ Plausible(raw[k]["R"]) /\ Plausible(raw[k]["B"])
         /\ ~(raw[k]["R"] = last[k].R /\ raw[k]["B"] = last[k].B))
        => (o[k] = want.R /\ o[k + 2] = want.B)

AwbInv ==
  /\ store \in Stores
  /\ trim = NoTrim \/ \E s \in Stores : trim = Trimmed(s)
  /\ raw \in [Triples -> [Gain -> Gains]]
  /\ DOMAIN o = Index
  /\ \A i \in Index : i \notin Triples /\ i - 2 \notin Triples =>
       o[i] = IF i - 1 \in Triples THEN Unity ELSE Filler
  /\ \A k \in Triples : Once(k)
  /\ fresh \subseteq Triples
  /\ \A k \in fresh : Corrected(k)

LEMMA AwbStart == AwbInit => AwbInv
<1> SUFFICES ASSUME AwbInit PROVE AwbInv
  OBVIOUS
<1>1. ASSUME NEW k \in Triples PROVE Once(k)
  <2>1. o[k] = raw[k]["R"] /\ o[k + 2] = raw[k]["B"]
    <3>1. k + 2 - 1 = k + 1 /\ k + 2 - 2 = k
      BY TripleFits
    <3> QED
      BY <3>1, TripleFits DEF AwbInit
  <2>2. times[k]["R"] = 0 /\ times[k]["B"] = 0
    BY DEF AwbInit, Gain
  <2> QED
    BY <2>1, <2>2 DEF Once
<1>2. \A i \in Index : i \notin Triples /\ i - 2 \notin Triples =>
        o[i] = IF i - 1 \in Triples THEN Unity ELSE Filler
  BY DEF AwbInit
<1> QED
  BY <1>1, <1>2 DEF AwbInit, AwbInv

\* What the algorithm stores is a struct of the same shape, with the new
\* gains in the triples it recomputed and the old ones in the others.
LEMMA StoredShape ==
  ASSUME AwbInv, NEW wrote \in SUBSET Triples, NEW val \in [Triples -> [Gain -> Gains]]
  PROVE  LET w == Stored(wrote, val) IN
         /\ DOMAIN w = Index /\ Shaped(w)
         /\ \A k \in Triples :
              /\ w[k + 1] = Unity
              /\ k \in wrote => w[k] = val[k]["R"] /\ w[k + 2] = val[k]["B"]
              /\ k \notin wrote => w[k] = o[k] /\ w[k + 2] = o[k + 2]
<1> DEFINE w == Stored(wrote, val)
<1>1. DOMAIN w = Index
  BY DEF Stored
<1>2. ASSUME NEW k \in Triples
      PROVE  /\ k \in wrote => w[k] = val[k]["R"] /\ w[k + 2] = val[k]["B"]
             /\ k \notin wrote => w[k] = o[k] /\ w[k + 2] = o[k + 2]
  <2>1. k + 2 - 2 = k /\ k - 2 \notin wrote /\ k + 2 \notin wrote
    BY TripleFits
  <2> QED
    BY <2>1, TripleFits DEF Stored
<1>3. ASSUME NEW i \in Index, i \notin Triples, i - 2 \notin Triples
      PROVE  w[i] = IF i - 1 \in Triples THEN Unity ELSE Filler
  BY <1>3 DEF Stored, AwbInv
<1> HIDE DEF w
<1>4. ASSUME NEW k \in Triples PROVE w[k + 1] = Unity
  <2>1. k + 1 - 1 = k /\ k + 1 - 2 = k - 1
    BY TripleFits
  <2> DEFINE i == k + 1
  <2>2. i \in Index /\ i \notin Triples /\ i - 2 \notin Triples /\ i - 1 \in Triples
    BY <2>1, TripleFits
  <2> HIDE DEF i
  <2>3. w[i] = Unity
    BY <1>3, <2>2
  <2> QED
    BY <2>3 DEF i
<1>5. ASSUME NoUnityGain, NEW k \in Triples PROVE w[k] # Unity /\ w[k + 2] # Unity
  <2> USE DEF Gain
  <2>1. CASE k \in wrote
    BY <1>2, <1>5, <2>1 DEF NoUnityGain
  <2>2. CASE k \notin wrote /\ times[k]["R"] = 0
    BY <1>2, <1>5, <2>2 DEF NoUnityGain, AwbInv, Once
  <2>3. CASE k \notin wrote /\ times[k]["R"] = 1
    <3>1. PICK s \in Stores : last[k] = Scaled(Trimmed(s), raw[k]["R"], raw[k]["B"])
      BY <2>3 DEF AwbInv, Once, TrimOf
    <3>2. raw[k]["R"] \in Gains /\ raw[k]["B"] \in Gains
      BY DEF AwbInv
    <3>3. last[k].R # Unity /\ last[k].B # Unity
      BY <1>5, <3>1, <3>2 DEF NoUnityGain, Trimmed
    <3> QED
      BY <1>2, <2>3, <3>3 DEF AwbInv, Once
  <2> QED
    BY <2>1, <2>2, <2>3 DEF AwbInv, Once
<1>6. Shaped(w)
  BY <1>3, <1>5 DEF Shaped
<1> QED
  BY <1>1, <1>2, <1>4, <1>6 DEF w

\* How often one call rescales a gain of a triple.
LEMMA RescalesOf ==
  ASSUME NEW hits \in SUBSET Triples, NEW k \in Triples, NEW g \in Gain
  PROVE  Cardinality({i \in hits : Word(k, g) \in {i, i + 2}}) = IF k \in hits THEN 1 ELSE 0
<1> DEFINE S == {i \in hits : Word(k, g) \in {i, i + 2}}
<1>1. ASSUME NEW i \in hits PROVE Word(k, g) \in {i, i + 2} <=> i = k
  <2>1. i \in Triples /\ i \in Int /\ k \in Int
    BY TripleFits
  <2>2. i # k + 2 /\ k # i + 2
    BY <2>1, TripleFits
  <2> QED
    BY <2>1, <2>2 DEF Word
<1>2. CASE k \in hits
  <2>1. S = {k}
    BY <1>1, <1>2
  <2> QED
    BY <1>2, <2>1, FS_Singleton
<1>3. CASE k \notin hits
  <2>1. S = {}
    BY <1>1, <1>3
  <2> QED
    BY <1>3, <2>1, FS_EmptySet
<1> QED
  BY <1>2, <1>3

\* One call, in the terms of its triples: which it rescales, and what comes of
\* each.
LEMMA CallDoes ==
  ASSUME UnityApart, AwbInv, handleAWB
  PROVE  \E wrote \in SUBSET Triples : \E hits \in SUBSET Triples :
    /\ trim' = NoTrim \/ \E s \in Stores : trim' = Trimmed(s)
    /\ trim' = NoTrim => hits = {}
    /\ raw' \in [Triples -> [Gain -> Gains]]
    /\ fresh' = wrote /\ store' = store
    /\ DOMAIN o' = Index
    /\ \A i \in Index : i \notin Triples /\ i - 2 \notin Triples =>
         o'[i] = IF i - 1 \in Triples THEN Unity ELSE Filler
    /\ \A k \in Triples : \E x, y :
         /\ IF k \in wrote THEN x = raw'[k]["R"] /\ y = raw'[k]["B"]
                           ELSE x = o[k] /\ y = o[k + 2] /\ raw'[k] = raw[k]
         /\ k \in hits <=> /\ trim' # NoTrim /\ Plausible(x) /\ Plausible(y)
                          /\ ~(x = last[k].R /\ y = last[k].B)
         /\ k \in hits => /\ last'[k] = Scaled(trim', x, y)
                         /\ o'[k] = last'[k].R /\ o'[k + 2] = last'[k].B
         /\ k \notin hits => last'[k] = last[k] /\ o'[k] = x /\ o'[k + 2] = y
         /\ \A g \in Gain : times'[k][g] = (IF k \in wrote THEN 0 ELSE times[k][g])
                                          + (IF k \in hits THEN 1 ELSE 0)
<1>1. PICK wrote \in SUBSET Triples, val \in [Triples -> [Gain -> Gains]] :
        LET w == Stored(wrote, val)
            hits == IF trim' = NoTrim THEN {} ELSE {i \in Hits(w) : ~Ours(w, i)}
            new(i) == Scaled(trim', w[i], w[i + 2])
        IN
          /\ \A k \in Triples \ wrote : val[k] = raw[k]
          /\ trim' = IF awb_calls = 0 THEN [a \in Anchors |-> trim_prop(store[a])] ELSE trim
          /\ o' = [i \in Index |-> IF i \in hits THEN new(i).R
                                   ELSE IF i - 2 \in hits THEN new(i - 2).B ELSE w[i]]
          /\ last' = [i \in Index |-> IF i \in hits THEN new(i) ELSE last[i]]
          /\ raw' = val
          /\ times' = [k \in Triples |-> [g \in Gain |->
               (IF k \in wrote THEN 0 ELSE times[k][g]) +
               Cardinality({i \in hits : Word(k, g) \in {i, i + 2}})]]
          /\ fresh' = wrote
          /\ UNCHANGED store
  BY DEF handleAWB
<1> DEFINE w == Stored(wrote, val)
           hits == IF trim' = NoTrim THEN {} ELSE {i \in Hits(w) : ~Ours(w, i)}
           new(i) == Scaled(trim', w[i], w[i + 2])
<1>2. /\ \A k \in Triples \ wrote : val[k] = raw[k]
      /\ trim' = IF awb_calls = 0 THEN Trimmed(store) ELSE trim
      /\ raw' = val /\ fresh' = wrote /\ store' = store
  BY <1>1 DEF Trimmed
<1>3. o' = [i \in Index |-> IF i \in hits THEN new(i).R
                           ELSE IF i - 2 \in hits THEN new(i - 2).B ELSE w[i]]
  BY <1>1
<1>4. last' = [i \in Index |-> IF i \in hits THEN new(i) ELSE last[i]]
  BY <1>1
<1>5. times' = [k \in Triples |-> [g \in Gain |->
         (IF k \in wrote THEN 0 ELSE times[k][g]) +
         Cardinality({i \in hits : Word(k, g) \in {i, i + 2}})]]
  BY <1>1
<1>6. /\ DOMAIN w = Index /\ Shaped(w)
      /\ \A k \in Triples :
           /\ w[k + 1] = Unity
           /\ k \in wrote => w[k] = val[k]["R"] /\ w[k + 2] = val[k]["B"]
           /\ k \notin wrote => w[k] = o[k] /\ w[k + 2] = o[k + 2]
  BY StoredShape
<1> HIDE DEF w
<1>7. Hits(w) = {k \in Triples : Match(w, k)}
  BY <1>6, HitsAreTriples
<1>8. /\ hits \in SUBSET Triples
      /\ \A k \in Triples : k \in hits <=>
           /\ trim' # NoTrim /\ Plausible(w[k]) /\ Plausible(w[k + 2])
           /\ ~(w[k] = last[k].R /\ w[k + 2] = last[k].B)
  BY <1>6, <1>7 DEF Match, Ours
<1>9. trim' = NoTrim => hits = {}
  OBVIOUS
<1> HIDE DEF hits
<1>10. ASSUME NEW k \in Triples
       PROVE  /\ k \in hits => /\ last'[k] = Scaled(trim', w[k], w[k + 2])
                              /\ o'[k] = last'[k].R /\ o'[k + 2] = last'[k].B
              /\ k \notin hits => last'[k] = last[k] /\ o'[k] = w[k] /\ o'[k + 2] = w[k + 2]
  <2>1. /\ k \in Index /\ k + 2 \in Index /\ k + 2 - 2 = k
        /\ k - 2 \notin hits /\ k + 2 \notin hits
    BY <1>8, TripleFits
  <2>2. last'[k] = IF k \in hits THEN new(k) ELSE last[k]
    BY <1>4, <2>1
  <2>3. o'[k] = IF k \in hits THEN new(k).R ELSE w[k]
    BY <1>3, <2>1
  <2>4. o'[k + 2] = IF k \in hits THEN new(k).B ELSE w[k + 2]
    <3> DEFINE i == k + 2
    <3>0. i - 2 = k
      BY TripleFits
    <3>1. i \in Index /\ i \notin hits /\ i - 2 = k
      BY <2>1, <3>0
    <3> HIDE DEF i, new
    <3>2. o'[i] = IF k \in hits THEN new(k).B ELSE w[i]
      BY <1>3, <3>1
    <3> QED
      BY <3>2 DEF i
  <2> QED
    BY <2>2, <2>3, <2>4
<1>11. ASSUME NEW i \in Index, i \notin Triples, i - 2 \notin Triples
       PROVE  o'[i] = IF i - 1 \in Triples THEN Unity ELSE Filler
  <2>1. i \notin hits /\ i - 2 \notin hits
    BY <1>8, <1>11
  <2>2. o'[i] = w[i]
    BY <1>3, <2>1
  <2> QED
    BY <1>6, <1>11, <2>2 DEF Shaped
<1>12. ASSUME NEW k \in Triples, NEW g \in Gain
       PROVE  times'[k][g] = (IF k \in wrote THEN 0 ELSE times[k][g]) + (IF k \in hits THEN 1 ELSE 0)
  <2> DEFINE n == Cardinality({i \in hits : Word(k, g) \in {i, i + 2}})
  <2>1. times'[k][g] = (IF k \in wrote THEN 0 ELSE times[k][g]) + n
    BY <1>5
  <2>2. n = IF k \in hits THEN 1 ELSE 0
    BY <1>8, RescalesOf
  <2> HIDE DEF n
  <2> QED
    BY <2>1, <2>2
<1>13. DOMAIN o' = Index
  BY <1>3
<1>14. ASSUME NEW k \in Triples
       PROVE  IF k \in wrote THEN w[k] = raw'[k]["R"] /\ w[k + 2] = raw'[k]["B"]
                             ELSE w[k] = o[k] /\ w[k + 2] = o[k + 2] /\ raw'[k] = raw[k]
  BY <1>2, <1>6
<1>15. trim' = NoTrim \/ \E s \in Stores : trim' = Trimmed(s)
  BY <1>2 DEF AwbInv
<1> WITNESS wrote \in SUBSET Triples
<1> hits \in SUBSET Triples
  BY <1>8
<1> WITNESS hits \in SUBSET Triples
<1>16. ASSUME NEW k \in Triples
       PROVE  \E x, y :
         /\ IF k \in wrote THEN x = raw'[k]["R"] /\ y = raw'[k]["B"]
                           ELSE x = o[k] /\ y = o[k + 2] /\ raw'[k] = raw[k]
         /\ k \in hits <=> /\ trim' # NoTrim /\ Plausible(x) /\ Plausible(y)
                          /\ ~(x = last[k].R /\ y = last[k].B)
         /\ k \in hits => /\ last'[k] = Scaled(trim', x, y)
                         /\ o'[k] = last'[k].R /\ o'[k + 2] = last'[k].B
         /\ k \notin hits => last'[k] = last[k] /\ o'[k] = x /\ o'[k + 2] = y
         /\ \A g \in Gain : times'[k][g] = (IF k \in wrote THEN 0 ELSE times[k][g])
                                          + (IF k \in hits THEN 1 ELSE 0)
  <2> WITNESS w[k], w[k + 2]
  <2> QED
    BY <1>8, <1>10, <1>12, <1>14
<1> QED
  BY <1>2, <1>9, <1>11, <1>13, <1>15, <1>16

\* What a call does to one triple: it stays rescaled at most once, and the
\* triples that were recomputed are corrected.
LEMMA CallKeeps ==
  ASSUME UnityApart, AwbInv, handleAWB
  PROVE  AwbInv' /\ \A k \in fresh' :
           LET want == Scaled(trim', raw'[k]["R"], raw'[k]["B"])
           IN  (trim' # NoTrim /\ Plausible(raw'[k]["R"]) /\ Plausible(raw'[k]["B"])
                  /\ ~(raw'[k]["R"] = last[k].R /\ raw'[k]["B"] = last[k].B))
                 => (o'[k] = want.R /\ o'[k + 2] = want.B)
<1>1. PICK wrote \in SUBSET Triples, hits \in SUBSET Triples :
    /\ trim' = NoTrim \/ \E s \in Stores : trim' = Trimmed(s)
    /\ trim' = NoTrim => hits = {}
    /\ raw' \in [Triples -> [Gain -> Gains]]
    /\ fresh' = wrote /\ store' = store
    /\ DOMAIN o' = Index
    /\ \A i \in Index : i \notin Triples /\ i - 2 \notin Triples =>
         o'[i] = IF i - 1 \in Triples THEN Unity ELSE Filler
    /\ \A k \in Triples : \E x, y :
         /\ IF k \in wrote THEN x = raw'[k]["R"] /\ y = raw'[k]["B"]
                           ELSE x = o[k] /\ y = o[k + 2] /\ raw'[k] = raw[k]
         /\ k \in hits <=> /\ trim' # NoTrim /\ Plausible(x) /\ Plausible(y)
                          /\ ~(x = last[k].R /\ y = last[k].B)
         /\ k \in hits => /\ last'[k] = Scaled(trim', x, y)
                         /\ o'[k] = last'[k].R /\ o'[k + 2] = last'[k].B
         /\ k \notin hits => last'[k] = last[k] /\ o'[k] = x /\ o'[k + 2] = y
         /\ \A g \in Gain : times'[k][g] = (IF k \in wrote THEN 0 ELSE times[k][g])
                                          + (IF k \in hits THEN 1 ELSE 0)
  BY CallDoes
<1>2. ASSUME NEW k \in Triples
      PROVE  Once(k)' /\ (k \in wrote =>
               LET want == Scaled(trim', raw'[k]["R"], raw'[k]["B"])
               IN  /\ Corrected(k)'
                   /\ (trim' # NoTrim /\ Plausible(raw'[k]["R"]) /\ Plausible(raw'[k]["B"])
                        /\ ~(raw'[k]["R"] = last[k].R /\ raw'[k]["B"] = last[k].B))
                      => (o'[k] = want.R /\ o'[k + 2] = want.B))
  <2>1. PICK x, y :
         /\ IF k \in wrote THEN x = raw'[k]["R"] /\ y = raw'[k]["B"]
                           ELSE x = o[k] /\ y = o[k + 2] /\ raw'[k] = raw[k]
         /\ k \in hits <=> /\ trim' # NoTrim /\ Plausible(x) /\ Plausible(y)
                          /\ ~(x = last[k].R /\ y = last[k].B)
         /\ k \in hits => /\ last'[k] = Scaled(trim', x, y)
                         /\ o'[k] = last'[k].R /\ o'[k + 2] = last'[k].B
         /\ k \notin hits => last'[k] = last[k] /\ o'[k] = x /\ o'[k + 2] = y
         /\ \A g \in Gain : times'[k][g] = (IF k \in wrote THEN 0 ELSE times[k][g])
                                          + (IF k \in hits THEN 1 ELSE 0)
    BY <1>1
  <2>2. /\ times'[k]["R"] = (IF k \in wrote THEN 0 ELSE times[k]["R"]) + (IF k \in hits THEN 1 ELSE 0)
        /\ times'[k]["B"] = (IF k \in wrote THEN 0 ELSE times[k]["B"]) + (IF k \in hits THEN 1 ELSE 0)
    BY <2>1 DEF Gain
  <2>3. Once(k)
    BY DEF AwbInv
  <2>4. CASE k \in hits
    <3>1. k \notin wrote => times[k]["R"] = 0
      BY <2>1, <2>3, <2>4 DEF Once
    <3>2. x = raw'[k]["R"] /\ y = raw'[k]["B"]
      BY <2>1, <2>3, <3>1 DEF Once
    <3>3. times'[k]["R"] = 1 /\ times'[k]["B"] = 1
      BY <2>2, <2>3, <2>4, <3>1 DEF Once
    <3>4. TrimOf(last[k], raw[k])'
      BY <1>1, <2>1, <2>4, <3>2 DEF TrimOf
    <3>5. Once(k)'
      BY <2>1, <2>4, <3>3, <3>4 DEF Once
    <3> QED
      BY <2>1, <2>4, <3>2, <3>5 DEF Corrected
  <2>5. CASE k \notin hits
    <3>1. CASE k \in wrote
      <4>1. times'[k]["R"] = 0 /\ times'[k]["B"] = 0
        BY <2>2, <2>5, <3>1
      <4>2. Once(k)'
        BY <2>1, <2>5, <3>1, <4>1 DEF Once
      <4> QED
        BY <2>1, <2>5, <3>1, <4>2 DEF Corrected
    <3>2. CASE k \notin wrote
      <4>1. times'[k]["R"] = times[k]["R"] /\ times'[k]["B"] = times[k]["B"]
        BY <2>2, <2>3, <2>5, <3>2 DEF Once
      <4> QED
        BY <2>1, <2>3, <2>5, <3>2, <4>1 DEF Once, TrimOf
    <3> QED
      BY <3>1, <3>2
  <2> QED
    BY <2>4, <2>5
<1> QED
  BY <1>1, <1>2 DEF AwbInv

LEMMA AwbKeeps == UnityApart /\ AwbInv /\ [AwbNext]_awb_vars => AwbInv'
<1> SUFFICES ASSUME UnityApart, AwbInv, [AwbNext]_awb_vars PROVE AwbInv'
  OBVIOUS
<1>1. CASE setprop \/ UNCHANGED awb_vars
  <2>1. store' \in Stores /\ UNCHANGED <<trim, o, last, raw, times, fresh>>
    BY <1>1 DEF setprop, awb_vars, AwbInv
  <2>2. \A k \in Triples : Once(k)'
    BY <2>1 DEF AwbInv, Once, TrimOf
  <2>3. \A k \in fresh : Corrected(k)'
    BY <2>1 DEF AwbInv, Corrected
  <2> QED
    BY <2>1, <2>2, <2>3 DEF AwbInv
<1>2. CASE handleAWB
  BY <1>2, CallKeeps
<1> QED
  BY <1>1, <1>2 DEF AwbNext

LEMMA TrimInvariant == UnityApart => (LibrarySpec => []AwbInv)
<1> SUFFICES ASSUME UnityApart PROVE LibrarySpec => []AwbInv
  OBVIOUS
<1>1. LibraryInit => AwbInv
  BY LibraryStep, AwbStart
<1>2. AwbInv /\ [LibraryNext]_<<library_vars, awb_vars, exploring>> => AwbInv'
  BY LibraryStep, AwbKeeps
<1> QED
  BY <1>1, <1>2, PTL DEF LibrarySpec

(* A gain is rescaled at most once until the algorithm recomputes it, for  *)
(* any struct, gains and trims among which 512 marks nothing but the       *)
(* middle of a triple (cmdq_event_shim.c:450).                             *)
THEOREM RescaledOnce == ASSUME UnityApart PROVE LibrarySpec => []NeverCompounds
<1>1. AwbInv => NeverCompounds
  BY DEF AwbInv, Once, NeverCompounds, Gain
<1> QED
  BY <1>1, TrimInvariant, PTL

(* A triple just recomputed leaves the wrapper corrected for its own       *)
(* illuminant, wherever it lies, under the same condition.                 *)
THEOREM FreshCorrected == ASSUME UnityApart PROVE LibrarySpec => FreshGainsCorrected
<1> DEFINE Fresh ==
      \A k \in fresh' :
       LET r == raw'[k].R  b == raw'[k].B
           want == Scaled(trim', r, b)
       IN (trim' # NoTrim /\ Plausible(r) /\ Plausible(b)
             /\ ~(r = last[k].R /\ b = last[k].B))
          => (o'[k] = want.R /\ o'[k + 2] = want.B)
<1>1. AwbInv /\ [LibraryNext]_<<library_vars, awb_vars, exploring>> => [Fresh]_awb_vars
  <2> SUFFICES ASSUME AwbInv, [AwbNext]_awb_vars PROVE [Fresh]_awb_vars
    BY LibraryStep
  <2>1. CASE handleAWB
    BY <2>1, CallKeeps
  <2>2. CASE setprop
    <3>1. UNCHANGED <<trim, o, last, raw, fresh>>
      BY <2>2 DEF setprop
    <3> QED
      BY <3>1 DEF AwbInv, Corrected
  <2> QED
    BY <2>1, <2>2 DEF AwbNext
<1> QED
  BY <1>1, TrimInvariant, PTL DEF LibrarySpec, FreshGainsCorrected
=============================================================================
