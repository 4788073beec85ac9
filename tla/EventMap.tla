------------------------------ MODULE EventMap -------------------------------
(***************************************************************************)
(* Event ids on their way from the camera's display framework to the       *)
(* command engine: the table tools/cmdq-trace/gen_event_map.py makes, the  *)
(* translation cmdq_event_shim.c does with it, and what the kernel makes   *)
(* of the result.                                                          *)
(*                                                                         *)
(* The library names an event by its hardware value; the kernel expects an *)
(* index and looks the hardware value up.  Two sources of the kernel       *)
(* connect them: a header declares indices for names, the device tree      *)
(* gives the names hardware values.  A name is written as its place in the *)
(* alphabetical order, in which the generator goes through them.           *)
(***************************************************************************)
EXTENDS Naturals, Integers, Sequences

\* A header is the sequence of its declarations.
Header == Seq([name : Nat, index : Int])

\* An index is declared for one name: the kernel keeps one value for each.
OneNamePerIndex(header) ==
  \A i, j \in DOMAIN header :
    header[i].index >= 0 /\ header[i].index = header[j].index
      => header[i].name = header[j].name

First(S) == CHOOSE n \in S : \A other \in S : n =< other

-----------------------------------------------------------------------------
(* gen_event_map.py.                                                       *)

\* FAULTY: the placeholders of the header, with their negative index, count.
AllDeclarations(header, name) == {i \in DOMAIN header : header[i].name = name}

\* The declarations of a name that count: negative indices do not.
Declarations(header, name) ==
  {i \in DOMAIN header : header[i].name = name /\ header[i].index >= 0}

enum_by_dts(header) ==
  [name \in {n \in {header[i].name : i \in DOMAIN header} : Declarations(header, n) # {}}
     |-> header[First(Declarations(header, name))].index]

\* The names that have an index and this hardware value.
Claims(header, tree, hw) ==
  {name \in DOMAIN tree \cap DOMAIN enum_by_dts(header) : tree[name] = hw}

hw_to_enum(header, tree) ==
  [hw \in {h \in {tree[name] : name \in DOMAIN tree} : Claims(header, tree, h) # {}}
     |-> enum_by_dts(header)[First(Claims(header, tree, hw))]]

-----------------------------------------------------------------------------
(* cmdq_event_shim.c.  A meta is an operation and its offset field, which  *)
(* holds an event for some operations.                                     *)

MOP_EVENT_FIRST == 3
MOP_EVENT_LAST == 7

CarriesEvent(meta) == meta.op \in MOP_EVENT_FIRST..MOP_EVENT_LAST

\* One meta; a value outside event_map, or with -1 in it, stays.
Translated(meta, map) ==
  IF CarriesEvent(meta) /\ meta.offset \in DOMAIN map
    THEN [meta EXCEPT !.offset = map[meta.offset]]
    ELSE meta

-----------------------------------------------------------------------------
(* The kernel: its table of events, and what becomes of a submit.          *)

\* Hardware value of every index some declaration names and the tree knows.
EventTable(header, tree) ==
  LET Named(i) == {k \in DOMAIN header : header[k].index = i /\ header[k].name \in DOMAIN tree}
  IN  [index \in {i \in {header[k].index : k \in DOMAIN header} : i >= 0 /\ Named(i) # {}}
         |-> tree[header[CHOOSE k \in Named(index) : TRUE].name]]

\* The operations the kernel translates.
EventOps == 3..7

\* One event the table does not know discards the whole submit.
Accepted(metas, table) ==
  \A i \in DOMAIN metas : metas[i].op \in EventOps => metas[i].offset \in DOMAIN table

\* What the engine is given: the same operations on hardware events.
Program(metas, table) ==
  [i \in DOMAIN metas |->
     IF metas[i].op \in EventOps THEN [metas[i] EXCEPT !.offset = table[metas[i].offset]]
                             ELSE metas[i]]
=============================================================================
