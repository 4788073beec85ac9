----------------------------- MODULE MCAmznAec ------------------------------
(* Instances of AmznAec for TLC.                                           *)
EXTENDS AmznAec, AecSamples, TLC

Mic == [input |-> TRUE, device |-> 7, channels |-> 6, rate |-> 16000, format |-> "S24_3LE"]
AFewStreams == {Mic, [Mic EXCEPT !.input = FALSE], [Mic EXCEPT !.channels = 2]}

With(set, geom) == [set |-> set, geom |-> geom]

\* The defaults, and the shim switched off.
DefaultOrOff == {With(<<>>, <<>>), With("enable" :> 0, <<>>)}

\* No, one and two microphones, every mode, an unknown one and both engines;
\* a geometry that fits, one too close, one for another number of microphones;
\* one processed and one other channel muted.
SomeOfEach ==
  DefaultOrOff
    \cup {With("mics" :> m @@ "array" :> a @@ "engine" :> g, <<>>) :
            m \in {0, 4, 25}, a \in 0..3, g \in 0..1}
    \cup {With("mics" :> 25 @@ "mute" :> 19 @@ "array" :> a @@ "engine" :> g, <<>>) :
            a \in {0, 1}, g \in 0..1}
    \cup {With("mics" :> m @@ "array" :> 2, <<0, 0, 0>> \o far) :
            m \in {4, 9}, far \in {<<>>, <<3, 4, 0>>, <<3, 3, 2>>}}

\* Samples with every byte at its ends and at its sign, and levels around zero,
\* around what fits and far beyond it.
EdgeBytes == {0, 127, 128, 255}
EdgeSamples == EdgeBytes \X EdgeBytes \X EdgeBytes
EdgeLevels ==
  {-2000000000, 2000000000} \cup 
    {Part * b + d : b \in {-Full, -256, 0, 65536, Full}, d \in {-17, -16, -15, -1, 0, 1, 15, 16, 17}}

-----------------------------------------------------------------------------
(* Two threads take turns in every way over frames that are all alike; the  *)
(* content of the stream, and what the settings make, are explored with one *)
(* thread; the samples of a block by themselves.  A behaviour is one of the *)
(* three studies.                                                           *)

CONSTANTS Lone, Only \* the one thread, and the one frame

VARIABLE study

TakingTurns ==
  /\ study = "turns"
  /\ \A q \in {in', out'} \cup {buf'[t] : t \in Threads} : \A i \in DOMAIN q : q[i].v \in {Only, Silence}
  /\ conf'.s \in {read_settings(p) : p \in DefaultOrOff} \cup {Unread}
Content ==
  /\ study = "content"
  /\ \A t \in Threads \ {Lone} : UNCHANGED <<pc[t], held[t]>>
  /\ opened' \subseteq {CHOOSE h \in Handles : TRUE}

StudyInit ==
  /\ Init /\ SampleInit /\ study \in {"turns", "content", "samples"}
  /\ study # "samples" => captured = <<0, 0, 0>>
StudyNext ==
  \/ Next /\ (TakingTurns \/ Content) /\ UNCHANGED <<study, sample_vars>>
  \/ study = "samples" /\ SampleNext /\ UNCHANGED <<study, vars>>
StudySpec == StudyInit /\ [][StudyNext]_<<vars, sample_vars, study>> /\ Fairness
=============================================================================
