---------------------------- MODULE MCCmdqLibrary ----------------------------
(* CmdqLibrary for TLC.                                                    *)
EXTENDS CmdqLibrary, TLC

Line(n, i) == [name |-> n, index |-> i]

\* Indices out of order; and a name with a placeholder first, a name with two
\* indices and one with a placeholder only.
SmallHeaders == {
  <<Line(1, 2), Line(2, 0), Line(3, 1)>>,
  <<Line(1, -1), Line(2, 1), Line(1, 0), Line(2, 2), Line(3, -1)>>}

\* Every name with an event; two names that share one; a name without, and a
\* hardware value that is past the indices.
SmallTrees == {<<0, 2, 1>>, <<1, 1, 2>>, (2 :> 4) @@ (3 :> 0)}

Meta(p, x) == [op |-> p, offset |-> x]

\* Events at both ends of the range of operations, one past the indices, and
\* registers beside them.
SmallSubmits == {
  <<>>,
  <<Meta(3, 0), Meta(7, 1)>>,
  <<Meta(2, 1), Meta(7, 2)>>,
  <<Meta(8, 0), Meta(3, 1)>>,
  <<Meta(0, 2), Meta(5, 4)>>}

\* Unset, the first and the last order, a digit too many, one too high.
SmallTexts == {<<>>, <<"0">>, <<"3">>, <<"1", "0">>, <<"4">>}

\* Events that the tables have, and one that none has.
SmallSweep == <<0, 1, 2, 3>>

-----------------------------------------------------------------------------
Trims(r, b, rw, bw) ==
  [a \in Anchors |-> CASE a = "r" -> r [] a = "b" -> b [] a = "r.warm" -> rw [] OTHER -> bw]

NoProperties == Trims(Unset, Unset, Unset, Unset)
Documented == Trims(390, 532, 431, 412)
\* One trim out of range, which counts as unset, and one at the limit.
Extreme == Trims(2049, 128, 2048, 700)

OffOrOn == {NoProperties, Documented, Extreme}

\* The hypothesis of the theorems about the trim holds here.
ASSUME SmallUnityApart == UnityApart
=============================================================================
