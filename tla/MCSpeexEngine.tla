---------------------------- MODULE MCSpeexEngine ----------------------------
(* SpeexEngine for TLC.                                                    *)
EXTENDS SpeexEngine

\* Sessions: each choice of a block is varied on its own.
Plain == [clip |-> FALSE, verdict |-> "keep", sanity |-> "ok", rate |-> 1, leak |-> TRUE]
Low  == [S |-> 1, ridiculous |-> FALSE]
High == [S |-> 3, ridiculous |-> FALSE]

SomeBlocks ==
    {<<Plain, Low>>, <<Plain, High>>, <<Plain, [Low EXCEPT !.ridiculous = TRUE]>>}
    \cup {<<f, High>> : f \in {[Plain EXCEPT !.clip = TRUE],
                               [Plain EXCEPT !.verdict = "update"],
                               [Plain EXCEPT !.verdict = "backtrack"],
                               [Plain EXCEPT !.sanity = "worse"],
                               [Plain EXCEPT !.sanity = "bad"]}}
SmallSteps == <<3, 5, 6>>
SmallWindows == <<1, 1, 1, 2>>

\* Vectors: a pulse at every place is enough where the result is linear in
\* the vector, noise stands for the rest.
Pulse(n, k) == [o \in 1 .. n |-> IF o = k THEN 1 ELSE 0]
Noise(n) == [o \in 1 .. n |-> (o * o * o + 7 * o + 3) % P]
Vectors(n) == {Pulse(n, k) : k \in 1 .. n} \cup {Noise(n)}
Job(kind, first, second) == [kind |-> kind, first |-> first, second |-> second]

CircleRoot == [r |-> 32, i |-> 6152]

SmallJobs ==
    UNION {{Job("round", x, x) : x \in Vectors(n)} : n \in {2, 4, 6, 10, 14}}
    \cup {Job("round", Noise(n), Noise(n)) : n \in {8, 12, 16, 20, 24, 30, 32, 60, 70, 320}}
    \cup UNION {{Job("filter", w, x) : w \in Vectors(n), x \in Vectors(n)} : n \in {4, 8, 10}}
    \cup UNION {{Job("gradient", SecondHalf(e), x) : e \in Vectors(n), x \in Vectors(n)} :
                n \in {4, 8, 10}}
NoJobs == {}
=============================================================================
