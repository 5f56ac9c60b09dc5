---------------------------- MODULE MCDeduplicate ----------------------------
(***************************************************************************)
(* Instances of Deduplicate over small directories of daily logs, made of  *)
(* the reports the Receiver module can log: OK reports of one text, failed *)
(* ones of all the frames of a larger cluster, failed ones that mix two    *)
(* clusters; and the test logs.                                            *)
(***************************************************************************)
EXTENDS TestLogs

CONSTANTS a, b

AB == {a, b}
All == AB \cup {"prod", "stage", "edge", "hist"}
SameSalt == [c \in Cluster |-> "salt"]

Snap(c, e, n) == [cluster |-> c, epoch |-> e, count |-> n, lines |-> 1 .. n]
Part(c, e, n, s) == [Snap(c, e, n) EXCEPT !.lines = Chunk(n, s)]
OK(t) == [ok |-> TRUE, texts |-> <<t>>]
Failed(ts) == [ok |-> FALSE, texts |-> ts]

Singles == {OK(Snap(a, 1, 2)), OK(Snap(a, 2, 1)), OK(Snap(b, 1, 1))}
Mixed == {Failed(<<Part(a, 1, 3, 1), Part(a, 1, 3, 3)>>),
          Failed(<<Part(a, 2, 3, 1), Snap(b, 1, 1)>>)}

UpTo(n, S) == UNION {[1 .. k -> S] : k \in 0 .. n}
TwoDays == {1, 2}
TestDays == DOMAIN TestFiles \cup DOMAIN LogsByDate
EveryDay == TwoDays \cup TestDays
\* One day of up to two reports of any kind, or three OK ones; or two short days.
Directory(one, two) == [d \in Day |-> IF d = 1 THEN one ELSE IF d = 2 THEN two ELSE <<>>]
Short == {<<>>, <<OK(Snap(a, 2, 1))>>, <<OK(Snap(b, 1, 1)), OK(Snap(a, 3, 2))>>}
Directories ==
  {Directory(day, <<>>) : day \in UpTo(2, Singles \cup Mixed) \cup UpTo(3, Singles)}
    \cup {Directory(one, two) : one, two \in Short}
\* Cluster a reports, then b, then a again, which has grown to a second frame.
Growing ==
  {Directory(<<OK(Snap(a, 1, 2)), OK(Snap(b, 1, 1)),
               Failed(<<Part(a, 2, 3, 1), Part(a, 2, 3, 3)>>)>>, <<>>)}
=============================================================================
