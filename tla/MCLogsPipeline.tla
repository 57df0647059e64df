--------------------------- MODULE MCLogsPipeline ---------------------------
(* LogsPipeline with sources as model values; the second line of the first  *)
(* file is one the tailer refuses locally.                                  *)
EXTENDS LogsPipeline

CONSTANTS f1, f2, j

OneFile == {f1}
TwoFiles == {f1, f2}
Journald == {j}
None == {}
SecondLine == {<<f1, 2>>}
=============================================================================
