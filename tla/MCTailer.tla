------------------------------ MODULE MCTailer ------------------------------
(* Tailer with two inodes: single-line sources whose rotated files still    *)
(* match or do not, and a multiline source that may open one file.          *)
EXTENDS Tailer

CONSTANTS i1, i2

MCInodes == {i1, i2}

SingleLine ==
    [startAt |-> "beginning", multiline |-> FALSE, maxOpen |-> 2, maxCheckpoints |-> 2,
     rotatedMatches |-> TRUE, kinds |-> {"start", "big"}]

Assembled ==
    [startAt |-> "beginning", multiline |-> TRUE, maxOpen |-> 1, maxCheckpoints |-> 1,
     rotatedMatches |-> FALSE, kinds |-> {"start", "more", "big"}]

FromEnd == [SingleLine EXCEPT !.startAt = "end", !.rotatedMatches = FALSE]

\* A single-line source whose rotated files do not match.
Renamed == [SingleLine EXCEPT !.rotatedMatches = FALSE, !.kinds = {"start"}]

Sources == {SingleLine, Renamed, Assembled}
OnlyFromEnd == {FromEnd}

\* At most two of a stop, a failing write and a replaced content.
FewMishaps == stops + faults + Cardinality({i \in Inodes : epoch[i] > 0}) <= 2
=============================================================================
