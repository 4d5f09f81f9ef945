-------------------------- MODULE MCRegisterLogger --------------------------
(* Small requests and line conditions for RegisterLogger. *)
EXTENDS RegisterLogger

Ask(fn, start, count) == [dev |-> 1, fn |-> fn, start |-> start, count |-> count]

\* Two reads that hold register 2, of one length each, and a write.
MCReadsAndWrites == {Ask(3, 2, 1), Ask(3, 1, 2), Ask(6, 1, 7)}
\* Reads of equal length.
MCSameLength == {Ask(3, 1, 1), Ask(3, 2, 1)}

MCSilentLine == {<<>>}
\* The start of a reply.
MCNoisyLine == {<<>>, Cells(<<1, 3, 8, 1>>)}

\* With low byte 3, the bytes of register 1 look like the start of a reply.
MCLow == {3}

MCAtOnce == {8}
=============================================================================
