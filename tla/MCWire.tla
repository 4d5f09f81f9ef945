------------------------------- MODULE MCWire -------------------------------
(***************************************************************************)
(* Three exchanges over two holding-register blocks of the same length,    *)
(* two input-register blocks of different lengths and a write, with two    *)
(* frames lost or spoilt.  The longer input block begins where the low     *)
(* bytes of its registers are past 127, so that a signed field at an odd   *)
(* byte is negative; one at an even byte changes its sign with the level.  *)
(***************************************************************************)
EXTENDS WireProperties

Query(fn, start, count) == [dev |-> 1, fn |-> fn, start |-> start, count |-> count]

MCQueries == {Query(3, 0, 2), Query(3, 2, 2), Query(4, 0, 2), Query(4, 43, 3), Query(6, 1, 7)}

MCSchedule == << [t |-> 0, level |-> 0], [t |-> 4, level |-> 1], [t |-> 20, level |-> 1] >>

Spec1(mode, fn, reg, off) == [mode |-> mode, pattern |-> <<Wild, fn, reg>>, off |-> off]

MCFilters == {{}, {Spec1("w", 3, Wild, 1), Spec1("sw", Wild, Wild, 0), Spec1("b", 4, 1, 0)}}

Field(kind, at) == [kind |-> kind, at |-> at]
Text(at, len) == [kind |-> "ascii", at |-> at, len |-> len]

MCHrLayout == [bytes |-> 4, fields |-> {Field("u16", 0), Field("s16", 0), Field("s16", 2)}]
MCIrLayouts ==
    [start \in {0, 43} |->
        IF start = 0 THEN [bytes |-> 4, fields |-> {Text(0, 2), Field("s16", 2)}]
        ELSE [bytes |-> 6, fields |-> {Field("u8", 0), Field("u16", 1), Field("s32", 0),
                                       Field("s32", 1), Field("u32", 1), Field("u16", 3)}]]

\* What the theorems ask of a recording holds of this one.
ASSUME RecordingAssumption == Tellable /\ ClockRuns /\ Unhurried /\ LayoutsFit /\ BlocksTold
=============================================================================
