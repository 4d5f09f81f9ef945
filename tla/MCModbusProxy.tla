---------------------------- MODULE MCModbusProxy ---------------------------
(* Small requests, overrides and line conditions for ModbusProxy. *)
EXTENDS ModbusProxy

Ask(fn, start, count) == [dev |-> 1, fn |-> fn, start |-> start, count |-> count]
Set(dev, fn, reg) == [dev |-> dev, fn |-> fn, reg |-> reg, value |-> <<0, 8>>]

MCHoldingReads == {Ask(3, 1, 1), Ask(3, 2, 1)}
MCMixed == {Ask(3, 1, 2), Ask(4, 1, 1), Ask(6, 1, 7)}
MCInputReads == {Ask(3, 1, 1), Ask(4, 1, 1)}

MCNoOverrides == {}
MCFirstRegister == {Set(1, 3, 1)}
MCSecondRegister == {Set(1, 3, 2)}

MCAtOnce == {8}
MCInPieces == {3, 8}

MCSilentLine == {<<>>}
MCNoisyLine == {<<>>, Cells(<<1, 3, 5>>)}

\* The bytes of a register look like the start of a reply to a pending request.
MCHeld == <<1, 3>>
=============================================================================
