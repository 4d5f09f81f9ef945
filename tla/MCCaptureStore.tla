--------------------------- MODULE MCCaptureStore ---------------------------
(* Two logs, of which only the wire log is held open, and two lines. *)
EXTENDS CaptureStoreProperties

CONSTANTS wire, tcp, l1, l2

AllLogs == {wire, tcp}
WireOnly == {wire}
TwoLines == {l1, l2}
=============================================================================
