---------------------------- MODULE MCMqttLogger ----------------------------
(* Instances of MqttLogger for TLC. *)
EXTENDS MqttLogger

CONSTANTS p1, p2, blank, soc, v1

OnePack == {p1}
TwoPacks == {p1, p2}
OneValue == {v1}
=============================================================================
