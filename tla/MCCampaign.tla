------------------------------ MODULE MCCampaign ----------------------------
(***************************************************************************)
(* A campaign of a few lines with every kind of harm.                      *)
(***************************************************************************)
EXTENDS CampaignProperties, TLC

CONSTANTS a, b, none

ValueSymmetry == Permutations(Values)

MCValues == {a, b}

Harm(wire, tcp, tags) == [name \in Names |-> CASE name = "wire" -> wire [] name = "tcp" -> tcp [] OTHER -> tags]

MCHarms == {Harm("all", "all", "all"), Harm("bare", "bare", "cut"), Harm("cut", "cut", "nul"),
            Harm("time", "nul", "bare"), Harm("nul", "gone", "gone"), Harm("gone", "cut", "cut")}

MCSize == [poll |-> 1, start |-> 1, snap |-> 3, tag |-> 1]
=============================================================================
