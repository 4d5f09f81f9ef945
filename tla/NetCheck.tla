------------------------------ MODULE NetCheck ------------------------------
(***************************************************************************)
(* givcap-netcheck, run every minute: three checks in a row with the Wi-Fi *)
(* connected and the gateway silent restart the connection, fifteen with   *)
(* it disconnected switch the radio off and on.  The network changes       *)
(* between any two commands of the script, and each nmcli command that is  *)
(* to change it may fail; the counts live in a file in /run, which a power *)
(* cut loses, while NetworkManager remembers that the radio was off.  The  *)
(* gateway is reached over Wi-Fi only.                                     *)
(***************************************************************************)
EXTENDS Integers

CONSTANTS DeadChecks, DownChecks,   \* 3 and 15 in the script
          MaxBoots                  \* bound on power cuts

ASSUME ChecksAssumption == DeadChecks \in Nat \ {0} /\ DownChecks \in Nat \ {0} /\ MaxBoots \in Nat

VARIABLES
    connected, answers,   \* the Wi-Fi, and whether the gateway answers on it
    retrying, radio,      \* NetworkManager: tries to connect by itself; the radio is on
    step,                 \* the command of the script that comes next
    dead, down,           \* its variables
    saved,                \* the state file
    boots,
    run                   \* auxiliary: how many checks in a row found the same, since the script last acted on it

network == <<connected, answers, retrying, radio>>
script == <<step, dead, down, saved>>
vars == <<network, script, boots, run>>

NoChecks == [dead |-> 0, down |-> 0]
Able == radio /\ retrying

-----------------------------------------------------------------------------
\* The network (external).

Connects ==
    /\ ~connected /\ Able
    /\ connected' = TRUE /\ answers' \in BOOLEAN
    /\ UNCHANGED <<retrying, radio, script, boots, run>>

Drops ==
    /\ connected
    /\ connected' = FALSE /\ answers' = FALSE /\ retrying' \in BOOLEAN
    /\ UNCHANGED <<radio, script, boots, run>>

FallsSilent ==
    /\ answers /\ answers' = FALSE
    /\ UNCHANGED <<connected, retrying, radio, script, boots, run>>

AnswersAgain ==
    /\ connected /\ ~answers /\ answers' = TRUE
    /\ UNCHANGED <<connected, retrying, radio, script, boots, run>>

-----------------------------------------------------------------------------
\* The script.

Ran(kind) == [kind |-> kind, n |-> IF run.kind = kind THEN run.n + 1 ELSE 1]
Fresh == [kind |-> "ok", n |-> 0]

\* The state is read, and the gateway is pinged.
GatewayAnswers ==
    /\ step = "check" /\ answers
    /\ saved' = NoChecks /\ run' = Fresh
    /\ UNCHANGED <<network, step, dead, down, boots>>

GatewaySilent ==
    /\ step = "check" /\ ~answers
    /\ dead' = saved.dead /\ down' = saved.down
    /\ step' = "look"
    /\ UNCHANGED <<network, saved, boots, run>>

\* Mutant: acts a check too late.
SeesConnectedOnceMore ==
    /\ step = "look" /\ connected
    /\ down' = 0 /\ dead' = dead + 1
    /\ step' = IF dead' > DeadChecks THEN "find" ELSE "save"
    /\ run' = Ran("dead")
    /\ UNCHANGED <<network, saved, boots>>

SeesConnected ==
    /\ step = "look" /\ connected
    /\ down' = 0 /\ dead' = dead + 1
    /\ step' = IF dead' >= DeadChecks THEN "find" ELSE "save"
    /\ run' = Ran("dead")
    /\ UNCHANGED <<network, saved, boots>>

\* Mutant: the other count goes on.
SeesNoWifiOnly ==
    /\ step = "look" /\ ~connected
    /\ down' = down + 1
    /\ step' = IF down' >= DownChecks THEN "radioOff" ELSE "save"
    /\ run' = Ran("down")
    /\ UNCHANGED <<network, dead, saved, boots>>

SeesNoWifi ==
    /\ step = "look" /\ ~connected
    /\ dead' = 0 /\ down' = down + 1
    /\ step' = IF down' >= DownChecks THEN "radioOff" ELSE "save"
    /\ run' = Ran("down")
    /\ UNCHANGED <<network, saved, boots>>

\* The active connection is looked up again.
FindsConnection ==
    /\ step = "find" /\ connected /\ step' = "conDown"
    /\ UNCHANGED <<network, dead, down, saved, boots, run>>

\* It is gone by now: nmcli is given an empty name, and changes nothing.
FindsNone ==
    /\ step = "find" /\ ~connected
    /\ step' = "save" /\ dead' = 0 /\ run' = Fresh
    /\ UNCHANGED <<network, down, saved, boots>>

\* The connection may have dropped since; then an attempt to bring it back is given up.
ConDown ==
    /\ step = "conDown" /\ step' = "conUp"
    /\ connected' = FALSE /\ answers' = FALSE /\ retrying' \in BOOLEAN
    /\ run' = Fresh
    /\ UNCHANGED <<radio, dead, down, saved, boots>>

ConDownFails ==
    /\ step = "conDown" /\ step' = "conUp" /\ run' = Fresh
    /\ UNCHANGED <<network, dead, down, saved, boots>>

\* The connection comes up again, or it does not.
ConUp ==
    /\ step = "conUp" /\ step' = "save" /\ dead' = 0
    /\ \/ radio /\ connected' = TRUE /\ answers' \in BOOLEAN
       \/ UNCHANGED <<connected, answers>>
    /\ UNCHANGED <<retrying, radio, down, saved, boots, run>>

RadioOff ==
    /\ step = "radioOff" /\ step' = "radioOn"
    /\ radio' = FALSE /\ connected' = FALSE /\ answers' = FALSE
    /\ run' = Fresh
    /\ UNCHANGED <<retrying, dead, down, saved, boots>>

RadioOffFails ==
    /\ step = "radioOff" /\ step' = "radioOn" /\ run' = Fresh
    /\ UNCHANGED <<network, dead, down, saved, boots>>

\* Mutant: the radio stays off.
RadioStaysOff ==
    /\ step = "radioOn" /\ step' = "save"
    /\ down' = 0
    /\ UNCHANGED <<network, dead, saved, boots, run>>

\* NetworkManager begins to try again when the radio comes back, not when it was on.
RadioOn ==
    /\ step = "radioOn" /\ step' = "save"
    /\ radio' = TRUE /\ retrying' = (retrying \/ ~radio) /\ down' = 0
    /\ UNCHANGED <<connected, answers, dead, saved, boots, run>>

RadioOnFails ==
    /\ step = "radioOn" /\ step' = "save"
    /\ down' = 0
    /\ UNCHANGED <<network, dead, saved, boots, run>>

Save ==
    /\ step = "save" /\ step' = "check"
    /\ saved' = [dead |-> dead, down |-> down]
    /\ UNCHANGED <<network, dead, down, boots, run>>

\* A power cut, and the box starts again.
Boot ==
    /\ boots < MaxBoots /\ boots' = boots + 1
    /\ connected' = FALSE /\ answers' = FALSE /\ retrying' \in BOOLEAN
    /\ step' = "check" /\ dead' = 0 /\ down' = 0 /\ saved' = NoChecks /\ run' = Fresh
    /\ UNCHANGED radio

-----------------------------------------------------------------------------
Init ==
    /\ connected = FALSE /\ answers = FALSE /\ retrying = TRUE /\ radio = TRUE
    /\ step = "check" /\ dead = 0 /\ down = 0 /\ saved = NoChecks
    /\ boots = 0 /\ run = Fresh

Script ==
    \/ GatewayAnswers \/ GatewaySilent \/ SeesConnected \/ SeesNoWifi
    \/ FindsConnection \/ FindsNone \/ ConDown \/ ConDownFails \/ ConUp
    \/ RadioOff \/ RadioOffFails \/ RadioOn \/ RadioOnFails \/ Save

Next == Script \/ Connects \/ Drops \/ FallsSilent \/ AnswersAgain \/ Boot

\* The timer runs the script again and again, and each run ends.  An nmcli command
\* may fail any number of times, but one that is run again and again succeeds in
\* the end (SF); nothing is assumed of the network.
Fairness == WF_vars(Script) /\ SF_vars(ConDown) /\ SF_vars(RadioOff) /\ SF_vars(RadioOn)

Spec == Init /\ [][Next]_vars /\ Fairness

-----------------------------------------------------------------------------
(* Properties. *)

\* Every variable has its type, no count in the file reaches its limit, and only
\* one of them is above zero at a time.
TypeOK ==
    /\ connected \in BOOLEAN /\ answers \in BOOLEAN /\ retrying \in BOOLEAN /\ radio \in BOOLEAN
    /\ answers => connected
    /\ step \in {"check", "look", "find", "conDown", "conUp", "radioOff", "radioOn", "save"}
    /\ dead \in 0 .. DeadChecks /\ down \in 0 .. DownChecks
    /\ saved \in [dead : 0 .. DeadChecks - 1, down : 0 .. DownChecks - 1]
    /\ 0 \in {saved.dead, saved.down}
    /\ boots \in 0 .. MaxBoots

\* "If the Wi-Fi reports connected but the default gateway doesn't answer for 3
\* checks in a row": a connection is taken down only after as many checks in a row
\* found it connected and silent, and the radio is switched only after as many
\* found no connection, since the script last did so, however the network changes
\* between two checks or two commands of one (givcap-netcheck:4-10).  A check sees
\* one moment: what the network did between two of them does not count.
HelpIsEarned ==
    [][/\ ConDown \/ ConDownFails => run = [kind |-> "dead", n |-> DeadChecks]
       /\ RadioOff \/ RadioOffFails => run = [kind |-> "down", n |-> DownChecks]]_vars

\* A connection on which the gateway stays silent is taken down in the end; and a box
\* that NetworkManager has given up on, or whose power was cut while the radio was
\* off, is brought back to trying, however often nmcli fails on the way.
HelpComes ==
    /\ (connected /\ ~answers) ~> (~connected \/ answers)
    /\ (~connected /\ ~Able) ~> (connected \/ Able)
=============================================================================
