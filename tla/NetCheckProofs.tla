--------------------------- MODULE NetCheckProofs ---------------------------
(***************************************************************************)
(* For any limits: the counts of givcap-netcheck stay below them, and it   *)
(* acts on the Wi-Fi only when it has earned it.  CountsInv says of each   *)
(* place in the script which counts the row of equal checks stands for.    *)
(***************************************************************************)
EXTENDS NetCheck, TLAPS

\* The counts are those of a row of checks that were not yet acted on.
Stands(a, b) ==
    \/ a = 0 /\ b = 0 /\ run = Fresh
    \/ a \in 1 .. DeadChecks - 1 /\ b = 0 /\ run = [kind |-> "dead", n |-> a]
    \/ a = 0 /\ b \in 1 .. DownChecks - 1 /\ run = [kind |-> "down", n |-> b]

CountsInv ==
    /\ step = "check" => Stands(saved.dead, saved.down)
    /\ step \in {"look", "save"} => Stands(dead, down)
    /\ step \in {"find", "conDown"} => dead = DeadChecks /\ down = 0 /\ run = [kind |-> "dead", n |-> DeadChecks]
    /\ step = "conUp" => dead = DeadChecks /\ down = 0 /\ run = Fresh
    /\ step = "radioOff" => dead = 0 /\ down = DownChecks /\ run = [kind |-> "down", n |-> DownChecks]
    /\ step = "radioOn" => dead = 0 /\ down = DownChecks /\ run = Fresh

IInv == TypeOK /\ CountsInv

\* An empty state file is as good as any.
LEMMA NoChecksType ==
    /\ NoChecks \in [dead : 0 .. DeadChecks - 1, down : 0 .. DownChecks - 1]
    /\ NoChecks.dead = 0 /\ NoChecks.down = 0
    /\ 0 \in 0 .. DeadChecks /\ 0 \in 0 .. DownChecks /\ 0 \in 0 .. MaxBoots
  BY ChecksAssumption DEF NoChecks

\* Initially there is no row.
LEMMA InitInv == Init => IInv
  <1> SUFFICES ASSUME Init PROVE IInv
    OBVIOUS
  <1>1. TypeOK
    BY NoChecksType DEF Init, TypeOK
  <1>2. CountsInv
    BY NoChecksType DEF Init, CountsInv, Stands
  <1> QED
    BY <1>1, <1>2 DEF IInv

\* The network leaves the script alone, and answers only while it is connected.
LEMMA NetworkStep ==
    ASSUME IInv, Connects \/ Drops \/ FallsSilent \/ AnswersAgain
    PROVE  IInv'
  <1>1. UNCHANGED <<step, dead, down, saved, boots, run>>
    BY DEF Connects, Drops, FallsSilent, AnswersAgain, script
  <1>2. /\ connected' \in BOOLEAN /\ answers' \in BOOLEAN /\ retrying' \in BOOLEAN /\ radio' \in BOOLEAN
        /\ answers' => connected'
    BY DEF IInv, TypeOK, Connects, Drops, FallsSilent, AnswersAgain
  <1>3. TypeOK'
    BY <1>1, <1>2 DEF IInv, TypeOK
  <1>4. CountsInv'
    BY <1>1 DEF IInv, CountsInv, Stands, Fresh
  <1> QED
    BY <1>3, <1>4 DEF IInv

\* A check that finds the same as the last makes the row longer, and another kind
\* begins a new one.
LEMMA LookStep ==
    ASSUME IInv, SeesConnected \/ SeesNoWifi
    PROVE  IInv'
  <1> USE ChecksAssumption
  <1>1. UNCHANGED <<connected, answers, retrying, radio, saved, boots>>
    BY DEF SeesConnected, SeesNoWifi, network
  <1>2. Stands(dead, down)
    BY DEF IInv, CountsInv, SeesConnected, SeesNoWifi
  <1>3. CASE SeesConnected
    <2>1. /\ dead' \in 1 .. DeadChecks /\ down' = 0 /\ run' = [kind |-> "dead", n |-> dead']
          /\ step' = IF dead' >= DeadChecks THEN "find" ELSE "save"
      BY <1>2, <1>3 DEF SeesConnected, Stands, Ran, Fresh
    <2>2. TypeOK'
      BY <1>1, <2>1 DEF IInv, TypeOK
    <2>3. CountsInv'
      BY <2>1 DEF CountsInv, Stands
    <2> QED
      BY <2>2, <2>3 DEF IInv
  <1>4. CASE SeesNoWifi
    <2>1. /\ down' \in 1 .. DownChecks /\ dead' = 0 /\ run' = [kind |-> "down", n |-> down']
          /\ step' = IF down' >= DownChecks THEN "radioOff" ELSE "save"
      BY <1>2, <1>4 DEF SeesNoWifi, Stands, Ran, Fresh
    <2>2. TypeOK'
      BY <1>1, <2>1 DEF IInv, TypeOK
    <2>3. CountsInv'
      BY <2>1 DEF CountsInv, Stands
    <2> QED
      BY <2>2, <2>3 DEF IInv
  <1> QED
    BY <1>3, <1>4

\* The other commands of the script.
LEMMA CommandStep ==
    ASSUME IInv, GatewayAnswers \/ GatewaySilent \/ FindsConnection \/ FindsNone \/ ConDown \/ ConDownFails
                   \/ ConUp \/ RadioOff \/ RadioOffFails \/ RadioOn \/ RadioOnFails \/ Save
    PROVE  IInv'
  <1> USE ChecksAssumption
  <1>1. CASE GatewayAnswers
    BY <1>1 DEF IInv, TypeOK, CountsInv, Stands, GatewayAnswers, network, NoChecks, Fresh
  <1>2. CASE GatewaySilent
    BY <1>2 DEF IInv, TypeOK, CountsInv, Stands, GatewaySilent, network, Fresh
  <1>3. CASE FindsConnection
    BY <1>3 DEF IInv, TypeOK, CountsInv, FindsConnection, network
  <1>8. CASE FindsNone
    <2>1. /\ step' = "save" /\ dead' = 0 /\ run' = Fresh
          /\ UNCHANGED <<connected, answers, retrying, radio, down, saved, boots>>
      BY <1>8 DEF FindsNone, network
    <2>2. down = 0
      BY <1>8 DEF IInv, CountsInv, FindsNone
    <2>3. TypeOK'
      BY <2>1, NoChecksType DEF IInv, TypeOK
    <2>4. CountsInv'
      BY <2>1, <2>2 DEF CountsInv, Stands, Fresh
    <2> QED
      BY <2>3, <2>4 DEF IInv
  <1>9. CASE ConDown \/ ConDownFails
    <2>1. /\ connected' \in BOOLEAN /\ answers' \in BOOLEAN /\ (answers' => connected')
          /\ retrying' \in BOOLEAN /\ run' = Fresh /\ step' = "conUp"
          /\ UNCHANGED <<radio, dead, down, saved, boots>>
      <3>1. \/ connected' = FALSE /\ answers' = FALSE /\ retrying' \in BOOLEAN
            \/ connected' = connected /\ answers' = answers /\ retrying' = retrying
        BY <1>9 DEF ConDown, ConDownFails, network
      <3>2. /\ connected \in BOOLEAN /\ answers \in BOOLEAN /\ (answers => connected)
            /\ retrying \in BOOLEAN
        BY DEF IInv, TypeOK
      <3>3. connected' \in BOOLEAN /\ answers' \in BOOLEAN /\ retrying' \in BOOLEAN
        BY <3>1, <3>2
      <3>4. answers' => connected'
        BY <3>1, <3>2, Zenon
      <3>5. run' = Fresh /\ step' = "conUp" /\ UNCHANGED <<radio, dead, down, saved, boots>>
        BY <1>9 DEF ConDown, ConDownFails, network
      <3> QED
        BY <3>3, <3>4, <3>5
    <2>2. dead = DeadChecks /\ down = 0
      BY <1>9 DEF IInv, CountsInv, ConDown, ConDownFails
    <2>3. TypeOK'
      BY <2>1 DEF IInv, TypeOK
    <2>4. CountsInv'
      BY <2>1, <2>2 DEF CountsInv
    <2> QED
      BY <2>3, <2>4 DEF IInv
  <1>4. CASE ConUp
    <2>1. /\ connected' \in BOOLEAN /\ answers' \in BOOLEAN /\ (answers' => connected')
          /\ UNCHANGED <<retrying, radio, down, saved, boots, run>>
      <3>1. /\ connected \in BOOLEAN /\ answers \in BOOLEAN /\ (answers => connected)
        BY DEF IInv, TypeOK
      <3>2. \/ connected' = TRUE /\ answers' \in BOOLEAN
            \/ connected' = connected /\ answers' = answers
        BY <1>4 DEF ConUp
      <3>3. connected' \in BOOLEAN /\ answers' \in BOOLEAN
        BY <3>1, <3>2
      <3>4. answers' => connected'
        BY <3>1, <3>2, Zenon
      <3> QED
        BY <1>4, <3>3, <3>4 DEF ConUp
    <2>2. step' = "save" /\ dead' = 0 /\ down = 0 /\ run = Fresh
      BY <1>4 DEF IInv, CountsInv, ConUp
    <2>3. TypeOK'
      BY <2>1, <2>2, NoChecksType DEF IInv, TypeOK
    <2>4. CountsInv'
      BY <2>1, <2>2 DEF CountsInv, Stands, Fresh
    <2> QED
      BY <2>3, <2>4 DEF IInv
  <1>5. CASE RadioOff \/ RadioOffFails
    <2>1. /\ connected' \in BOOLEAN /\ answers' \in BOOLEAN /\ (answers' => connected')
          /\ radio' \in BOOLEAN /\ run' = Fresh /\ step' = "radioOn"
          /\ UNCHANGED <<retrying, dead, down, saved, boots>>
      <3>1. \/ connected' = FALSE /\ answers' = FALSE /\ radio' = FALSE
            \/ connected' = connected /\ answers' = answers /\ radio' = radio
        BY <1>5 DEF RadioOff, RadioOffFails, network
      <3>2. connected \in BOOLEAN /\ answers \in BOOLEAN /\ (answers => connected) /\ radio \in BOOLEAN
        BY DEF IInv, TypeOK
      <3>3. connected' \in BOOLEAN /\ answers' \in BOOLEAN /\ radio' \in BOOLEAN
        BY <3>1, <3>2
      <3>4. answers' => connected'
        BY <3>1, <3>2, Zenon
      <3>5. run' = Fresh /\ step' = "radioOn" /\ UNCHANGED <<retrying, dead, down, saved, boots>>
        BY <1>5 DEF RadioOff, RadioOffFails, network
      <3> QED
        BY <3>3, <3>4, <3>5
    <2>2. dead = 0 /\ down = DownChecks
      BY <1>5 DEF IInv, CountsInv, RadioOff, RadioOffFails
    <2>3. TypeOK'
      BY <2>1 DEF IInv, TypeOK
    <2>4. CountsInv'
      BY <2>1, <2>2 DEF CountsInv
    <2> QED
      BY <2>3, <2>4 DEF IInv
  <1>6. CASE RadioOn \/ RadioOnFails
    <2>1. /\ retrying' \in BOOLEAN /\ radio' \in BOOLEAN /\ step' = "save" /\ down' = 0
          /\ UNCHANGED <<connected, answers, dead, saved, boots, run>>
      <3>1. \/ radio' = TRUE /\ retrying' = (retrying \/ ~radio)
            \/ radio' = radio /\ retrying' = retrying
        BY <1>6 DEF RadioOn, RadioOnFails, network
      <3>2. retrying \in BOOLEAN /\ radio \in BOOLEAN
        BY DEF IInv, TypeOK
      <3>3. step' = "save" /\ down' = 0 /\ UNCHANGED <<connected, answers, dead, saved, boots, run>>
        BY <1>6 DEF RadioOn, RadioOnFails, network
      <3> QED
        BY <3>1, <3>2, <3>3
    <2>2. dead = 0 /\ run = Fresh
      BY <1>6 DEF IInv, CountsInv, RadioOn, RadioOnFails
    <2>3. TypeOK'
      BY <2>1, NoChecksType DEF IInv, TypeOK
    <2>4. CountsInv'
      BY <2>1, <2>2 DEF CountsInv, Stands, Fresh
    <2> QED
      BY <2>3, <2>4 DEF IInv
  <1>7. CASE Save
    BY <1>7 DEF IInv, TypeOK, CountsInv, Stands, Save, network, Fresh
  <1> QED
    BY <1>1, <1>2, <1>3, <1>4, <1>5, <1>6, <1>7, <1>8, <1>9

\* A power cut loses the state file, and with it the row.
LEMMA BootStep ==
    ASSUME IInv, Boot
    PROVE  IInv'
  <1>1. /\ connected' = FALSE /\ answers' = FALSE /\ retrying' \in BOOLEAN /\ radio' = radio
        /\ step' = "check" /\ dead' = 0 /\ down' = 0 /\ saved' = NoChecks /\ run' = Fresh
        /\ boots' \in 0 .. MaxBoots
    BY ChecksAssumption DEF IInv, TypeOK, Boot
  <1>2. TypeOK'
    BY <1>1, NoChecksType DEF IInv, TypeOK
  <1>3. CountsInv'
    BY <1>1, NoChecksType DEF CountsInv, Stands, Fresh
  <1> QED
    BY <1>2, <1>3 DEF IInv

\* IInv is inductive.
THEOREM Inductive == Spec => []IInv
  <1>1. IInv /\ UNCHANGED vars => IInv'
    BY DEF vars, network, script, IInv, TypeOK, CountsInv, Stands, Fresh
  <1>2. IInv /\ [Next]_vars => IInv'
    BY <1>1, NetworkStep, LookStep, CommandStep, BootStep DEF Next, Script
  <1> QED
    BY <1>2, InitInv, PTL DEF Spec

\* The counts stay below their limits, and only one of them is above zero.
THEOREM TypeCorrect == Spec => []TypeOK
  <1>1. IInv => TypeOK
    BY DEF IInv
  <1> QED
    BY <1>1, Inductive, PTL

\* However the network changes between two commands, the script restarts the
\* connection or switches the radio only at the end of a row of equal checks.
THEOREM ActsWhenEarned == Spec => HelpIsEarned
  <1>1. IInv => [/\ ConDown \/ ConDownFails => run = [kind |-> "dead", n |-> DeadChecks]
                 /\ RadioOff \/ RadioOffFails => run = [kind |-> "down", n |-> DownChecks]]_vars
    BY DEF IInv, CountsInv, ConDown, ConDownFails, RadioOff, RadioOffFails
  <1> QED
    BY <1>1, Inductive, PTL DEF HelpIsEarned
=============================================================================
