\* Two logs, three days, two lines: every order of writes, compression, writeback,
\* power loss and clock setting, and under fairness what must come of them.
SPECIFICATION Spec
CONSTANTS
    wire = wire  tcp = tcp  l1 = l1  l2 = l2
    Lines <- TwoLines
    Logs <- AllLogs
    HoldOpen <- WireOnly
    LastDay = 3
INVARIANTS Inductive ReadBack NoEmptyGzWithoutSource SourceGoneOnlyWhenOnCard ExitZeroMeansDone
PROPERTIES FinishedStaysFinished DurableSafety FinishedDaysCompressed DurableLiveness
