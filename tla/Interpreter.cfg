SPECIFICATION InterpreterSpec
CONSTANTS
  Contexts = {ctx1, ctx2}
  MaxSteps = 2
  MaxStored = 2
  MaxUses = 2
  MaxTurns = 3
INVARIANTS InterpreterTypeOK HistoryIsWellFormed ContextIsTold
PROPERTY HistoryIsKept
CHECK_DEADLOCK FALSE
