SPECIFICATION FairSpec
CONSTANTS
  Contexts = {ctx1}
  MaxSteps = 1
  MaxStored = 2
  MaxUses = 1
  MaxTurns = 1
  Conns = {c1, c2}
  Talker = c1
  Kinds = {"call", "notification", "blank", "text", "long"}
  Burst = 1
  MaxLine = 2
  MaxPipe = 1
INVARIANTS InStep DebtIsBounded
PROPERTIES KeepsPace RepliesCome
