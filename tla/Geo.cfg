SPECIFICATION Spec
CONSTANTS
  r1 = r1  r2 = r2  r3 = r3  names = names  places = places
  Requests = {r1, r2, r3}
  Wants <- NamesAndPlaces
  MaxInflight = 2
  Gap = 2
  MaxDelay = 3
  MaxBack = 2
INVARIANTS SlotsComeBack ChainIsBounded
PROPERTIES CallsAreSpaced AllAreAnswered
