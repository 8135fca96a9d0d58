SPECIFICATION WriterSpec
CONSTANTS
  dev = dev  u1 = u1  j1 = j1  t1 = t1  t2 = t2
  Users = {u1}
  Slots = {dev}
  Owner <- OneOwner
  Journals = {j1}
  JournalOwner <- OneJournalOwner
  Ids = {1, 2}
  SlotOf <- OneSlotOf
  Bodies <- BodiesTextLink
  BadContents <- Links
  TooLarge = {}
  Tags = {}
  Refused = {}
  Untagged = Untagged
  NULL = NULL
  OrphanAfter = 9
  Stamps = {0, 1, 2}
  Delays = {2}
  MaxTime = 4
  Tabs = {t1}
  Device = dev
  Journal = j1
  FinishAfter = 2
  MaySignOut = TRUE
  MayPaste = TRUE
  MayLeave = TRUE
  Net = "prompt"
  MaxCalls = 2
INVARIANTS FinishedIsKept
CHECK_DEADLOCK FALSE
