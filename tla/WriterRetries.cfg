SPECIFICATION FairWriterSpec
CONSTANTS
  dev = dev  u1 = u1  j1 = j1  t1 = t1  t2 = t2
  Users = {u1}
  Slots = {dev}
  Owner <- OneOwner
  Journals = {j1}
  JournalOwner <- OneJournalOwner
  Ids = {1, 2}
  SlotOf <- OneSlotOf
  Bodies <- BodiesOneLink
  BadContents <- Links
  TooLarge = {}
  Tags = {}
  Refused = {}
  Untagged = Untagged
  NULL = NULL
  OrphanAfter = 9
  Stamps = {0, 1}
  Delays = {1}
  MaxTime = 2
  Tabs = {t1}
  Device = dev
  Journal = j1
  FinishAfter = 1
  MaySignOut = FALSE
  MayPaste = FALSE
  MayLeave = FALSE
  Net = "lossy"
  MaxCalls = 1
INVARIANT FinishedIsSafe
PROPERTY FinishedReachesJournal
