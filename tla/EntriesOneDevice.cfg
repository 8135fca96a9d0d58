SPECIFICATION Spec
CONSTANTS
  s1 = s1  u1 = u1  j1 = j1  e1 = e1  e2 = e2  tag1 = tag1  tag2 = tag2  bad = bad
  Users = {u1}
  Slots = {s1}
  Journals = {j1}
  Ids = {e1, e2}
  Owner <- OneOwner
  JournalOwner <- OneJournalOwner
  SlotOf <- OneSlotOf
  Bodies <- TextBodies
  BadContents = {}
  Tags = {tag1, tag2}
  Untagged = Untagged
  Refused = {bad}
  NULL = NULL
  OrphanAfter = 2
  Stamps = {0, 1}
  Delays = {1}
  MaxTime = 2
INVARIANTS TypeOK OwedIsKept
PROPERTIES OwedIsSettled IsJournal
