\* The comment on NewPersistentStore, where os.Rename may fail.
SPECIFICATION Spec
CONSTANTS
  m1 = m1
  m2 = m2
  m3 = m3
  m4 = m4
  Messages = {m1, m2, m3, m4}
  NoId = NoId
  Missing = Missing
  Torn = Torn
  MaxTailMessages = 3
  Histories <- FirstStart
  RenameCanFail = TRUE
INVARIANTS AppendIsAtomic
