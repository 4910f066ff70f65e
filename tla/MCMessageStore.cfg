\* Every failure, os.Rename's too, and the durable log the store implements all the same.
SPECIFICATION Spec
CONSTANTS
  m1 = m1
  m2 = m2
  m3 = m3
  m4 = m4
  Messages = {m1, m2, m3, m4}
  NoId = NoId
  Missing = Missing
  Torn = Torn
  MaxTailMessages = 3
  Histories <- AnyHistory
  RenameCanFail = TRUE
INVARIANTS TypeOK WindowIndexed AllOrNothing
PROPERTIES InsertedIsDurable ImplementsLog
