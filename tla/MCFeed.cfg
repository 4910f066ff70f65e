\* An engine, a tab it can reach and a tab that only the other tab can; a text of the
\* engine and one of the far tab, of the same millisecond, and a file of the near one;
\* windows of one; every disk and every localStorage may fail, every send may fail on a
\* channel that stays open, and one channel is lost or one participant starts anew.
SPECIFICATION Spec
CONSTANTS
  e = e
  t = t
  u = u
  mE = mE
  mU = mU
  gT = gT
  Engines = {e}
  Tabs = {t, u}
  Texts = {mE, mU}
  Files = {gT}
  Author <- Authors
  Stamp <- Stamps
  Reachable <- Line
  MaxTail = 1
  Chunk = 1
  Unread = Unread
  Failing = {e, t, u}
  Faulty = {e, t, u}
  TooLong = {}
  MaxUpsets = 1
INVARIANTS TypeOK Delivered TabShowsNewest TabsKeepNewest
CHECK_DEADLOCK FALSE
