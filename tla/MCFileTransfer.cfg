\* Two fetches of one file and two CancelFetch calls, in any order.
SPECIFICATION FairSpec
CONSTANTS
  f1 = f1
  f2 = f2
  c1 = c1
  c2 = c2
  NoFetch = NoFetch
  Fetches = {f1, f2}
  Cancels = {c1, c2}
INVARIANTS TypeOK OneFetch NothingLeftBehind NoStaleDownload NoStalePartial DoneHasFile
PROPERTIES FetchEnds
CHECK_DEADLOCK FALSE
