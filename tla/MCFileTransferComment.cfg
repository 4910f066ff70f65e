\* The comment in CancelFetch: one fetch, one CancelFetch.
SPECIFICATION Spec
CONSTANTS
  f1 = f1
  f2 = f2
  c1 = c1
  c2 = c2
  NoFetch = NoFetch
  Fetches = {f1}
  Cancels = {c1}
INVARIANTS NoSuccessAfterCancel
CHECK_DEADLOCK FALSE
