SPECIFICATION FairSpec
CONSTANTS
  x = x
  y = y
  z = z
  ack = ack
  Nodes = {1, 2}
  Lines = {x, y}
  Acks = {ack}
  Asks = {x}
  Author <- ByNode
  AckFor <- ForX
  Major <- Upgrade
  Dialable <- OneWay
  MaxTail = 2
  Recent = 2
  Failing = {"stop", "silence", "break", "scan"}
  MaxUpsets = 1
INVARIANTS TypeOK OneVersion
PROPERTIES TablesSettle BacklogArrives
