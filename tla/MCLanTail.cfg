SPECIFICATION FairSpec
CONSTANTS
  x = x
  y = y
  z = z
  ack = ack
  Nodes = {1, 2}
  Lines = {x, z}
  Acks = {}
  Asks = {}
  Author <- ByNode
  AckFor <- ForX
  Major <- OneMajor
  Dialable <- OneWay
  MaxTail = 2
  Recent = 1
  Failing = {"silence"}
  MaxUpsets = 1
PROPERTIES JoinerHasTail
