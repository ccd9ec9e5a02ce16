SPECIFICATION ChatSpec
CONSTANTS
  v = v
  w = w
  m1 = m1
  m2 = m2
  m3 = m3
  Channels = {1, 2}
  Values = {w}
  Unnamed = Unnamed
  None = None
  Messages = {m1}
  WithDate <- MCWithDate
  Created <- MCCreated
  Tasks = {t1, t2}
  List = List
SYMMETRY Symmetry
INVARIANTS ChatInv OnlyScreenListens MessagesStayInTheirChannel
