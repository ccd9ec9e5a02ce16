SPECIFICATION FairSpec
CONSTANTS
  v = v
  w = w
  m1 = m1
  m2 = m2
  m3 = m3
  m4 = m4
  Channels = {1, 2}
  Values = {w, Unnamed}
  Unnamed = Unnamed
  None = None
  Messages = {m2, m3, m4}
  WithDate <- MCWithDate
  Created <- MCCreated
  Tasks = {t1, t2}
INVARIANTS NoDuplicateMessages NoOrphanMessages
PROPERTIES ImplementsReplica MessagesCompleteAlone TasksShorten TasksFinish
