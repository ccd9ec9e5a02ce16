SPECIFICATION ReliableChatSpec
CONSTANTS
  v = v
  w = w
  m1 = m1
  m2 = m2
  m3 = m3
  Channels = {1}
  Values = {w}
  Unnamed = Unnamed
  None = None
  Messages = {m1, m2}
  WithDate <- MCWithDate
  Created <- MCCreated
  Tasks = {t1,t2}
  List = List
INVARIANTS ScreensAwait
PROPERTIES ConversationShowsDatabase ListShowsDatabase
