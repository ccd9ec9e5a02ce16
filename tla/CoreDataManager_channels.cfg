SPECIFICATION Spec
CONSTANTS
  v = v
  w = w
  m1 = m1
  m2 = m2
  m3 = m3
  m4 = m4
  Channels = {1, 2, 3}
  Values = {v, w, Unnamed}
  Unnamed = Unnamed
  None = None
  Messages = {}
  WithDate <- MCWithDate
  Created <- MCCreated
  Tasks = {t1, t2}
SYMMETRY Symmetry
PROPERTIES ConvergesAlone IdentifiersLostByOverlapOnly
