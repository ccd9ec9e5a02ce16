SPECIFICATION ClientSpec
CONSTANTS
  Keys = {idKey, themeKey, nameKey, imageKey}
  idKey = idKey
  themeKey = themeKey
  textKeys = {nameKey}
  imageKey = imageKey
  Data = {a, b}
  Nil = Nil
  Clients = {"identity", "theme", "profile", "none"}
  Jobs = {j1, j2}
  Backlog = 0
SYMMETRY Symmetry
INVARIANTS DataSavedMeansSaved
