SPECIFICATION FairScreenSpec
CONSTANTS
  Keys = {idKey, themeKey, imageKey}
  idKey = idKey
  themeKey = themeKey
  textKeys = {}
  imageKey = imageKey
  Data = {a}
  Nil = Nil
  Clients = {"identity", "theme", "profile", "none"}
  Jobs = {j1, j2}
  Backlog = 0
PROPERTIES SaveAnswered AnswersKept
