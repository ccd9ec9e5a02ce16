SPECIFICATION StorageSpec
CONSTANTS
  Keys = {name, image}
  Data = {a}
  Nil = Nil
  Clients = {client}
  Jobs = {j1, j2, j3}
  Backlog = 0
SYMMETRY Symmetry
INVARIANTS SavedAlone
PROPERTIES JobsShorten
