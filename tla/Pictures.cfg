SPECIFICATION FairSpec
CONSTANTS
  Images = {p, q}
  p = p
  q = q
  people = people
  nature = nature
  Categories = {people, nature}
  Hits <- MCHits
  Cells = {c1}
  Requests = {r1, r2}
  Nil = Nil
INVARIANTS IInv ImagesAtTheirRow LoadedAlone NobodyForgotten
PROPERTIES SpinnerStops CellsFill
