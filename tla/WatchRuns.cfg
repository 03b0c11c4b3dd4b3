\* Requests, the runs of a worker and Beat
SPECIFICATION Spec
CONSTANTS
  Web = {w1}
  Workers = {k1}
  Defs = {"ask", "watch", "brief"}
  Requests = {"ask", "work", "keep", "confirm", "edit", "pause", "resume", "toggle", "run"}
  Crashes = TRUE
  MaxVersion = 2
  MaxQueue = 1
SYMMETRY Symmetry
INVARIANT AssignmentMatchesLens
