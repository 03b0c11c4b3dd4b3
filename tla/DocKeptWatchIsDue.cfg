\* README.md:49 on Beat and a kept watch
SPECIFICATION Spec
CONSTANTS
  Web = {w1}
  Workers = {}
  Defs = {"ask", "watch"}
  Requests = {"ask", "work", "keep", "confirm", "edit", "pause", "resume"}
  Crashes = FALSE
  MaxVersion = 2
  MaxQueue = 0
SYMMETRY Symmetry
INVARIANT KeptWatchIsDue
