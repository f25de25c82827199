SPECIFICATION ErrandsSpec
CONSTANTS
  Growth = {"g"}
  Shares = {"share"}
  Viewed = {"chat"}
  Once = {}
  SchoolRuns = {"scheduler"}
  Polls = 2
  MaxDays = 1
INVARIANTS
  CaughtUp
  DrawsItsOwn
VIEW ErrandsView
