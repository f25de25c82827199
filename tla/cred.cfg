SPECIFICATION CredSpec
CONSTANTS
  Refresher = {r1, r2}
  FirstFiles = {"old"}
  Poll = {p1, p2}
  Logins = 2
  OldLast = TRUE
  MaxAuths = 2
  MaxIssue = 1
  MaxBoots = 1
INVARIANTS
  OneCurrentRefresh
  FileIsCurrent
  FileStaysGone
PROPERTIES
  SiteKept
SYMMETRY Symmetry
CHECK_DEADLOCK FALSE
