\* Every list, read page after page while rows change.
SPECIFICATION WalkSpec
CONSTANTS
  Kind = {"fanout", "members", "groups", "requests", "mentions", "announcements", "messages", "search"}
  Id = {1, 2, 3, 4, 5}
  Group = {1, 2}
  Time = {1, 2}
  PageLimit = 2
  MaxChanges = 2
INVARIANT WalkTypeOK
INVARIANT WalkIsComplete
INVARIANT ListLosesOnePerPage
\* The walk ends with its last page.
CHECK_DEADLOCK FALSE
