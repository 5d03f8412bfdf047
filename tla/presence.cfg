\* Two connections of a user on a node that may be lost and come back.
SPECIFICATION Spec
CONSTANTS
  c1 = c1  c2 = c2  u1 = u1  s1 = s1
  User = {u1}
  Conn = {c1, c2}
  Server = {s1}
  UserOf <- MCUserOf
  ServerOf <- MCServerOf
  MaxFaults = 3
INVARIANT RoutedUnlessDoubted
PROPERTY RouteComesBack
PROPERTY EndedIsForgotten
CHECK_DEADLOCK FALSE
