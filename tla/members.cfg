\* Two concurrent requests of a small group.
SPECIFICATION Spec
CONSTANTS
  owner = owner  u1 = u1  u2 = u2  u3 = u3  p1 = p1  p2 = p2
  User = {owner, u1, u2, u3}
  Owner = owner
  Mode = {"direct", "approval"}
  Limit = 2
  Process = {p1, p2}
  MaxOps = 5
  MaxMessages = 2
  MaxFaults = 1
SYMMETRY Symmetry
INVARIANT TypeOK
INVARIANT OvershootBounded
INVARIANT DirectAdminsAppointed
INVARIANT RequestDecidedOnce
INVARIANT CountTracksMembers
INVARIANT MentionsFollowRead
INVARIANT OnePinned
CHECK_DEADLOCK FALSE
