SPECIFICATION Spec
CONSTANTS
  c1 = c1
  c2 = c2
  c3 = c3
  c4 = c4
  bbs = bbs
  shell = shell
  NoSession = NoSession
  NoService = NoService
  Sessions = {c1, c2, c3}
  Services = {bbs, shell}
  Menu = {bbs}
  Via <- BBSRoutes
  SingleUse = {shell}
  MaxForced = 1
SYMMETRY SessionSymmetry
INVARIANT HoldsMatchSessions
INVARIANT RouteAuthorized
INVARIANT HandoffPending
CHECK_DEADLOCK FALSE
