SPECIFICATION FairSpec
CONSTANTS
  c1 = c1
  c2 = c2
  c3 = c3
  c4 = c4
  bbs = bbs
  shell = shell
  NoSession = NoSession
  NoService = NoService
  Sessions = {c1, c2, c3}
  Services = {bbs}
  Menu = {bbs}
  Via <- BBSAlone
  SingleUse = {}
  MaxForced = 1
PROPERTY OpenEnds
PROPERTY ControlReturns
CHECK_DEADLOCK FALSE
