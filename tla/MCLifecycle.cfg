CONSTANTS
  a1 = a1
  a2 = a2
  u1 = u1
  u2 = u2
  s1 = s1
  s2 = s2
  NoSeg = NoSeg
  NoProc = NoProc
  Admins = {a1, a2}
  Users = {u1, u2}
  Segs = {s1, s2}
  COUNT_MOD = 4
  MaxCrashes = 1
SPECIFICATION Spec
CHECK_DEADLOCK FALSE
INVARIANTS
  TypeOK
  CountIsUsers
  Served
  ServerIsNamed
  OneWorker
PROPERTY ExitEnds
