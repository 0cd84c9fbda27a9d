CONSTANTS
  match = match
  seeding = seeding
  m = m
  r1 = r1
  Scores = {match, seeding}
  Slots = {m, r1}
  slot <- MCSlot
  Scheduled = {match}
  Seeding = {r1}
  Tabs = {t1, t2}
  Users = {u1, u2}
  juror = u1
  NoUser = NoUser
  NoEntry = NoEntry
  MaxTroubles = 2
SPECIFICATION Spec
INVARIANTS
  ConflictsAreFound
CHECK_DEADLOCK FALSE
