SPECIFICATION AppSpec
CONSTANTS
  s1 = s1
  s2 = s2
  r1 = r1
  r2 = r2
  d1 = d1
  d2 = d2
  Null = Null
  Sessions = {s1, s2}
  Callers = {s1, s2}
  Registrars = {r1, r2}
  Delegates = {d1, d2}
SYMMETRY Symmetry
INVARIANTS
  AppTypeOK
  HandlerLive
  AllOrNothing
  OnlyEntriesLeak
  ErrorOwn
CHECK_DEADLOCK FALSE
