SPECIFICATION MCSpec
CONSTANTS
  k1 = k1
  k2 = k2
  t1 = t1
  t2 = t2
  a1 = a1
  a2 = a2
  Keys = {k1, k2}
  InitialKeys = {k1}
  Threads = {t1, t2}
  Admins = {a1, a2}
  Limits = {0, 1, 2}
  Window = 2
  MaxDelay = 1
  EnvMain = FALSE
  MaxTime = 4
  MaxUses = 3
  MaxFaults = 2
  ag = ag
  r1 = r1
  r2 = r2
  i1 = i1
  i2 = i2
  Agents = {ag}
  Asks = {r1, r2}
  IdempotencyKeys = {i1, i2}
  Rpm = 2
  DailyRequests = 3
  DailySubmissions = 1
  Minute = 1
  Day = 2
  Lifetime = 3
  MaxTicks = 3
  MaxCases = 2
  MaxRequests = 4
  MaxSlips = 1
INVARIANTS LockoutAlwaysWarned
CHECK_DEADLOCK FALSE
