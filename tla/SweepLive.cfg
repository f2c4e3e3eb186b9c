SPECIFICATION SweepsSafe
CONSTANTS
  i1 = i1
  i2 = i2
  i3 = i3
  Item = {i1, i2}
  MaxWorkers = 1
  NoWrite = NoWrite
  Sources = {1, 2}
  Tier <- MCTier
  Cadence <- MCCadence
  Jitter <- MCJitter
  Threshold = 2
  HoursPerFail = 10
  MaxBackoff = 24
  Cooldown = 24
  NightHour = 1
  GlobalCap = 2
  TierCap <- MCTierCap
  Step = 12
  Day = 24
  LongAgo = 60
  MaxReboots = 1
  Alerts = {1, 2, 3}
  Emails = {1}
  Subject <- MCSubject
  Requests = {r1, r2}
  Ops = {"patch", "send", "delete", "bulk", "create", "generate"}
  PageSize = 2
  MaxCrashes = 1
  PartNames = {"task"}
INVARIANTS LiveSweepNotFailed
