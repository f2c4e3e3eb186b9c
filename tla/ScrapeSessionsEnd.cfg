SPECIFICATION FairSpec
CONSTANTS
  w1 = w1
  w2 = w2
  a1 = a1
  q1 = q1
  m1 = m1
  p1 = p1
  p2 = p2
  s1 = s1
  Source = {s1}
  Sweepers = {w1}
  RunAllThreads = {a1}
  Requests = {q1}
  Schedulers = {}
  Page = {p1}
  NoHash = NoHash
  Never = Never
  NoOne = NoOne
  PauseAfter = 1
  Cooldown = 1
  CounterBound = 1
PROPERTIES SessionsEnd ImplementsFairLease
