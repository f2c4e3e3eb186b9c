SPECIFICATION FairSpec
CONSTANTS
  f1 = f1
  f2 = f2
  f3 = f3
  d1 = d1
  Fetch = {f1, f2, f3}
  Domain = {d1}
  Browser = Browser
  MaxConcurrent <- TwoSlots
  Delay <- Spaced
  RetryAfter = {2}
  Retries = 2
  Limit = 2
  Window = 1
  Unopened = Unopened
INVARIANTS SlotsMatchHolders BurstBounded
PROPERTIES FetchesEnd
