SPECIFICATION FairSpec
CONSTANTS
  Targets = {t1, t2}
  m1 = m1
  m2 = m2
  m3 = m3
  l1 = l1
  l2 = l2
  Metrics = {m1, m2, m3}
  Leaves = {l1, l2}
  PathsOf <- MCPathsOf
  Configs <- MCConfigs
  Described = {m1, m2}
  MaxChanges = 2
INVARIANTS TypeOK NoSendAfterReturn SampleOfItsTarget ScrapeIsComplete
PROPERTIES ScrapeEnds
CHECK_DEADLOCK FALSE
