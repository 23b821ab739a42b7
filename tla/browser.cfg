SPECIFICATION FairSpec
CONSTANTS
  Tokens = {t1,t2}
  None = None
  MaxReloads = 1
  Tabs = {b1, b2}
  Calls = {c1,c2}
PROPERTY LeftForGood
PROPERTY SpoiltIsForgotten
