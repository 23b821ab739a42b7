SPECIFICATION FairSpec
CONSTANTS
  Loads = {l1, l2}
  Posts = {p1, p2}
  Codes = {a}
  NoCode = NoCode
  MaxVersion = 2
  MaxPreparing = 1
INVARIANT NoStuckSpinner
INVARIANT CarriedOutOnce
PROPERTY ClosedWhenDone
PROPERTY EventuallyShown
