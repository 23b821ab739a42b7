SPECIFICATION FairSpec
CONSTANTS
  c1 = c1  d1 = d1  g1 = g1  w1 = w1  w2 = w2
  Confirmations = {c1}
  Directives = {d1}
  Gates = {g1}
  DirectiveOf <- MCDirectiveOf
  GateOf <- MCGateOf
  Workers = {w1, w2}
  Nobody = Nobody
  MaxVersion = 2
INVARIANT NoWaitCycle
INVARIANT SomeoneProceeds
PROPERTY ImplementsAtomicStore
PROPERTY EveryTransactionEnds
CHECK_DEADLOCK FALSE
