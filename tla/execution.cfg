SPECIFICATION ExecutionSpec
CONSTANTS
  g1 = g1  d1 = d1  d2 = d2  r1 = r1  c1 = c1  c2 = c2
  f1 = f1  f2 = f2  w1 = w1  w2 = w2  alice = alice  bob = bob  BOB = BOB
  NoRow = NoRow
  NoUser = NoUser
  Reservoirs = {r1}
  Gates = {g1}
  Directives = {d1, d2}
  Confirmations = {c1, c2}
  Facilities = {f1}
  Users = {alice, bob, BOB}
  Fold <- MCFold
  Principals <- OperatorAndReviewer
  Goals = {"open", "closed"}
  Services = {"directives", "gates", "confirmations"}
  Workers = {w1, w2}
  MaxVersion = 3
  Lag = 0
  Lead = 0
SYMMETRY ReceiptSymmetry
CHECK_DEADLOCK FALSE
INVARIANT ReceiptAgreement
PROPERTY GateFollowsGraph
PROPERTY EvidenceMatchesStep
PROPERTY DirectiveFollowsGraph
PROPERTY GateFollowsDirective
