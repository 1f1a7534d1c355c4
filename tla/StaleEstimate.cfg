SPECIFICATION Spec
CONSTANTS
  Node = {a, b, c, d}
  NullAddr = null
  MAX_ESTIMATES = 2
  MAX_LIBP_NEIGHBOURS = 3
  MAX_AGE = 2
  MAX_LM_AGE = 1
  Rtmetrics <- MCRtmetrics
  TxCounts = {1, 200}
  MaxTx = 1
  AgeBound = 3
SYMMETRY MCSymmetry
PROPERTIES NewNeighbourHasNoEstimate
