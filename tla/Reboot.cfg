SPECIFICATION Spec
CONSTANTS
  s = s
  r = r
  a = a
  Node = {s, r, a}
  NullAddr = null
  MAX_ESTIMATES = 1
  MAX_LIBP_NEIGHBOURS = 2
  MAX_AGE = 2
  MAX_LM_AGE = 1
  MAX_HOPLIM = 3
  MAX_REXMITS = 31
  PROACTIVE_PROBING_REXMITS = 2
  MAX_SENDING_QUEUE = 3
  MIN_AVAILABLE_QUEUE_ENTRIES = 2
  NUM_RECENT_PACKETS = 2
  Sink = s
  Setups <- RebootSetups
  Packets <- FirstPackets
  MaxCopies = 2
INVARIANTS
  AcksAreHonest
