SPECIFICATION InputSpec
CONSTANTS
  MAX_PAYLOAD_LEN = 1
  Alphabet = {0, 1, 2}
  MaxInput = 10
INVARIANTS EnvelopeIsCanonical OnePrefixDecodes
PROPERTIES VerdictIsFinal
CHECK_DEADLOCK FALSE
