SPECIFICATION Spec
CONSTANTS
  KeyBytes <- TestKeyBytes
  PublicKeys <- TestPublicKeys
  keyLen <- TestKeyLen
  CapabilityLists <- TestLists
  Inputs <- TestInputs
  Times = {0, 1, 2, 3}
  SignatureLens = {64, 129}
  MAX_CERT_LIFETIME_SECS = 2
  MAX_CERT_CAPABILITIES = 2
  MAX_PUBLIC_KEY_BYTES = 256
  MAX_SIGNATURE_BYTES = 128
  MAX_CERTIFICATE_WIRE_BYTES = 2048
  MaxSigned = 2
  MaxChanges = 1
INVARIANTS AcceptedIsAuthentic CapabilityAnswersAreSigned AgesOut TemporalVerdictComesLast SignedVerifies EncodedDecodes OneEncoding
CHECK_DEADLOCK FALSE
