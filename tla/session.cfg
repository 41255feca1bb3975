SPECIFICATION FairSpec
CONSTANTS
  Client = Client
  Server = Server
  Adverts <- MCAdverts
  NewCodes <- MCNewCodes
  LenWidth = 10
  NONCE_LEN = 1
  DOMAIN_LEN = 1
  NODE_ID_LEN = 1
  BINDING_LEN = 1
  MAX_SIGNATURE_BYTES = 1
  MAX_CERTIFICATE_WIRE_BYTES = 1
  MAX_PROOF_SIGNATURES = 1
  MAX_HELLO_ALGS = 3
  MAX_AUTH_INIT_BYTES = 7
  MAX_AUTH_RESPONSE_BYTES = 8
  MAX_AUTH_CONFIRM_BYTES = 6
  MAX_AUTH_TRANSCRIPT_BYTES = 20
  AUTH_TRANSCRIPT_DOMAIN_V1 <- MCDomain
INVARIANTS EstablishedIsConfidential AnswerIsTheKnownPart
PROPERTIES EstablishmentEnds HelloIsHeard
CHECK_DEADLOCK FALSE
