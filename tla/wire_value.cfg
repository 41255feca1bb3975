SPECIFICATION BuildSpec
CONSTANTS
  LenWidth = 10
  NONCE_LEN = 32
  DOMAIN_LEN = 16
  NODE_ID_LEN = 34
  BINDING_LEN = 32
  MAX_SIGNATURE_BYTES = 128
  MAX_CERTIFICATE_WIRE_BYTES = 2048
  MAX_PROOF_SIGNATURES = 4
  MAX_HELLO_ALGS = 64
  MAX_AUTH_INIT_BYTES = 4096
  MAX_AUTH_RESPONSE_BYTES = 4096
  MAX_AUTH_CONFIRM_BYTES = 1024
  MAX_AUTH_TRANSCRIPT_BYTES = 8192
  AUTH_TRANSCRIPT_DOMAIN_V1 <- Domain
  Settings <- MCSettings
INVARIANTS SentIsReceived FieldBoundsSuffice SigningBytesAreUnambiguous
CHECK_DEADLOCK FALSE
