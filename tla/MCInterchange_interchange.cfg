CONSTANTS
  JS_MAX_SAFE_U64 = 127
  U64_MAX = 255
  U32_MAX = 63
  U16_MAX = 15
  MAX_HARDENED = 32
  HASH_LEN = 2
  SUBNETWORK_LEN = 2
  MAX_INPUTS = 3
  MAX_OUTPUTS = 3
  MAX_PAYLOAD = 3
  MAX_SCRIPT = 6
  MAX_REDEEM = 8
  REDEEM_POOL = 8
  MAX_SIGS = 3
  MAX_REGIONS = 4
  MAX_MULTISIG_KEYS = 3
  CovenantId <- CovenantIdOf
  EXTENDED_SCRIPT_LENGTH = 4
  MAX_POSITION = 1
  Documents <- EveryDocument
  Network = 1
  Keys = {1, 2}
  MaxRewrites = 1
  MaxEdits = 1
  Editable <- EditedDocuments
  Noise <- NoiseTokens
  Fragile <- Rich
SPECIFICATION Spec
INVARIANTS
  OneMeaning
  WireIsCanonical
CHECK_DEADLOCK FALSE
