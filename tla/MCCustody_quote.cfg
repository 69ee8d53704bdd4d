CONSTANTS
  HARDENED_BIT = 1000
  COIN = 11
  MAX_SCRIPT_KEYS = 4
  Underivable <- MCUnderivable
  MAX_MULTISIG_KEYS = 3
  MAX_MULTISIG_WALLETS = 2
  MAX_SIGS_PER_INPUT = 3
  MAX_SEED_SLOTS = 3
  ADDR_SCAN_DEPTH = 2
  SIGN_MATCH_DEPTH = 4
  OWNERSHIP_SCAN_DEPTH = 2
  Scenes <- MCScenes
  Outsider = 9
  IMPORT_DEPTH = 2
  MAX_DISCOVERY_INDEX = 4
  BRANCH_DEPTH = 2
  MAX_HOST_KEYS = 4
  MAX_SOURCES = 2
  EXTENSION = 3
  MAX_ADDRESSES = 5
  MAX_COINS = 3
  MAX_SPENDS = 1
  MAX_BASE58_BYTES = 8
  MAX_BASE58_CHARS = 11
  BIP39_PBKDF2_ROUNDS = 4
  U16_MAX = 7
  BLOCK_SIZE = 16
  SALT_ROOM = 3
  BIP85_PURPOSE = 836
  MAX_PASSWORD_SIZE = 2
  Rooms <- MCRooms
  Wallets <- AllWallets
  Amounts <- SomeAmounts
  Fees = {0, 50000}
  Rates <- SomeRates
  Payloads = {0, 3000}
  Picks <- SomePicks
  Caps = {2000000000, 209715}
  Returns = {1000000}
  NCHANGE = 1
  SCAN_DEPTH = 1
  MaxSpends = 2
SPECIFICATION CustodySpec
CHECK_DEADLOCK FALSE
INVARIANT QuoteIsLargest
