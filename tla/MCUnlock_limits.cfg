SPECIFICATION UnlockSpec
CHECK_DEADLOCK FALSE
CONSTANTS
  ka = ka
  kb = kb
  kc = kc
  t1 = t1
  t2 = t2
  NoKey = NoKey
  Keys = {ka, kb, kc}
  Txs = {t1, t2}
  FirstTx = t1
  Nonces = {1, 2}
  MAX_SIGS = 3
  MaxDocs = 3
  MaxEdits = 1
  Templates <- MCTemplates
  Devices <- MCDevices
  Contracts <- MCContracts
  Parties = {"owner", "other", "third", "fourth"}
  Withdrawals = {1000000, 1000001, 15000000, 15000001, 40000000}
  Wallets = {1000000, 9000000}
  NetworkFee = 1000000
  Journals <- MCJournals
  Pieces <- MCPieces
  Flaws = {"none", "unsigned", "both_parities", "forged", "no_selectors", "other_branch",
           "other_level", "short_mask", "no_fields", "field_missing", "field_text", "mixed",
           "unsupported", "global_field", "global_branch", "other_redeem", "boundary",
           "proof_flipped", "both_flipped", "level_added", "level_missing", "sibling",
           "destination", "direction_two", "as_decimal", "as_padded"}
  CROWDFUND_MAX_TX_INPUTS = 3
  MaxFinalized = 1
  MaxPieces = 6
INVARIANT StatedLimitsHold
