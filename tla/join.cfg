\* A peer that uses join_coinjoin.
SPECIFICATION Spec
CONSTANTS
  Text <- Texts
  MaxSent = 3
  MaxEvents = 2
  PongIntervals = 2
  ParamOrder <- TwoParams
  Function = {"join_coinjoin"}
  Disturbed = {}
  Runner = {1, 2}
  RelayUrl = {"first", "second"}
  FirstRelay = "first"
  Network = {"mainnet", "regtest"}
  OwnNetwork = "regtest"
  Kind <- Sent
INVARIANT PeerNeverPosts
CHECK_DEADLOCK FALSE
