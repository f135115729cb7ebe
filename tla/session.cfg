\* Every function; the relay closes, the socket fills up and dies.
SPECIFICATION FairSpec
CONSTANTS
  Text <- Texts
  MaxSent = 3
  MaxEvents = 2
  PongIntervals = 2
  ParamOrder <- TwoParams
  Function = {"client", "list_pools", "initiate_coinjoin", "peer", "joinstr"}
  Disturbed = {"client", "list_pools", "initiate_coinjoin", "peer"}
  Runner = {1, 2}
  RelayUrl = {"first", "second"}
  FirstRelay = "first"
  Network = {"mainnet", "regtest"}
  OwnNetwork = "regtest"
  Kind <- Sent
INVARIANT TypeOK
INVARIANT Flushed
INVARIANT NoFalseAlarm
INVARIANT OnePost
INVARIANT PayloadCurrent
PROPERTY ImplementsChannel
PROPERTY OnePool
PROPERTY PoolPublished
PROPERTY SilentDeathReported
CHECK_DEADLOCK FALSE
