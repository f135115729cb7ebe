\* A standalone coordinator and two peers in a pool of two.
SPECIFICATION FairSpec
CONSTANTS
  ini = ini
  p1 = p1
  p2 = p2
  Initiator = ini
  Dummy = dummy
  Spare = {}
  AddrOf <- OwnAddr
  ForeignNet = {}
  CoinValue <- Coins
  Signer <- SignerOk
  Timeline <- Simple1
  MaxTimestamp = 1000
  MaxClock = 0
  Ordered = TRUE
  EagerJoin = FALSE
  Faulty = {}
  Denomination = 100
  MinPeer = 2
  FeeRate = 1
  BaseWeight = 2
  InputWeight = 2
  OutputWeight = 2
  Node = {ini, p1, p2}
  Address = {ini, p1, p2}
  WithInput = {p1, p2}
  WithOutput = {p1, p2}
  Backend = {ini, p1, p2}
PROPERTY PeersComplete
CHECK_DEADLOCK FALSE
