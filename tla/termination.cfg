\* Two deadlines pass, the connection of p1 may die, any order of delivery.
SPECIFICATION FairSpec
CONSTANTS
  ini = ini
  p1 = p1
  p2 = p2
  Initiator = ini
  Dummy = dummy
  Spare = {}
  AddrOf <- OwnAddr
  ForeignNet = {}
  CoinValue <- Coins
  Signer <- SignerFaults
  Timeline <- Fixed1
  MaxTimestamp = 1000
  MaxClock = 2
  Ordered = FALSE
  EagerJoin = FALSE
  Faulty = {p1}
  Denomination = 100
  MinPeer = 2
  FeeRate = 1
  BaseWeight = 2
  InputWeight = 2
  OutputWeight = 2
  Node = {ini, p1}
  Address = {ini, p1}
  WithInput = {ini, p1}
  WithOutput = {ini, p1}
  Backend = {ini, p1}
PROPERTY Termination
CHECK_DEADLOCK FALSE
