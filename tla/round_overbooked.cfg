\* Two seats: both peers may join before the dummy Join is stored.
SPECIFICATION Spec
CONSTANTS
  ini = ini
  p1 = p1
  p2 = p2
  Initiator = ini
  Dummy = dummy
  Spare = {}
  AddrOf <- OwnAddr
  ForeignNet = {}
  CoinValue <- RichCoins
  Signer <- SignerOk
  Timeline <- Simple1
  MaxTimestamp = 1000
  MaxClock = 0
  Ordered = TRUE
  EagerJoin = TRUE
  Faulty = {}
  Denomination = 100
  MinPeer = 2
  FeeRate = 1
  BaseWeight = 2
  InputWeight = 2
  OutputWeight = 2
  Node = {ini, p1, p2}
  Address = {ini, p1, p2}
  WithInput = {ini, p1, p2}
  WithOutput = {ini, p1, p2}
  Backend = {ini, p1, p2}
SYMMETRY Joiners
INVARIANT NodesInv
INVARIANT PaidIfSpent
INVARIANT AtMostOneTx
INVARIANT SignaturesInv
CHECK_DEADLOCK FALSE
