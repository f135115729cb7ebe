\* Two seats, three nodes, one deadline; the relay keeps its order, p1 loses messages.
SPECIFICATION Spec
CONSTANTS
  ini = ini
  p1 = p1
  p2 = p2
  Initiator = ini
  Dummy = dummy
  Spare = {}
  AddrOf <- OwnAddr
  ForeignNet = {}
  CoinValue <- RichCoins
  Signer <- SignerOk
  Timeline <- Simple1
  MaxTimestamp = 1000
  MaxClock = 1
  Ordered = TRUE
  EagerJoin = FALSE
  Faulty = {p1}
  Denomination = 100
  MinPeer = 2
  FeeRate = 1
  BaseWeight = 2
  InputWeight = 2
  OutputWeight = 2
  Node = {ini, p1, p2}
  Address = {ini, p1, p2}
  WithInput = {ini, p1, p2}
  WithOutput = {ini, p1, p2}
  Backend = {ini, p1, p2}
INVARIANT Agreement
INVARIANT FinalTxSound
INVARIANT NoPanic
CHECK_DEADLOCK FALSE
