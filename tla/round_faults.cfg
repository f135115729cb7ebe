\* Two nodes; the connection, the writes and the backend of p1 fail at any moment; any order of delivery.
SPECIFICATION Spec
CONSTANTS
  ini = ini
  p1 = p1
  p2 = p2
  Initiator = ini
  Dummy = dummy
  Spare = {}
  AddrOf <- OwnAddr
  ForeignNet = {}
  CoinValue <- RichCoins
  Signer <- SignerOk
  Timeline <- Timeout1
  MaxTimestamp = 1000
  MaxClock = 3
  Ordered = FALSE
  EagerJoin = FALSE
  Faulty = {p1}
  Denomination = 100
  MinPeer = 2
  FeeRate = 1
  BaseWeight = 2
  InputWeight = 2
  OutputWeight = 2
  Node = {ini, p1}
  Address = {ini, p1}
  WithInput = {ini, p1}
  WithOutput = {ini, p1}
  Backend = {ini, p1}
INVARIANT TypeOK
INVARIANT MessagesInv
INVARIANT FinalTxSound
INVARIANT OrderInv
CHECK_DEADLOCK FALSE
