\* Two seats, three nodes; the process of one of two ends and is restarted once.
SPECIFICATION RestartSpec
CONSTANTS
  ini = ini
  p1 = p1
  p2 = p2
  Initiator = ini
  Dummy = dummy
  Spare = {spare}
  SavedIn <- OneProcess
  AddrOf <- OwnAddr
  ForeignNet = {}
  CoinValue <- RichCoins
  Signer <- SignerOk
  Timeline <- Simple1
  MaxTimestamp = 1000
  MaxClock = 1
  Ordered = TRUE
  EagerJoin = FALSE
  Faulty = {}
  Denomination = 100
  MinPeer = 2
  FeeRate = 1
  BaseWeight = 2
  InputWeight = 2
  OutputWeight = 2
  Node = {ini, p1, p2}
  Address = {ini, p1, p2}
  WithInput = {ini, p1, p2}
  WithOutput = {ini, p1, p2}
  Backend = {ini, p1, p2}
INVARIANT RestartTypeOK
INVARIANT PaidIfSpent
INVARIANT InvitedAgree
INVARIANT OneSignature
INVARIANT CountsAgain
CHECK_DEADLOCK FALSE
