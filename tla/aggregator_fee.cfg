\* Weight of the 2-in 2-out transaction: 10. Fee 30 = 3 sat per weight unit.
SPECIFICATION Spec
CONSTANTS
  Address = {a1, a2}
  Denomination = 100
  MinPeer = 2
  FeeRate = 3
  BaseWeight = 2
  InputWeight = 2
  OutputWeight = 2
  TrueValue <- MCTrueValue
  Input <- MCInput
  MaxErrs = 5
INVARIANT FeeRateIsPerVbyte
CHECK_DEADLOCK FALSE
