SPECIFICATION LiveSpec
CONSTANTS
  o1 = o1
  o2 = o2
  w1 = w1
  w2 = w2
  alice = alice
  bob = bob
  None = None
  Test = Test
  Order = {o1}
  Loops = {w1}
  Threads = {w2}
  SellerOf <- MCSellerOf
  BuyerOf <- MCBuyerOf
  LargeOrder = {o1}
  NewSellerMaxSales = 0
  RapidBuyerLimit = 2
  Handlers = {"create", "verify", "webhook", "release", "refund", "test_confirm"}
INVARIANT EntitledBeforeServed
INVARIANT MoneyTrail
PROPERTY RevocationIsFinal
PROPERTY EveryPaymentDelivers
