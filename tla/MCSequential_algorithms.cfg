CONSTANTS
  Base = 4
  SAVE_SIZE_MONST = 2
  t1 = t1
  t2 = t2
  Tags = {t1, t2}
  Olds <- SmallFiles
  Crc <- SumCrc
  MaxLen = 4
  MaxTags = 2
  MaxHints = 1
  Overrun = FALSE
  CrcBits = 8
  MaxCommands = 2
  goods = goods
  box = box
  n1 = n1
  n2 = n2
  Goods = {goods}
  Box = box
  Spares = {n1, n2}
  Trades = {"goods"}
  Prices = {1}
  Offer = 1
  Fee = 1
  Ransom = 1
  Quantity = 2
  BILLSZ = 2
  Purse = 1
  Till = 0
  Gold = 0
  MaxDue = 2
  Wanders = FALSE
  Hooks = FALSE
SPECIFICATION MCSpec
INVARIANTS InStep RoundTrip ReadsBack ShopTypeOK BillMatches UnpaidIsCarried NobodyLeavesWithBill
PROPERTIES  PayingIsFair
CHECK_DEADLOCK FALSE
