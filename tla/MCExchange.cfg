SPECIFICATION Spec
CONSTANTS
  Traders <- ThreeTraders
  Symbols <- TwoSymbols
  Listed <- OneSymbol
  Bids <- Buying
  Asks <- Selling
  ShortSales <- Shorting
  Interests <- Indicating
  Offerings <- Offering
  Founder = 1
  StartCash <- Deposits0
  Settings <- SmallExchange
  Chronicle = FALSE
  DayTicks = 3
  OpenHour = 0
  CloseHour = 2
  LastTick = 3
  MaxInputs = 4
INVARIANTS
  AccountsExact
  EscrowBacked
  BookOrderly
