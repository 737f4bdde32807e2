SPECIFICATION Spec
CONSTANTS
  Banks <- TwoBanks
  Firms <- OneFirm
  Residents <- OneResident
  HomeBanks <- Anywhere
  InitialDeposit = 3
  InitialCapital = 1
  InitialTreasury = 1
  SalesTax = 1000
  EmployerTax = 0
  IncomeTax = 4000
  ReserveRatio = 5000
  MinCapital = 800
  MinInterbank = 900
  Concentration = 40000
  InterbankLimit = 10000
  InterbankWeight = 2000
  Quarter = 9
  Month = 3
  InterestDay = 2
  PaymentInterval = 1
  InterestPer = 1
  InsuranceCap = 1
  FireSale = 7000
  Term = 2
  DelinquencyDays = 1
  DefaultDays = 2
  WriteoffDays = 1
  LastTick = 5
  Amounts = {2, 3}
  LoanSizes = {4}
  MaxTrades = 2
INVARIANTS
  BooksExact
  SettledBanksHaveReserves
PROPERTIES
  TakeoverCostsNothing
  InsuredUnlessIndebted
CHECK_DEADLOCK FALSE
