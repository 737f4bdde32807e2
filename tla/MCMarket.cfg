SPECIFICATION Spec
CONSTANTS
  Agents <- MC_Agents
  Firms <- MC_Firms
  Banks <- MC_Banks
  Home <- MC_Home
  Founder <- MC_Founder
  Target <- MC_Target
  Near <- MC_Near
  Score <- MC_Score
  Labour <- MC_Labour
  Wage = 5
  Period = 2
  Brackets <- MC_Brackets
  PayPeriods = 3
  PayrollBp = 4000
  SalesBp = 800
  CorporateBp = 10000
  SubsidyBp = 0
  ReplacementBp = 5000
  CouponBp = 5000
  VisibilityK = 1
  MaxOpenVacancies = 2
  MaxOpenApplications = 2
  MinScore = 5
  ShortlistMultiple = 2
  VacancyTtl = 4
  OfferTtl = 2
  Notice = 0
  SearchWindow = 4
  Skus <- MC_Skus
  Sells <- MC_Sells
  Subsidised = {2}
  ExemptNecessities = FALSE
  Due <- MC_Due
  MaxPurchases = 2
  SalesWindow = 2
  PriceWindow = 1
  DurableLife <- MC_DurableLife
  Output <- MC_Output
  Micro = 4
  SpoilNum = 1
  SpoilDen = 2
  MarkupInitial = 10000
  MarkupStep = 10000
  MarkupMax = 20000
  StockLow = 5000
  StockHigh = 20000
  Basket <- MC_Basket
  BasePrice <- MC_BasePrice
  Paydays <- MC_Paydays
  Quarters <- MC_Quarters
  BenefitDays <- MC_BenefitDays
  PriceDays <- MC_PriceDays
  CouponEvery = 1
  DueAfter = 1
  Floor = 3
  Denomination = 2
  BondTerm = 2
  StartDeposit <- MC_StartDeposit
  StartReserves <- MC_StartReserves
  StartTreasury = 0
  StartStock = 4
  StartCost = 2
  Mortal = {1, 2}
  Insolvable = {1, 11}
  MaxShocks = 2
  LastTick = 5
INVARIANTS
  JobsAgree
  BooksAgree
  NeverRaises
