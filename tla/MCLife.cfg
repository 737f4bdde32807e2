SPECIFICATION Spec
CONSTANTS
  Pool <- MC_Pool
  Banks <- MC_Banks
  Genesis <- MC_Genesis
  Wage <- MC_Wage
  Founder = 1
  Insolvents = {3}
  FirmBank = 2
  StartFirm = 8
  IncomeTax <- MC_IncomeTax
  PayrollBp = 5000
  InheritanceBp = 2500
  Majority = 2
  LeaveHomeAge = 2
  IndependenceThreshold = 2
  Band <- MC_Band
  Window = 1
  Gestation = 1
  ChildCost = 2
  ChildBenefit = 1
  ArrearsTolerance = 0
  Agendas <- MC_Agendas
  Earnings = {4}
  MaxDraws = 3
  LastTick = 3
INVARIANTS
  FamiliesAgree
  EstatesSettled
PROPERTIES
  SplitIsEven
