SPECIFICATION Spec
CONSTANTS
  Agents <- FourAgents
  Chief = "government"
  Clients = {"ann"}
  Testimony <- Stories
  Banked = {"dee"}
  Poor = {"ann"}
  Lawyers <- OneDefender
  StartMoney <- Money0
  Home <- OneHomeless
  Prisons <- OnePrison
  Evidence <- Log
  Secrets <- Leak
  Obligations <- Debts
  Offences <- Crimes0
  Suits <- Suing
  Offers <- Offering
  Incomes <- Paydays
  Trades <- Insiders
  JudgeOutputs <- Answers
  Cfg <- SmallLaw
  LastTick = 4
  MaxInputs = 3
INVARIANTS JudgmentsAccounted DocketInOrder
PROPERTY ClosedIsFinal
