SPECIFICATION Spec
CONSTANTS
  Agents <- ThreeAgents
  Firms <- FourFirms
  Bank = 20
  Genesis <- ListedFirms
  StartCash <- Deposits0
  StartLoans <- TwoLoans
  StartJobs <- TwoJobs
  Arrears <- Arrears0
  Foundings <- Founding
  Pitches <- Pitching
  Sheets <- Issuing
  Offers <- Offering
  Tenders <- Tendering
  Filings <- Filing
  Dividends <- Paying
  Commitments <- Committing
  Costs <- Spending
  VentureSettings <- SmallSettings
  LastTick = 3
  MaxInputs = 5
INVARIANTS
  RegistersAgree
  SeniorsFirst
  InsolvencyIsFiled
