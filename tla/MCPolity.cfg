SPECIFICATION Spec
CONSTANTS
    Agents <- FewAgents
    Cash = 2
    Treasury = 5
    Fee = 1
    Deposit = 1
    RefundPercent = 30
    Seats <- FewSeats
    Term <- ShortTerms
    CouncilMethod = "proportional"
    ElectionMethods <- PresidentMethods
    CampaignLength = 1
    CandidacyClose = 0
    ThirtyDays = 2
    Week = 1
    Multiplier = 2
    InitiativeSignatures = 2
    Authority <- Authorities
    Lag <- Lags
    Default <- Defaults
    Inadmissible <- OutOfRange
    Actions <- FewActions
    Steps <- FewSteps
    MaxInputs = 4
    LastTick = 3
INVARIANTS
    RegistersAgree
    WinnersRight
PROPERTY PastIsFixed
