CHECK_DEADLOCK FALSE
SPECIFICATION Spec
CONSTANTS
  Key = {k1, k2}
  Caller = {c1, c2}
  NoRights = NoRights
  Documents <- RegistryDocuments
  MaxRounds = 1
  Life = 3
  Margin = 1
  MaxTime = 3
  MaxRefusals = 1
  MaxDrops = 1
  Absent = Absent
  Files <- ReadsFiles
  PriceStep = 7000
  MaxPrice = 21000
  DemandDays = {20220601, 20220901}
  TaxAmounts = {1500}
  RaiseAmounts = {800}
  RaiseDays = {20210401}
  MaxChanges = 3
  ItemRows <- ReadsItemRows
  Contents <- ReadsContents
  NoticeDates = {Absent, 20220601}
  Rates <- ReadsRates
  CustomBids = {65000}
  MaxWrites = 2
  MaxReads = 2
  Views <- ReadsViews
  FirstView <- StartView
  PlaceOf <- ReadsPlaces
  NoPlace = "none"
  MaxMoves = 3
  MaxRetries = 1
  Nothing = Nothing
  Missing = Missing
  Groups <- ReadsGroups
  MaxSteps = 4
  MaxTrouble = 1
  Things = {"A", "B"}
  Nil = "nil"
  Pages = {"detail", "rights"}
  MaxActs = 4
  MaxFailed = 1
  Stock = {1, 2, 3}
  PageSize = 1
  MaxPulls = 3
  MaxTouches = 1
  MaxLost = 1
  Checks = {"roof", "damp"}
  MaxTaps = 3
  MaxOpens = 2
  MaxDiskFails = 1
  Listing <- ReadsListing
  CaseOf <- ReadsCases
  Tenanted = {"a"}
  Unwritten = {"c"}
  Moving = {"a"}
  PageRows = 3
  MaxPages = 5
  Limit = 2
  PhotoLimit = 2
  LastDate = 2
  MaxRuns = 2
  MaxEvents = 3
  MaxFaults = 1
SYMMETRY RegistrySymmetry
INVARIANTS
  PaidOnce
  TokenOutlivesLookup
  RightsOfDocument
  MoneyConserved
  NoticeAgreesWithAnalysis
  ClaimDecidesInAnyOrder
  AnswersAgree
  ScenariosOrdered
  MapShowsWhereItRests
  NoGhostCard
  PanelShowsItsItem
  HeartTellsTruth
  RemovedStaysRemoved
  PageShowsItsItem
  RowsInOrder
  ChecksKept
  NoticesComplete
  NamesGone
PROPERTIES
  HigherPriceHurtsNobody
  DemandOnlyInTime
  UnknownTaxIsLowerBound
  TablesKept
