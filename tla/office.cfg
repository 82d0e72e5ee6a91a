\* Ten parts of the back office, each on its own.
SPECIFICATION Spec
CONSTANTS
  Nothing = 0
  Handlers = {1, 2}
  OneHandler = {1}
  Staff = {1, 2}
  Accounts = {1, 2}
  Businesses = {1, 2}
  Batch = 1
  MaxChanges = 1
  MaxAppts = 2
  AlertPlans <- MCAlertPlans
  MaxSegments = 1
  MaxEdits = 1
  MayLose = TRUE
  TeamBusinesses = {1}
  Founders = {1}
  MaxPending = 1
  TeamRows = 2
  MaxBooked = 1
  DayStaff = {1, 2, 3}
  DayServices <- MCServices
  Parallel <- MCParallel
  DayHours <- MCHours
  Shifts <- MCShifts
  BlockRows <- MCBlockRows
  Requests <- MCRequests
  Step = 2
  Lead = 1
  MaxNow = 1
  MaxBookings = 1
  Number <- MCNumber
  Dial = 57
  Files <- MCFiles
  MaxCards = 2
  MaxVisits = 1
  Browsers = {1}
  MaxClaims = 1
  Waba <- MCWaba
  Connected0 <- MCConnected0
  MaxStarts = 2
  MaxFails = 1
  TrialDays = 1
  Extensions = {1, 2}
  Terms = {1}
  FirstDay <- MCFirstDay
  LastDay = 2
  Horizon = 4
  NoPrice <- MCNoPrice
  Guests = {1}
  Customers = {1}
  Catalogue0 <- MCCatalogue0
  Prices <- MCPrices
  Currencies = {1, 2}
  Rates <- MCRates
  DeskPlans <- MCDeskPlans
  Starts = {1, 4}
  DayLength = 2
  Zone = 1
  DeskMonths <- MCMonths
  Week = 3
  MaxDaily = 2
  Days = {0, 1}
  FirstNow = 2
  MaxClock = 3
  MaxWrites = 3
  LastHour = 10
  Rows = 5
  MaxNext = 0
  MinNext = 3
  CutTolerance = 2
  MaxPhotos <- MCMaxPhotos
  MaxUploads = 3
  MaxRequests = 3
INVARIANTS TypeOK ToldOnce AgendaIsAnnounced HistorySurvives LinkedIsInvited OfferIsExact BookedIsServable PanelIsWarned SuggestionsHold OnePersonOneCard ReportsAgree EveryTimeOffered PageStands
PROPERTIES RowsSettle  TemplatesSettle TrialClockRunsOnce AgreedStands
CHECK_DEADLOCK FALSE
