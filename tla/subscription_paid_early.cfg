CONSTANTS
  Handlers = {1}
  TrialDays = 2
  LastDay = 7
  Horizon = 12
  Extensions <- MCExtensions
  Terms <- MCTerms
  FirstDay <- MCFirstDay
SPECIFICATION Spec
CHECK_DEADLOCK FALSE
PROPERTIES NoChargeShortens
