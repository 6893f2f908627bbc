CONSTANTS
  Rows <- MCRows
  RefLimit = 2
  Sources <- MCSources
  Listed <- MCListed
  Area <- MCArea
  CentreKnown = TRUE
  SameEntity <- MCSameEntity
  MaxChecks = 7
  Fare = 1
  MealPrice = 1
  Season = 2
  Quotes <- MCQuotes
  FullDay = 12
  ThinDay = 2
  ManyPlaces = 2
  Requests <- MCRequests
  MaxDayAttempts = 2
  MaxGenerations = 2
  MaxFixes = 2
  MaxRefills = 1
  MaxDeaths = 1
SPECIFICATION FairSpec
INVARIANTS RefutedOut StreamShowsTrip ReadyIsClean
PROPERTIES Ends RunRefines
