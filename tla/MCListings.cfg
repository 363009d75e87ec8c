CONSTANTS
  Bars = 3
  MinSamples = 3
  MinOptionSamples = 2
  Tolerance = 1
  Vehicles = {1, 2, 3, 4, 5, 6, 7}
  Car <- Car7
  Class <- Class2
  Meant <- Meant2
  Facets = {"colour", "dealer", "stage"}
  Defaulted = {"colour", "stage"}
  Dealer <- Dealer3
  StateCode <- Codes2
  FullName <- Names1
  Name <- Name3
  MinMiles = 10
  MaxMiles = 10
  PageSize = 2
  MaxMarkers = 2
  Fleets <- Fleets2
  MaxChosen = 2
  MaxCharted = 1
SPECIFICATION Spec
INVARIANTS
  FacetsAreTrue
  PagesAreTheExport
  PricesAgree
  StatisticsAreTrue
PROPERTIES
  BrushLists
