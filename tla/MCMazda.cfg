CONSTANTS
  Dealers = {1, 2}
  Vins = {1, 2, 3, 4, 5}
  Carlines <- Carlines2
  Places <- Places2
  Near <- Near2
  CatalogCount <- Catalog2
  PageSize = 2
  MaxPages = 2
  RowsOf <- RowsOf2
  MaxRows = 5
  MaxChanges = 2
SPECIFICATION Spec
INVARIANTS
  PagesInv
PROPERTIES
  WalkReadsAll
  
CHECK_DEADLOCK FALSE
