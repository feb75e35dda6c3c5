\* One account without and one with an assigned province; a selection
\* changed three times with one upstream fault, or two switches of the
\* account while reports are listed and changed.
SPECIFICATION Spec
CONSTANTS
  Users = {"u1", "u2"}
  Reports = {"r1", "r2"}
  None = "none"
  Addressed <- MCAddressed
  MaxSwitches = 2
  MaxEdits = 1
  MaxLists = 2
  Pages <- MCPages
  NCRRegion = "NCR"
  NCRDistricts <- MCNCRDistricts
  MaxFaults = 1
  Areas = {"P", "n1"}
  AreaOf <- MCAreaOf
  IssuesConfigured = FALSE
  TEST_USERS <- MCTestUsers
  StoredUsers <- MCStoredUsers
  HomeGeography <- MCHomeGeography
  Fallback = {"Q"}
  Bookmarks <- MCBookmarks
  LegislativeData <- MCLegislativeData
  PartyLists = {"A"}
  Meltwater <- MCMeltwater
  MaxChoices = 3
  MaxOpen = 0
  Polygons <- MCPolygons
  RegionPolygons <- MCRegionPolygons
  DistrictPolygons <- MCDistrictPolygons
  Divided = {"n1"}
INVARIANTS
  
  
  DashboardShowsSelection
  DashboardIsSound
  ShownIsAddressed
  LocationShowsSelection
PROPERTIES
  ListConverges
CHECK_DEADLOCK FALSE
