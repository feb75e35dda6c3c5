SPECIFICATION Spec
CONSTANTS
    ncr = ncr  south = south  bay = bay  hills = hills
    cityX = cityX  townM = townM  townN = townN  taguig = taguig  pateros = pateros
    b1 = b1  b2 = b2  b3 = b3  b4 = b4  t1 = t1  t2 = t2  s1 = s1
    Regions = {south, ncr}
    Provinces = {bay, hills}
    Localities = {cityX, townM, townN, taguig, pateros}
    Cities = {cityX, taguig}
    ParentOf <- MCParentOf
    NCR = ncr
    Taguig = taguig
    Pateros = pateros
    Names = {"X", "San Jose", "Taguig"}
    Denotes <- MCDenotes
    Overrides = {}
    Rows <- MCRows
    Nothing = Nothing
    MaxRows = 8
    MaxDistricts = 4
    EarlierFiles <- MCEarlierFiles
    MaxFetches = 2
    Barangays = {b1, b2, b3, b4, t1, t2}
    Submunicipalities = {s1}
    ParentBelow <- MCParentBelow
    Tables <- MCTables
INVARIANTS
    NoRowDropped
    FoundByPlace
    BarangayHasOneDistrict
    MapIsAPartition
CHECK_DEADLOCK FALSE
