CONSTANTS
  Services = {"identity", "compute", "block-storage", "image", "network", "load-balancer",
              "object-store", "dns"}
  DefaultRegion = "c3j1"
  Strings <- MCStrings
  Options <- MCOptions
  Catalogs <- MCCatalogs
  MaxOptions = 2
  MaxLogins = 2
SPECIFICATION Spec
CHECK_DEADLOCK FALSE
INVARIANTS
  RegionOnlyFromPattern
