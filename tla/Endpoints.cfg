CONSTANTS
  Services = {"identity", "compute", "block-storage", "image", "network", "load-balancer",
              "object-store", "dns"}
  DefaultRegion = "c3j1"
  Strings <- MCStrings
  Options <- MCOptions
  Catalogs <- MCCatalogs
  MaxOptions = 4
  MaxLogins = 3
SPECIFICATION Spec
CHECK_DEADLOCK FALSE
INVARIANTS
  TypeOK
  PriorityOrder
  RegionAgreement
  RootedURLs
PROPERTIES
  ImplementsResolution
