CONSTANTS
  Engines = {"engine"}
  Clients = {"api1", "api2"}
  Clearing = {"api2"}
  Writers = {"writer"}
  Dropping = {"writer"}
SPECIFICATION FairSpec
PROPERTIES CallsGoOn
CHECK_DEADLOCK FALSE
