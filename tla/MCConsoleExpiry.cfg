\* api.ts says that a session that has expired leads to the login and stays
\* there until someone signs in.
SPECIFICATION ConsoleSpec
CONSTANTS
  Parts = {"session"}
  MaxSessions = 2
  MaxNet = 2
  Limit = 1
  OldRows = 2
  MaxRows = 5
  MaxLoads = 2
  MaxFiles = 2
  Quantities = {"0.5"}
  Prices = {"-1", "2", "0,5"}
  Rates = {"19", "7"}
  Values = {"5%", "50"}
  VatDigits = {1, 3}
  MaxLines = 2
  MaxDiscounts = 1
  MaxClicks = 2
  Numbers = {"", "R1"}
  FileNames = {"a", "b"}
  MaxAttachments = 2
  MaxPicks = 2
  MaxGenerates = 2
  MaxEdits = 2
  LicMaxSends = 5
  LicMaxChanges = 2
  MaxCompanies = 2
  BrMaxSends = 5
  MaxUsers = 2
  UsMaxSends = 4
  UsPicked = {"editor"}
  SecMaxSecrets = 2
  SecMaxSends = 5
  Invoices = {1, 2}
  ValidOnes = {1}
  DetMaxSends = 6
  PpMaxSends = 4
  PpMaxVersion = 2
PROPERTIES
  RedirectHolds
CHECK_DEADLOCK FALSE
