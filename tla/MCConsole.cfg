SPECIFICATION ConsoleSpec
CONSTANTS
  Parts = {"session", "inbox", "fields", "vatid", "amounts", "generate", "attach",
           "license", "branding", "users", "security", "detail", "settings", "ledger"}
  MaxSessions = 2
  MaxNet = 2
  Limit = 1
  OldRows = 2
  MaxRows = 5
  MaxLoads = 2
  MaxFiles = 2
  Quantities = {"0.5"}
  Prices = {"-1", "2"}
  Rates = {"7"}
  Values = {"5%", "50"}
  VatDigits = {1, 3}
  MaxLines = 2
  MaxDiscounts = 1
  MaxClicks = 2
  Numbers = {"", "R1"}
  FileNames = {"a", "b"}
  MaxAttachments = 2
  MaxPicks = 2
  MaxGenerates = 2
  MaxEdits = 2
  LicMaxSends = 5
  LicMaxChanges = 2
  MaxCompanies = 2
  BrMaxSends = 5
  MaxUsers = 2
  UsMaxSends = 4
  UsPicked = {"editor"}
  SecMaxSecrets = 2
  SecMaxSends = 5
  Invoices = {1, 2}
  ValidOnes = {1}
  DetMaxSends = 6
  PpMaxSends = 4
  PpMaxVersion = 2
INVARIANTS
  ConsoleTypeOK
  InboxRight
  UploadsSettled
  LinesWellFormed
  DocumentIsWhatIsShown
  PreviewAgrees
  VatIdErrorsCaught
  ArchivedIsGenerated
  AttachmentsKept
  BrandingSavedToItsOwner
  KeyIsSeen
  SettledPagesAreFresh
  CodesShown
  DetailIsOfItsUrl
  SendsWhatIsShown
  NobodyWaitsInVain
PROPERTIES
  EditKeepsRole
  AnonymousIsSentToLogin
CHECK_DEADLOCK FALSE
