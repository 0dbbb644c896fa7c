\* Documents from preview to conversion and back; one draft of each mode under a
\* profile that changes and answers that are late or lost; a table of mode manuel; the
\* reports over a small calendar; four dictations.
SPECIFICATION DeskSpec
CONSTANTS
  LineItems <- mcLineItems
  ServiceItems <- mcServiceItems
  ManualTables <- mcManualTables
  Remises = {9000}
  Rates = {2000}
  MaxLines = 2
  MaxDocuments = 2
  DraftBodies <- mcDraftBodies
  Companies <- mcCompanies
  Overrides = {500}
  MaxAnswers = 1
  MaxRows = 2
  MaxCustom = 1
  MaxTables = 1
  TypedRoles = {"DESCRIPTION", "LINE_TOTAL", "CUSTOM"}
  MaxTyped = 1
  Bills <- mcBills
  Margins <- mcMargins
  Cotisations <- mcCotisations
  QuarterMonths = 2
  YearMonths = 2
  WindowMonths = 2
  MaxBooked = 2
  LastMoment = 4
  Dictations <- mcDictations
  VoiceRows <- mcVoiceRows
  Likeness <- mcLikeness
  ModelDrafts <- mcModelDrafts
  VoiceNumbers = {"25", "2"}
  VoicePercents = {"30%"}
  VoiceUnits = {"m2", "heures"}
  MaxEntryEdits = 1
INVARIANTS
  DeskTypeOK
  TotalsAgree
  LinesAgree
  CardIsTheDocument
  ValuesStayInPlace
  ReportsAgree
  NeverSilentlyWrong
CHECK_DEADLOCK FALSE
