\* Three creations or conversions in flight at once, an override that jumps
\* ahead of the sequence, a change of prefix, of plan, and restarts. Two calls
\* of the page that lists a devis and two factures, with its modals. A draft of
\* a customer and two lines that saves them in the catalogue.
SPECIFICATION DocumentsSpec
CONSTANTS
  r1 = r1
  r2 = r2
  r3 = r3
  Requests = {r1, r2, r3}
  Texts = {"F", "DEV"}
  DevisPrefix = "DEV"
  ExplicitNumbers <- TypedNumbers
  MaxNumber = 5
  NoRequest = NoRequest
  NoNumber = NoNumber
  BoardDevis = {d1}
  BoardFactures = {f1, f2}
  d1 = d1
  f1 = f1
  f2 = f2
  NoDoc = NoDoc
  MaxCalls = 2
  MaxClicks = 2
  MaxWrites = 2
  CatalogueLines = 2
  Things = {1, 2, 3}
  CustomerCap = 1
  ItemCap = 2
  MaxEdits = 4
CONSTRAINT NotMixed
SYMMETRY DocumentsSymmetry
INVARIANTS
  DocumentsTypeOK
  ChronologicalNumbers
  LineageIsSound
  OfferIsForTheFirst
  BoardShowsTheRow
  PreviewIsOfItsInvoice
  SavedOnceInItsPlace
