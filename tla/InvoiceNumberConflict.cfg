\* A devis numbered by hand, or a prefix set to the one of the devis, blocks
\* the automatic number of the next facture.
SPECIFICATION Spec
CONSTANTS
  r1 = r1
  r2 = r2
  r3 = r3
  Requests = {r1, r2, r3}
  Texts = {"F", "DEV"}
  DevisPrefix = "DEV"
  ExplicitNumbers <- TypedNumbers
  MaxNumber = 5
  NoRequest = NoRequest
  NoNumber = NoNumber
SYMMETRY Symmetry
INVARIANT AutomaticNeverConflicts
