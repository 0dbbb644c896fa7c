\* One invoice under every kind of race: two overlapping sweeps, a click, a
\* refresh, a cancellation, a restart, two submissions and both verdicts.
SPECIFICATION Spec
CONSTANTS
  i1 = i1
  Invoices = {i1}
  Devis = {}
  c1 = c1
  Clicks = {c1}
  w1 = w1
  w2 = w2
  Sweeps = {w1, w2}
  r1 = r1
  Refreshes = {r1}
  s1 = s1
  s2 = s2
  Submissions = {s1, s2}
  Events = {"api:accepted", "fr:213", "fr:212"}
  FreeLimit = 1
  MaxCrashes = 1
  NoInvoice = NoInvoice
  NoSubmission = NoSubmission
SYMMETRY Symmetry
INVARIANTS
  TypeOK
  CreditBeforeSubmission
  StatusComesFromPlatform
  RejectionIsExplained
  SweepSubmitsOnce
PROPERTY ImplementsQueue
