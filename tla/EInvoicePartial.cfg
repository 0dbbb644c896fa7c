\* The sweep alone: what a failed transmission leaves behind.
SPECIFICATION Spec
CONSTANTS
  i1 = i1
  Invoices = {i1}
  Devis = {}
  Clicks = {}
  w1 = w1
  Sweeps = {w1}
  Refreshes = {}
  s1 = s1
  s2 = s2
  Submissions = {s1, s2}
  Events = {"api:accepted", "fr:213", "fr:212"}
  FreeLimit = 1
  MaxCrashes = 0
  NoInvoice = NoInvoice
  NoSubmission = NoSubmission
INVARIANT NeverPartiallyApplied
