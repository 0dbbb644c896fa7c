\* One sweep and one click: the race the comment of the sweep rules out.
SPECIFICATION Spec
CONSTANTS
  i1 = i1
  Invoices = {i1}
  Devis = {}
  c1 = c1
  Clicks = {c1}
  w1 = w1
  Sweeps = {w1}
  Refreshes = {}
  s1 = s1
  s2 = s2
  Submissions = {s1, s2}
  Events = {"api:accepted", "fr:213", "fr:212"}
  FreeLimit = 1
  MaxCrashes = 0
  NoInvoice = NoInvoice
  NoSubmission = NoSubmission
INVARIANT NeverADoubleTransmission
