\* A sweep over two rows racing a click, with one free Factur-X credit; the inboxes of
\* two companies under a sweep, syncs by hand, a failure or a restart; the fairness of the crons.
\* The nudges of two companies around one phone, over five days.
SPECIFICATION SweepsSpec
CONSTANTS
  i1 = i1
  i2 = i2
  Invoices = {i1, i2}
  Devis = {}
  c1 = c1
  Clicks = {c1}
  w1 = w1
  Sweeps = {w1}
  Refreshes = {}
  s1 = s1
  Submissions = {s1}
  Events = {}
  FreeLimit = 1
  MaxCrashes = 0
  NoInvoice = NoInvoice
  NoSubmission = NoSubmission
  SyncCompanies = {"a", "b"}
  MaxIncoming <- mcMaxIncoming
  PageSize = 2
  MaxSyncPages = 1
  MaxSyncFaults = 1
  PushCompanies = {"a", "b"}
  Phones = {p1}
  p1 = p1
  NoCompany = NoCompany
  Inactivity = 1
  Cooldown = 2
  LastPushDay = 4
INVARIANTS
  SweepsTypeOK
  InboxHasNoGap
PROPERTIES
  DueIsPickedUp
  AutoSyncDelivers
  NudgesAreSpaced
CHECK_DEADLOCK FALSE
