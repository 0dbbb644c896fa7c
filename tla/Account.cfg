SPECIFICATION AccountSpec
CONSTANTS
  r1 = r1
  r2 = r2
  s1 = s1
  s2 = s2
  c1 = c1
  c2 = c2
  Tabs = {t1}
  t1 = t1
  StripeSubs = {s1, s2}
  StripeSeconds = 2
  CheckoutWindow = 2
  MaxStripeEvents = 2
  MaxSessions = 2
  SoldTiers = {1, 3}
  Offers = {"trial"}
  AppleCompanies = {c1, c2}
  Purchases = {x1}
  x1 = x1
  NoPurchase = NoPurchase
  AppleTiers = {1}
  AppleRequests = {r1, r2}
  AppleSeconds = 2
  MaxNotifications = 4
  GrantCompanies = {c1, c2}
  Referrer = c1
  Referred = c2
  Codes = {k1}
  k1 = k1
  CodeTier = 2
  CodeDays = 2
  CodeMax = 2
  Mails = {e1}
  e1 = e1
  GrantRequests = {r1, r2}
  LastDay = 3
  Devices = {s1, s2}
  Calls = {r1, r2}
  Tokens = {1, 2, 3}
  NoToken = 0
  SessionOps = {"login", "refresh", "logout", "password", "reset"}
  ApiCalls = {r1, r2}
  MaxUsers = 5
  Requests = {r1, r2}
  MaxLinks = 2
  QuotaRequests = {r1, r2}
  QuotaDocs = {1, 2, 3}
  MonthlyLimit = 1
  LastMonth = 2
  MaxDraftLines = 2
  MaxServices = 1
  MaxRemises = 1
SYMMETRY mcSymmetry
INVARIANTS
  AccountTypeOK
  SettledRowIsTrue
  OneSubscriptionPerWindow
  RedeemedOnce
  SessionSurvives
  NewSessionIsKept
  PaymentFactsMatchStatus
  QuotaOverrunIsBounded
  DraftStaysAligned
PROPERTIES
  AppleRowIsNewest
  GrantsStack
CHECK_DEADLOCK FALSE
