SPECIFICATION Spec
CONSTANTS
  a1 = a1
  a2 = a2
  g1 = g1
  g2 = g2
  l1 = l1
  l2 = l2
  p1 = p1
  p2 = p2
  none = none
  Users = {m1, m2}
  Locations = {l1, l2}
  Requests = {p1, p2}
  Syncers = {p1, p2}
  Workers = {p1, p2}
  None = none
  Free = none
  Attempts = {a1, a2}
  GoogleAccounts = {s1}
  Refreshers = {r1}
  NoAttempt = none
  MaxTokens = 2
  GoogleIds = {g1, g2}
  Mappers = {p1, p2}
  ReviewSyncers = {s1}
  MaxPages = 2
  MaxMaps = 3
  OwnNumbers = {n1}
  SharedPool = shared
  SenderCalls = {p1, p2, r1}
  Activators = {t1, t2}
  Templates = {t1, t2}
  Submitters = {p1, p2}
  Pollers = {s1}
  NoTemplate = none
  Merchants = {m1, m2}
  NumberOwner = m1
  FanOuts = {s1}
  MaxRetries = 1
  MaxDeaths = 1
  Founder = m1
  Assignable = {l1}
  MaxInvites = 2
  Recovery = {r1}
  MaxStep = 2
  MaxSecrets = 2
  Old = s1
  Replacements = {r1}
  NoRef = none
  Kinds = {"UPGRADE", "DOWNGRADE"}
  Owner = m1
  MaxFaults = 1
  Events = {t1}
  Skew = 1
  Settle = 3
  MaxSync = 1
  TwoFactor = {m2}
  Nobody = none
  MaxInstalls = 1
  MaxLinks = 1
  MaxUninstalls = 1
  Files = {g1, g2}
  Sales = {l1, l2}
  RowsOf <- MCRowsOf
  NoFile = none
SYMMETRY Symmetry
INVARIANTS OAuthInv ReviewsInv SendersInv TemplatesInv OptOutInv TeamInv TotpInv ReplacementInv InboxInv ShopifyInv CsvInv
CHECK_DEADLOCK FALSE
