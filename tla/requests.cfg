SPECIFICATION RequestSpec
CONSTANTS
  QuoteId = {q1}
  Converter = {k1, k2}
  Org = {a, b}
  NoQuote = NoQuote
  NoPrice = NoPrice
  MemoTTL = 2
  RateTTL = 3
  QuoteTTL = 1
  RefreshInterval = 1
  FetchTimeout = 1
  LastTick = 4
  MaxFxFaults = 1
  Opener = {o1, o2, o3}
  Owner = {w1}
  NoOwner = NoOwner
  WalletSigner = {"env", "kms"}
  WalletLimit = 1
  MaxOpenFaults = 1
  Letter = {"a", "b"}
  Upper = {"A"}
  Lower <- LowerCase
  Separator = {"-"}
  MaxName = 3
  MaxThreshold = 2
  Person = {p1, p2}
  Caller = {c1, c2}
  Invite = {i1}
  ApiKey = {y1}
  OfferedRole = {"viewer"}
  Absent = Absent
  MaxAccountFaults = 1
  Request = {r1, r2, r3}
  Key = {e1}
  Body = {b1, b2}
  Nobody = Nobody
  HandlerChecks = FALSE
  MaxExpiries = 1
SYMMETRY RequestSymmetry
INVARIANTS   NameSafe  AnswersOwnRequest
CHECK_DEADLOCK FALSE
