CONSTANTS
  c1 = c1
  c2 = c2
  r1 = r1
  r2 = r2
  r3 = r3
  NoCtx = NoCtx
  NoOne = NoOne
  Sending = Sending
  Receivers = {r1, r2, r3}
  Contexts = {c1, c2}
  CtxOf <- Apart
  SendFrom = {c1, NoCtx}
  Releasable = {c1, c2}
  MaxSends = 3
  MaxCalls = 3
SPECIFICATION FairSpec
INVARIANTS MatchInOrder SpuriousOnlyLate ResumeOnTheWay
PROPERTIES ImplementsChannel PairMeets
CHECK_DEADLOCK FALSE
