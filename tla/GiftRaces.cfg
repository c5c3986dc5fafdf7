SPECIFICATION Spec
SYMMETRY Symmetry
CONSTANTS
  p1 = p1
  p2 = p2
  g1 = g1
  g2 = g2
  m1 = m1
  m2 = m2
  basic = basic
  extra = extra
  NoGift = NoGift
  NoMember = NoMember
  Procs = {p1, p2}
  Gifts = {g1}
  Members = {m1, m2}
  Tiers = {basic, extra}
  TierOf <- MCTierOf
  Reminding = {g1}
  PlanTier = basic
  MaxPlans = 1
  MaxDeletes = 1
INVARIANT TypeOK
INVARIANT AccessBacked
INVARIANT AccessWhileActive
INVARIANT MailedOnce
 
PROPERTY ImplementsGiftPromise
CHECK_DEADLOCK FALSE
