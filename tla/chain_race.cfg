SPECIFICATION Spec
CONSTANTS
  w1 = w1
  w2 = w2
  ra = ra
  ac = ac
  finance = finance
  d1 = d1
  None = None
  Workers = {w1, w2}
  Users = {ra, ac}
  Domains = {finance}
  Decisions = {d1}
  DomainOf <- OneDomain
  Seed <- SeedRA
  Limits <- TwoApprovals
SYMMETRY Symmetric
INVARIANT
  ChainVerifies
