SPECIFICATION PlansSpec
CONSTANTS
  c1 = c1
  c2 = c2
  r1 = r1
  r2 = r2
  r3 = r3
  w1 = w1
  w2 = w2
  x1 = x1
  x2 = x2
  x3 = x3
  x4 = x4
  h1 = h1
  h2 = h2
  Nobody = Nobody
  NoRoute = NoRoute
  NoCommit = NoCommit
  Missing = Missing
  NoPlan = NoPlan
  NoInput = NoInput
  Callers <- TwoCallers
  RequestIds <- FourIds
  Routes <- ThreeRoutes
  Worktrees <- TwoWorktrees
  Commits <- TwoCommits
  Heads <- MovingHeads
  Inputs <- Mixed
  MaxPlans = 2
  MaxRecords = 3
INVARIANT StaysReadable
INVARIANT AnswersKept
PROPERTY RetryNeverRefused
PROPERTY ImplementsRegister
SYMMETRY Symmetry
