SPECIFICATION ExecFairSpec
CONSTANTS
  l1 = l1
  l2 = l2
  l3 = l3
  m1 = m1
  m2 = m2
  q1 = q1
  q2 = q2
  NoLink = NoLink
  NoCommand = NoCommand
  Links <- ThreeLinks
  Mutations <- TwoMutations
  Queries <- OneQuery
  MaxExchanges = 2
INVARIANT ReservationsConserved
INVARIANT SoundAnswers
PROPERTY AcceptedWorkEnds
