SPECIFICATION ExchangeSpec
CONSTANTS
  c1 = c1
  c2 = c2
  a1 = a1
  a2 = a2
  b1 = b1
  m1 = m1
  m2 = m2
  q1 = q1
  NoLink = NoLink
  NoCommand = NoCommand
  Clients <- TwoClients
  Links <- OneEach
  ClientOf <- Owners
  Mutations <- OneMutation
  Queries <- OneQuery
  MaxExchanges = 2
  MaxRequests = 2
  MaxCalls = 3
PROPERTY Linearizable
SYMMETRY ClientSymmetry
