SPECIFICATION FairSpec
CONSTANTS
  Users = {u1}
  Tokens = {t1}
  Tickets = {k1, k2}
  Slots = {s1, s2}
  Batch = 1
  MaxFaults = 1
  NoUser = NoUser
  NoToken = NoToken
INVARIANT TypeOK
PROPERTIES TicketsDrain ReachableAgain
