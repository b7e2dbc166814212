SPECIFICATION Spec
CONSTANTS
  Null = Null
  w1 = w1 w2 = w2 ana = ana bob = bob brl = brl
  prov1 = prov1 prov2 = prov2 r1 = r1
  k1 = k1 k2 = k2 k3 = k3 k4 = k4 k5 = k5
  e1 = e1 e2 = e2 e3 = e3 e4 = e4 e5 = e5 m1 = m1
  Sessions = {s1, s2}
  Wallets = {w1}
  Players = {ana}
  Currencies = {brl}
  Providers = {prov1}
  Rounds = {r1}
  Keys = {k1, k2, k3, k4}
  ExtIds = {e1, e2, e3, e4}
  Msgs = {m1}
  Internal = Internal
  Openings = {3}
  Faults = {"contention", "crash"}
  Calls <- RaceCalls
INVARIANTS
  TypeOK WalletMatchesLedger OneRowPerOperation
  InboxHasTransaction OutboxTellsRows AnswersAreDurable
PROPERTIES
  RefusalsAreFinal
SYMMETRY SessionSymmetry
