SPECIFICATION PendingSpec
CONSTANTS
  Null = Null
  w1 = w1 w2 = w2 ana = ana brl = brl prov1 = prov1 r1 = r1
  k1 = k1 k2 = k2 k3 = k3 e1 = e1 e2 = e2 e3 = e3
  Sessions = {s1}
  Workers = {p1}
  Wallets = {w1}
  Players = {ana}
  Currencies = {brl}
  Providers = {prov1}
  Rounds = {r1}
  Keys = {k1, k2, k3}
  ExtIds = {e1, e2, e3}
  Msgs = {}
  Internal = Internal
  Openings = {2}
  Faults = {}
  MaxRefAttempts = 2
  Calls <- RefundCalls
PROPERTIES
  BackoffIsKept
SYMMETRY PartySymmetry
