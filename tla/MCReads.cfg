SPECIFICATION Spec
CONSTANTS
  Null = Null
  Wallets = {w1}
  Openings = {0, 1}
  Movements <- Steps
  Auditors = {a1}
  Clients = {c1}
  Times = {1, 2}
  Ids = {1, 2, 3}
  Limits = {0, 1, 3}
  MaxPage = 2
INVARIANTS
  ReadsTypeOK DivergenceIsExplained PagesDescend ListingIsComplete
