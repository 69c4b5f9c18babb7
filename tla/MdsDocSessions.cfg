\* Two players that open at the same time.
SPECIFICATION PlayersSpec
CONSTANTS
  Clients = {c1, c2}
  Infos = {c1, c2}
  MaxListeners = 1
  MaxSessions = 2
  OverscanMax = 1
  OverscanArgs = {0}
INVARIANT SessionIdsAreUnique
