SPECIFICATION Spec
CONSTANTS
  Resources = {r1}
  Frontends <- DesktopFrontends
  DesktopHost = TRUE
  Ttl = 2
  MaxTime = 4
  MaxGrants = 3
  MaxEpoch = 2
INVARIANTS OneDriver TakenBackStaysBack ObserversKnowTheLease
PROPERTIES FencedForever WritesInGrantOrder ExpiryIsAnnounced
