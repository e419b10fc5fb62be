SPECIFICATION FairSpec
CONSTANTS
  google = google  cloudflare = cloudflare  twilio = twilio
  Pool <- ThreeServers
  TopN = 2
  ProbeTimeout = 2
  Ttl = 2
  MaxTime = 7
INVARIANTS TypeOK ProbesReleased LoadedWhateverType
PROPERTIES ServersJustified FastestKept StartsOrTells
CHECK_DEADLOCK FALSE
