CONSTANTS
  u1 = u1
  u2 = u2
  m = m
  Upstreams = {u1, u2}
  Modules = {m}
  Relays = {c1, c2}
  Reloaders = {r1, r2}
  Inquirers = {i1}
  NoOne = NoOne
  Configs <- Kept
SPECIFICATION FairSpec
INVARIANTS TypeOK RoutesServed
PROPERTIES UpstreamBound QueueKept EverybodyAnswered
