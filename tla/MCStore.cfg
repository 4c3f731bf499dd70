SPECIFICATION FairSpec
CONSTANTS
  Threads = {t1, t2}
  Uris <- ThreeHosts
  CountLimits = {0, 1}
  MaxPoolSockets = 3
  Calls = {"commit", "erase", "clear", "status", "max_pool_count"}
  Careful = TRUE
  None = None
  NoPort = NoPort
  guest = guest
  h1 = h1
  h2 = h2
  h3 = h3
  vhost = vhost
  queue = queue
  secret = secret
  changed = changed
INVARIANTS
  TypeOK
  PoolOutlivesUse
  TableBounded
PROPERTIES
  EndpointIsOnePool
  CallReturns
