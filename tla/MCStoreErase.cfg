SPECIFICATION Spec
CONSTANTS
  Threads = {t1, t2}
  Uris <- OneHost
  CountLimits = {1}
  MaxPoolSockets = 1
  Calls = {"erase"}
  Careful = FALSE
  None = None
  NoPort = NoPort
  guest = guest
  h1 = h1
  h2 = h2
  h3 = h3
  vhost = vhost
  queue = queue
  secret = secret
  changed = changed
PROPERTIES
  EraseRefusesRunning
