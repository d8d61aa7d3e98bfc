SPECIFICATION Spec
CONSTANTS
  Fds = {"a", "b"}
  Channels = {"x"}
  MaxConns = 3
  MaxPublished = 2
  MaxPending = 1
  MaxQueued = 2
PROPERTY
  ImplementsPubSub
