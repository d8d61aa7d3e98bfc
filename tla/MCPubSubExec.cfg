SPECIFICATION Spec
CONSTANTS
  Fds = {"a", "b"}
  Channels = {"x", "y"}
  MaxConns = 2
  MaxPublished = 2
  MaxPending = 1
  MaxQueued = 2
PROPERTY
  SubscribedRestricted
