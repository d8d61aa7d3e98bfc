SPECIFICATION Spec
CONSTANTS
  Fds = {"a", "b"}
  Channels = {"x", "y"}
  MaxConns = 3
  MaxPublished = 2
  MaxPending = 1
  MaxQueued = 1
INVARIANTS
  IndexesMirror
  SleepsFlushed
PROPERTY
  ImplementsPubSub
