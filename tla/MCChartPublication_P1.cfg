\* P1 of spec.md: the first record of a chart on a connection is its
\* definition.
CONSTANTS
  c1 = c1
  c2 = c2
  c3 = c3
  Charts <- MCCharts
  Matching <- MCMatching
  AnomalyCharts = {}
  MLStreaming = FALSE
  Mirrored <- MCMirrored
  Obsoletable <- MCObsoletable
  ReceiverDisconnected = FALSE
  NegotiableCaps <- ReplicatingCaps
  MaxConnections = 2
  MaxMetadataUpdates = 1

SPECIFICATION Spec

INVARIANT DefinitionBeforeMetrics
