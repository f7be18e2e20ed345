\* Publication, replication and streaming of charts across reconnects,
\* every connection negotiating REPLICATION.
CONSTANTS
  c1 = c1
  c2 = c2
  c3 = c3
  Charts <- MCCharts
  Matching <- MCMatching
  AnomalyCharts = {}
  MLStreaming = FALSE
  Mirrored <- MCMirrored
  Obsoletable <- LiveObsoletable
  ReceiverDisconnected = FALSE
  NegotiableCaps <- ReplicatingCaps
  MaxConnections = 2
  MaxMetadataUpdates = 1

SPECIFICATION Spec

INVARIANT TypeOK
INVARIANT ExposedImpliesDefinitionSent
INVARIANT ReplicatingChartsCounted
INVARIANT NoMetricsWhileReplicating


PROPERTY MetricsKeepFlowing
PROPERTY ChartStateMachine
