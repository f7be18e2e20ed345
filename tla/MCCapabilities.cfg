\* Handshakes of a child, current or of any old protocol version, with a
\* parent; both agents disable nothing or one feature, and the child's ML
\* state changes at any time.
CONSTANTS
  Compressors <- MCCompressors
  DisableChoices <- FeatureDisables
  MaxMlChanges = 1
  OldVersions = {1, 2, 3, 4, 5}
  TestRequests <- KnownRequests

INIT HInit
NEXT HNext

\* A handshake ends; the model has one connection.
CHECK_DEADLOCK FALSE

INVARIANT PeersAgreeBeyondMl
