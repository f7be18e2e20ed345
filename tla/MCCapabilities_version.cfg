\* The receiver's parsing of every request of up to two parameters, and of
\* a "ver" that no agent sends: 6, 7 or a mask without a framing bit.
CONSTANTS
  Compressors <- MCCompressors
  DisableChoices = {{}}
  MaxMlChanges = 0
  OldVersions = {1}
  TestRequests <- AnyRequests

INIT HInit
NEXT HNext

CHECK_DEADLOCK FALSE

INVARIANT EveryRequestHasOneFraming
