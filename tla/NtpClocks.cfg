CONSTANTS
  Check <- AllChecks
  Resolution <- Resolutions
  Warning <- Warnings
  Critical <- Criticals
  ByStratum <- PeerChecks
  Era = 6
  Skews <- LocalSkews
  Strata <- AnyStratum
  Stale <- Earlier
  Start <- Begin
  MaxReplies = 2
  Horizon = 6
SPECIFICATION Spec
INVARIANTS IInv OffsetIsAccurate VerdictFollowsClock BeyondCriticalIsCritical
