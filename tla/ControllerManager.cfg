SPECIFICATION FairSpec
CONSTANTS
  Clients = {{"pulse"}, {"continuous"}, {"speaker"}, {"game", "observer"}, {"fault", "observer"}}
  Outputs = {"neutral", "charged"}
  Neutral = "neutral"
  Unknown = "unknown"
  Capacity = 1
  MaxConnections = 2
  MaxToggles = 2
INVARIANTS TypeOK NoReplay RouteFollowsSetting InputIsCurrent ObserverReleased AppliedIsShown RetryPolicy FlagsNameTheLink
PROPERTIES StopReturns
