CONSTANTS
  SourceCount = 2
  ActiveSources <- MCActiveSources
  Contexts <- MCContexts
  MaximumPriority = 3
  WordBits = 2
SPECIFICATION DriverSpec
INVARIANTS NotificationIsClaimable NoGatewayStuck
PROPERTIES NoRequestLost ClaimIsBest ImplementsGateways
