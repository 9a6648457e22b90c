CONSTANTS
  SourceCount = 2
  ActiveSources <- MCActiveSources
  Contexts <- MCContexts
  MaximumPriority = 1
  WordBits = 2
SPECIFICATION Spec
INVARIANTS OneRequestPerSource
