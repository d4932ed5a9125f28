SPECIFICATION FairSpec
CONSTANTS
  Types <- MCTypes
  Lists <- MCLists
  Defaults <- MCDefaults
  Converts <- MCConverts
  MaxConsumers = 5
INVARIANTS TypeOK FreeListExact RoutesExact UnhandledLast
PROPERTIES ImplementsTable RoutingEnds
