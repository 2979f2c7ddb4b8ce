CONSTANTS
  Documents <- MCDocuments
  Quarantines <- MCQuarantines
  Subgraphs <- MCSubgraphs
  SubgraphTypes <- MCSubgraphTypes
  Registry <- MCRegistry
  Scalars <- MCScalars
  CompatibleWith <- MCCompatibleWith
  ANY_TYPE = "Any"
  JSON_TYPE = "Json"
  BadValue = "bad"
  MAX_SUBGRAPH_DEPTH = 2
  Rank <- MCRank
SPECIFICATION CompileSpec
INVARIANTS OrderIsTopological StuckIsCyclic GraphIsWhatCanRun InputsArrive
CHECK_DEADLOCK FALSE
