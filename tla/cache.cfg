SPECIFICATION Spec
CONSTANTS
  Keys <- WholeKeys
  Digests = {"d1", "d2", "d3"}
  Content <- WholeContent
  AnyPorts <- WholeAny
  Needs <- WholeNeeds
  ProcessKeys = {"fit", "twin"}
  Weight <- WholeWeight
  MemMax = 2
  DiskMax = 2
  MaxCrashes = 1
INVARIANTS MemoryAccount LookupWholeOrNothing DanglingOnlyFromAdopt
PROPERTY CollectionIsExact
