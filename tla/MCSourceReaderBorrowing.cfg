CONSTANTS
  MachineName = "Flow"
  Root = "crate"
  NoContext = NoContext
  Types <- TypesDef
  MaxDepth = 12
  NoType = NoType
  Variants = {"A", "B"}
  Environments <- EnvironmentsDef
  Lawful <- LawfulDef
  Impls <- ImplsDef
  MaxWeight = 5
  NotRead = NotRead
  Borrows = TRUE
  NoState = NoState
  NoImpl = NoImpl
SPECIFICATION ReadingSpec
INVARIANT QueriesFindTheItems
CHECK_DEADLOCK FALSE
