CONSTANTS
  MachineName = "Flow"
  Root = "crate"
  NoContext = NoContext
  Types <- TypesDef
  MaxDepth = 12
  NoType = NoType
  Variants = {"A", "B"}
  Environments <- EnvironmentsDef
  Lawful <- LawfulDef
  Impls <- ImplsDef
  MaxWeight = 1
  NotRead = NotRead
  Borrows = FALSE
  NoState = NoState
  NoImpl = NoImpl
SPECIFICATION ReadingSpec
INVARIANT StrictIsExact
CHECK_DEADLOCK FALSE
