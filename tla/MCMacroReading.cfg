CONSTANTS
  MachineName = "Flow"
  Root = "crate"
  NoContext = NoContext
  Types <- TypesDef
  MaxDepth = 12
  NoType = NoType
  Variants = {"A", "B"}
  Environments <- EnvironmentsDef
  Lawful <- LawfulDef
  Impls <- ImplsDef
  MaxWeight = 5
  NotRead = NotRead
  Borrows = FALSE
  NoState = NoState
  NoImpl = NoImpl
SPECIFICATION ReadingSpec
INVARIANTS PrimaryLeads StrictNeverInvents PlainTypesAreExact
  PlansAreTheImpl ScansFollowRust QueriesFindTheItems
CHECK_DEADLOCK FALSE
