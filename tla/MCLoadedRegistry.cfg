SPECIFICATION InstanceSpec
CONSTANTS
  One = One
  Other = Other
  a = a
  b = b
  Flow = Flow
  FlowState = FlowState
  On = On
  Off = Off
  Clone = Clone
  BaseModule = crate
  Modules = {a, b, crate}
  Names = {Flow, FlowState}
  Variants = {On, Off}
  Derives = {Clone}
  Crates = {One, Other}
  Texts <- AllTexts
  MaxVersion = 2
  NoPass = NoPass
  NoMachine = NoMachine
INVARIANTS FirstPassFollowsTheText NoStaleBinding AgainTheSame
CHECK_DEADLOCK FALSE
