SPECIFICATION BothSpec
CONSTANTS
  MaxEvents = 5
INVARIANTS StreamAgreesWithWhole ChatAgreesWithWhole BothApisAgree
PROPERTIES ImplementsConsumer
CHECK_DEADLOCK FALSE
