SPECIFICATION Spec
CONSTANTS
    Bits = 3
    Endpoints <- SomeEndpoints
    Addresses <- OneAddress
    Names <- SomeNames
    Patterns <- SomePatterns
    Ports = {22, 443}
    Letters = {"a"}
    MaxLength = 3
INVARIANTS
    RoutesLeaveOutOnlyNodes
    CarriedAsPublished
    CommandLineSurvives
CHECK_DEADLOCK FALSE
