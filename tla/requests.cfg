\* Lists of up to three resources, observed or not.
CONSTANTS
    Resource <- SomeResources
    Names <- SomeNames
    Methods <- OneMethod
    Tokens <- TwoTokens
    Avails <- SomeAvails
    MaxResources = 3
    MaxSerial = 4
SPECIFICATION Spec
INVARIANTS
    WellKnownInOrder
    
    RegistrationsBalanced
    
PROPERTY
    NamesAreStable
