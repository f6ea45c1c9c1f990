\* Two options and a message with two more.
CONSTANTS
    h1 = h1
    h2 = h2
    b1 = b1
    b2 = b2
    b3 = b3
    b4 = b4
    Handles <- TwoHandles
    Blocks <- FourBlocks
    Codes <- SomeCodes
    NonEmpty <- EtagOnly
    Values <- SomeValues
    MaxOptions = 2
SPECIFICATION Spec
SYMMETRY Symmetry
INVARIANTS
    BlocksAreOwned
    ValuesAreIntact
    
