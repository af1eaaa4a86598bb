SPECIFICATION MessageSpec
CONSTANTS
    Names <- SomeNames
    Values <- SomeValues
    PeerLines <- SomeLines
    Bodies <- SomeBodies
    Room = {8, 16}
    MaxLines = 3
INVARIANTS
    MessageComesBack
PROPERTIES
    PassesAreComplete
