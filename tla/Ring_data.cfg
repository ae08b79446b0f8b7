SPECIFICATION Spec
CONSTANTS
    Cap = 4
    Width = 8
    Cell = {0, 1, 7}
    MaxIo = 3
    MaxLen = 3
    Writers = {"slave"}
VIEW MCView
INVARIANTS
    RingTypeOK
PROPERTIES
    ImplementsStream
    ImplementsMessages
