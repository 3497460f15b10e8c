CONSTANTS
    Clients = {c1, c2}
    MaxVersion = 1
SPECIFICATION Spec
INVARIANT ErrorsAreSent
