SPECIFICATION Spec
CONSTANTS
    Aliases = {"dev1", "dev10"}
    ExtendedBy <- Prefixed
    Ports = {1, 2}
    Texts = {"u1", "u2"}
    Originals <- MCOriginals
    Commands = {c1}
INVARIANTS
    BlocksAsWanted
