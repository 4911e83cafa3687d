SPECIFICATION Spec
CONSTANTS
    Aliases = {"dev1", "dev2"}
    ExtendedBy <- Unrelated
    Ports = {1, 2}
    Texts = {"u1", "u2"}
    Originals <- MCOriginals
    Commands = {c1, c2}
INVARIANTS
    TypeOK
    UserLinesKept
    BlocksAsWanted
    OneBlockPerAlias
    OriginalRestored
SYMMETRY Slots
