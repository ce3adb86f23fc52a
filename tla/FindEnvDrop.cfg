SPECIFICATION Spec
CONSTANTS
    None = None
    Proc = {p1}
    Key = {"apiHost", "concurrency"}
    Texts <- Two
    Starts <- AnyEnvironment
    Faults = {}
PROPERTIES
    OwnedKept
