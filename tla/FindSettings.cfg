\* A host that is only a slash, and a NO_COLOR that is set to nothing.  Each
\* property fails on its own: take one out to see the other.
SPECIFICATION Spec
CONSTANTS
    None = None
    Proc = {p1}
    Key = {"apiHost", "color"}
    Texts <- Slashes
    Starts <- AnyNoColor
    Faults = {}
INVARIANTS
    SavedLoads
    NoColorOff
