\* config set while config.json cannot be opened: a malformed file, and the
\* other settings.  Each property fails on its own.
SPECIFICATION Spec
CONSTANTS
    None = None
    Proc = {p1}
    Key = {"apiHost", "concurrency"}
    Texts <- Two
    Starts <- NoEnvironment
    Faults = {"hand", "unreadable"}
PROPERTIES
    BrokenUntouched
    OwnedKept
