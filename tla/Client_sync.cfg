\* The relay is down (no version), so that update threads fail at the manifest.
SPECIFICATION Spec
CONSTANTS
    Threads = {t1}
    Versions = {}
    AutoThread = autosync
    Base = base
    Data = data
    None = None
    Ops = {"sync", "autosync", "rich", "main", "open", "restart", "shutdown", "quit"}
    Preinstalled = {{}, {base}}
INVARIANTS TypeOK
PROPERTY UpdatingEnds
