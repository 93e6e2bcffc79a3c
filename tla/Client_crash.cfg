SPECIFICATION Spec
CONSTANTS
    Threads = {t1}
    Versions = {v1}
    AutoThread = autosync
    Base = base
    Data = data
    None = None
    Ops = {"update", "crash"}
    Preinstalled = {{base}}
INVARIANT RunningIsComplete
