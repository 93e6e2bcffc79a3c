SPECIFICATION Spec
CONSTANTS
    Threads = {t1, t2}
    Versions = {v1}
    AutoThread = autosync
    Base = base
    Data = data
    None = None
    Ops = {"update", "open"}
    Preinstalled = {{base}}
SYMMETRY ThreadSymmetry
INVARIANT OneJob
