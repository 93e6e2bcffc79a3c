SPECIFICATION Spec
CONSTANTS
    Threads = {t1, t2}
    Versions = {v1, v2}
    AutoThread = autosync
    Base = base
    Data = data
    None = None
    Ops = {"update", "stream", "crash"}
    Preinstalled = {{}, {base}, {v1}}
SYMMETRY ThreadSymmetry
INVARIANTS OneJob InstallsComplete VerifiedOnly
PROPERTY StreamOutlivesJob
