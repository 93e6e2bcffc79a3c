SPECIFICATION ReadsSpec
CONSTANTS
    base = base
    v1 = v1
    a = a
    b = b
    c = c
    d = d
    e = e
    f = f
    Threads = {t1}
    Versions = {v1}
    AutoThread = autosync
    Base = base
    Data = data
    None = None
    Ops = {"textual", "rich", "open", "restart", "shutdown", "quit", "crash"}
    Preinstalled = {{base}}
    Rows <- MailRows
    Wanted = {a, b, c, e, f}
    PerPage = 2
INVARIANTS UpdatingHasWorker ClosedOnlyInTransit RunningHasDb LabelFollowsOpen  NoMailSkipped
