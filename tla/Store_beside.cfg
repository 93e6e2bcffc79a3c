SPECIFICATION Spec
CONSTANTS
    m1 = m1
    m2 = m2
    box1 = box1
    box2 = box2
    a1 = a1
    a2 = a2
    Mails = {m1, m2}
    Mailboxes = {box1}
    Attachments = {a1, a2}
    BoxOf <- OneBox
    PartsOf <- Parts
    Columns = {to_addrs, body_text}
    Global = global
    None = None
    Runs = {r1, r2}
    Commands = {"sync-all", "index-mailbox"}
    MaxStops = 1
SYMMETRY RunSymmetry
INVARIANTS MigratedBeforeUse GlobalWithinLocal DamagedInTransit
