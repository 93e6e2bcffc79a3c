SPECIFICATION Spec
CONSTANTS
    m1 = m1
    m2 = m2
    m3 = m3
    pdf = pdf
    exact = exact
    note = note
    none = none
    Mails = {m1, m2}
    Folders <- TwoFolders
    Root = "INBOX"
    SortedDirs <- WalkOrder
    Flags = {seen, answered}
    Unread = Unread
    Tools = {"library", "report", "attachments"}
    Structure <- Trees
    Date <- Dates
    Payloads = {pdf, exact, note, none}
    Size <- Lengths
    NoBytes = none
    Empty = {}
    Unborn = Unborn
    Gone = Gone
    MaxRenames <- Renames
SYMMETRY FlagSymmetry
INVARIANTS TypeOK MissedOnlyBehind AcceptedIsExact RowsAreRenames OneOriginal
CHECK_DEADLOCK FALSE
