SPECIFICATION Spec
CONSTANTS
    mX = mX
    mY = mY
    mXY = mXY
    mZero = mZero
    mNone = mNone
    x = x
    y = y
    none = none
    Mails = {mX, mY, mXY, mZero, mNone}
    Structure <- Trees
    Payloads = {x, y, none}
    Size <- Lengths
    NoBytes = none
    N = 4
    Date <- Dates
    None = None
INVARIANTS TypeOK GroupsAreComponents OldestFirst
PROPERTIES JoinsOnly Terminates
CHECK_DEADLOCK FALSE
