\* Two timer messages against every step of putch, current, wait and read.
SPECIFICATION Spec
CONSTANTS
    Columns = 3
    Rows = 2
    Tab = 2
    Chars = {"char", "BS", "TAB", "CR", "NL"}
    Message <- TimerMessage
    HZ = 2
    MaxTime = 5
    MaxWait = 1
    Keys = {k1, k2}
INVARIANT CursorOnScreen
INVARIANT WritesNear
INVARIANT TimeNeverAhead
INVARIANT KeyFresh
PROPERTY KeyAnswered
