\* Commands at their bound leave nothing to do.
CHECK_DEADLOCK FALSE
SPECIFICATION ProgressSpec
CONSTANTS
    Parts = {"router", "catalog", "control", "signin", "limits"}
    p1 = p1
    p2 = p2
    Callers = {p1, p2}
    NoCaller = NoCaller
    Main = Main
    Watched = {p1}
    s1 = s1
    s2 = s2
    a1 = a1
PROPERTIES OperationsEnd ReadsEnd CommandsEnd PollsEnd
