\* Once the bound on commands is reached nothing need happen any more.
CHECK_DEADLOCK FALSE
SPECIFICATION Spec
CONSTANTS
    c1 = c1
    c2 = c2
    Callers = {c1, c2}
    Main = Main
    NoCaller = NoCaller
    Ops = {"start", "stop", "login", "cancel_login", "logout", "configure", "port", "status"}
    Values = {"a", "b"}
    MaxServers = 2
    Tasks = {1, 2}
    MaxCalls = 4
SYMMETRY Symmetry
INVARIANTS AddressIsLive OneSignIn PendingIsTrue
PROPERTIES CancelledNeverSignsIn
