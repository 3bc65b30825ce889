SPECIFICATION Spec
CONSTANTS
    t1 = t1
    t2 = t2
    a1 = a1
    a2 = a2
    Tasks = {t1, t2}
    NoTask = NoTask
    Accounts = {a1, a2}
    NoAccount = NoAccount
    Ops = {"probe", "switch", "login", "logout", "drop", "crash"}
    CooldownSetting = 3
    MinCooldown = 2
    MaxCooldown = 4
    Resets <- MCResets
    MaxTime = 0
    MaxGrants = 3
SYMMETRY Symmetry
INVARIANT SignedOutStaysOut
PROPERTIES RestartsResume NoStaleWriteBack
