SPECIFICATION Spec
CONSTANTS
    t1 = t1
    t2 = t2
    a1 = a1
    a2 = a2
    Tasks = {t1, t2}
    NoTask = NoTask
    Accounts = {a1}
    NoAccount = NoAccount
    Ops = {"request", "probe", "switch", "drop", "login"}
    CooldownSetting = 3
    MinCooldown = 2
    MaxCooldown = 4
    Resets <- MCResets
    MaxTime = 3
    MaxGrants = 2
SYMMETRY Symmetry
PROPERTIES OnlyTheActiveSlotIsParked CancelledNeverCommits
INVARIANTS SomewhereToGo
