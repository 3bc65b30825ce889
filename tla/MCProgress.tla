----------------------------- MODULE MCProgress -----------------------------
(***************************************************************************)
(* What must happen in the end, in each component, under the fairness of   *)
(* its module.  The components share no variable here: a behaviour is one  *)
(* of the part it starts in, and the others stay as they begin.            *)
(***************************************************************************)
EXTENDS Integers, FiniteSets

CONSTANTS
    Parts,   \* the parts that are checked
    Callers, NoCaller, \* the actors of every part
    Main,    \* Service's own thread
    Watched, \* the actors whose waits are checked
    s1, s2, p1, p2, a1

VARIABLES
    part,
    clock, changes, active, held, due, spent, cache, lock, poll,
    epoch, \* LimitsCache
    up, routerClock, routerSlot, until, disk, next, files, home,
    refreshLock, stateLock, task, grants, signedOut, \* AccountRouter
    catalogClock, entry, lastAttempt, pendingSwitch,
    pendingCredentials, inner, reader, catalogHeld, catalogGrants,
    asked, reported, \* ModelCatalog
    host, calls, call, file, memory, keyFile, address, server,
    servers, born, running, signing, handle, phase, aborted, shown,
    url, account, retired, dropped \* Service

limitsVars == <<clock, changes, active, held, due, spent, cache, lock, poll,
                epoch>>
routerVars == <<up, routerClock, routerSlot, until, disk, next, files, home,
                refreshLock, stateLock, task, grants, signedOut>>
catalogVars == <<catalogClock, entry, lastAttempt, pendingSwitch,
                 pendingCredentials, inner, reader, catalogHeld,
                 catalogGrants, asked, reported>>
controlVars == <<host, calls, call, file, memory, keyFile, address, server,
                 servers, born, running, signing, handle, phase, aborted,
                 shown, url, account, retired, dropped>>
allVars == <<part, limitsVars, routerVars, catalogVars, controlVars>>

-----------------------------------------------------------------------------
(* The parts.                                                                *)

SignIns == 1 .. 3

\* Leases, sign-ins and sign-outs.
Router == INSTANCE AccountRouter WITH
    Tasks <- Callers, NoTask <- NoCaller, Accounts <- {a1}, NoAccount <- NoCaller,
    Ops <- {"request", "login", "logout"},
    CooldownSetting <- 3, MinCooldown <- 2, MaxCooldown <- 4,
    Resets <- {[at |-> 0, within |-> 0]},
    MaxTime <- 0, MaxGrants <- 2, clock <- routerClock, active <- routerSlot

Catalog == INSTANCE ModelCatalog WITH
    Readers <- Callers, NoReader <- NoCaller, Slots <- {s1}, NoSlot <- NoCaller,
    Discovery <- TRUE, TTL <- 2, RetryCooldown <- 1, MaxTime <- 2, MaxGrants <- 1,
    clock <- catalogClock, held <- catalogHeld, grants <- catalogGrants

\* Starts, stops and the reads of the status, from the window and the command
\* line.
Control == INSTANCE Service WITH
    Values <- {"a"}, Ops <- {"start", "stop", "status"},
    MaxServers <- 1, Tasks <- SignIns, MaxCalls <- 3

\* Sign-ins, cancellations and sign-outs, with no server.
Signing == INSTANCE Service WITH
    Values <- {"a"}, Ops <- {"login", "cancel_login", "logout"},
    MaxServers <- 0, Tasks <- SignIns, MaxCalls <- 3

\* Polls of the usage limits.
Limits == INSTANCE LimitsCache WITH
    Polls <- Callers, NoPoll <- NoCaller, Slots <- {s1, s2}, NoSlot <- NoCaller,
    Accounts <- {a1}, NoAccount <- NoCaller, CacheTtl <- 1, MaxTime <- 0,
    MaxChanges <- 1

-----------------------------------------------------------------------------
ProgressInit ==
    /\ part \in Parts
    /\ Router!Init /\ Catalog!Init /\ Control!Init /\ Limits!Init
    /\ files = [h \in Router!Homes |-> IF part = "router" /\ h = "primary"
                                       THEN [account |-> a1, grant |-> 1] ELSE Router!NoAuth]
    /\ part # "catalog" => catalogHeld = [s \in {s1} |-> 0]
    /\ part # "limits" => held = [s \in {s1, s2} |-> NoCaller] /\ active = s1

\* Whatever does not belong to the part stays as it is.
Others(own) ==
    /\ UNCHANGED part
    /\ IF own = "router" THEN TRUE ELSE UNCHANGED routerVars
    /\ IF own = "catalog" THEN TRUE ELSE UNCHANGED catalogVars
    /\ IF own = "service" THEN TRUE ELSE UNCHANGED controlVars
    /\ IF own = "limits" THEN TRUE ELSE UNCHANGED limitsVars

ProgressNext ==
    \/ part = "router" /\ Router!Next /\ Others("router")
    \/ part = "catalog" /\ Catalog!Next /\ Others("catalog")
    \/ part = "control" /\ Control!Next /\ Others("service")
    \/ part = "signin" /\ Signing!Next /\ Others("service")
    \/ part = "limits" /\ Limits!Next /\ Others("limits")

\* What an actor goes on with if it can again and again: the locks it waits for are
\* given in the order they were asked for.
GoesOn(p) ==
    \/ part = "router" /\ up /\ Router!Step(p) /\ Others("router")
    \/ part = "catalog" /\ Catalog!Step(p) /\ Others("catalog")
    \/ part = "limits" /\ (Limits!Hit(p) \/ Limits!Fetch(p)) /\ Others("limits")

\* The fairness of the modules.
ProgressFairness ==
    /\ \A p \in Callers :
         /\ SF_allVars(GoesOn(p))
         /\ WF_allVars(part = "limits" /\ Limits!FetchFails(p) /\ Others("limits"))
         /\ WF_allVars(part = "limits" /\ Limits!Stays(p) /\ Others("limits"))
    /\ \A c \in Callers \cup {Main} :
         /\ WF_allVars(part = "control" /\ Control!Works(c) /\ Others("service"))
         /\ WF_allVars(part = "signin" /\ Signing!Works(c) /\ Others("service"))
    /\ \A t \in SignIns :
         WF_allVars(part = "signin" /\ Signing!Settles(t) /\ Others("service"))
    /\ WF_allVars(/\ part = "control"
                  /\ Control!LoopEnds \/ Control!ExitEnds
                  /\ Others("service"))
    /\ WF_allVars(/\ part = "signin"
                  /\ Signing!OnceEnds \/ Signing!ExitEnds
                  /\ Others("service"))

ProgressSpec == ProgressInit /\ [][ProgressNext]_allVars /\ ProgressFairness

-----------------------------------------------------------------------------
(* Properties: those of the modules, of one actor.  The actors are alike: what *)
(* holds of one holds of the others.                                         *)

\* No lease, failover, sign-in or sign-out waits for ever for a lock
\* (account_router.rs).
OperationsEnd == \A t \in Watched : Router!OperationEnds(t)

\* Every read of the catalog is answered (catalog.rs, snapshot_inner).
ReadsEnd == \A r \in Watched : Catalog!ReadEnds(r)

\* Every command of the window or the command line is answered, or its connection
\* ends; and a sign-in ends, also when nobody comes back from the browser
\* (service.rs).
CommandsEnd ==
    /\ \A c \in Watched \cup {Main} : Control!CallEnds(c)
    /\ Signing!SignInEnds(1)

\* Every poll of the usage is answered (limits.rs).
PollsEnd == \A p \in Watched : Limits!PollEnds(p)
=============================================================================
