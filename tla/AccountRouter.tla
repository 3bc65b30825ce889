--------------------------- MODULE AccountRouter ---------------------------
(***************************************************************************)
(* The account router of praxis-relay (src/core/account_router.rs): two    *)
(* subscription slots, the one that is active, the time until which each   *)
(* is parked, and the credential files the slots live in.                  *)
(*                                                                         *)
(* Tasks run the router's operations concurrently.  A step of a task is    *)
(* what the code does between two of its awaits: a lease waits for the     *)
(* slot's refresh lock and may rewrite the credentials after a network     *)
(* refresh; a failover chooses a standby, leases it, and commits later; a  *)
(* sign-in or sign-out holds the refresh lock while it waits for the state *)
(* lock.  A commit is two steps, the write of the state file and the move  *)
(* of memory.  A task may be dropped at any await, and the process may     *)
(* crash between any two steps.                                            *)
(***************************************************************************)
EXTENDS Integers

CONSTANTS
    Tasks,           \* concurrent callers of the router
    NoTask,          \* the holder of a free lock
    Accounts,        \* ChatGPT account ids
    NoAccount,
    Ops,             \* the operations callers use: a subset of AllOps
    CooldownSetting, \* RELAY_ACCOUNT_COOLDOWN_SECONDS, or its default
    MinCooldown,     \* MIN_COOLDOWN_SECONDS
    MaxCooldown,     \* MAX_COOLDOWN_SECONDS
    Resets,          \* the resets a vendor's refusal may name
    MaxTime,         \* bound on the clock
    MaxGrants        \* bound on the number of sign-ins

AllOps == {"request", "probe", "switch", "login", "logout", "drop", "crash"}

ASSUME TasksAssumption == NoTask \notin Tasks
ASSUME AccountsAssumption == NoAccount \notin Accounts
ASSUME OpsAssumption == Ops \subseteq AllOps
ASSUME CooldownAssumption ==
    /\ CooldownSetting \in Nat
    /\ MinCooldown \in Nat \ {0}
    /\ MaxCooldown \in Nat
    /\ MinCooldown <= MaxCooldown
ASSUME ResetsAssumption == Resets \subseteq [at : Int, within : Int]
ASSUME BoundsAssumption == MaxTime \in Nat /\ MaxGrants \in Nat

-----------------------------------------------------------------------------
(* Slots, credential files and the arithmetic of a park.                     *)

Slots == {"primary", "secondary"}
NoSlot == "none"

\* The directories that may hold an auth.json: the legacy root and one
\* profile per slot.
Homes == {"root", "primary", "secondary"}

\* Every directory that may hold credentials of a slot.
HomesOf(s) == IF s = "primary" THEN {"root", "primary"} ELSE {"secondary"}

\* The credentials in one auth.json: the account they belong to and the
\* sign-in that granted them.  A token refresh renews a grant in place.
Auths == [account : Accounts, grant : Nat]
NoAuth == [account |-> NoAccount, grant |-> 0]

Clamp(seconds) ==
    CASE seconds < MinCooldown -> MinCooldown
      [] seconds > MaxCooldown -> MaxCooldown
      [] OTHER                 -> seconds

Cooldown == Clamp(CooldownSetting)

\* Seconds until the reset a refusal names; 0 when it names no usable one.
\* A field the vendor left out is 0.
SecondsAfter(reset, now) ==
    CASE reset.within > 0   -> reset.within
      [] reset.within <= 0 /\ reset.at > now -> reset.at - now
      [] OTHER              -> 0

ParkedFor(reset, now) ==
    LET named == SecondsAfter(reset, now)
    IN  IF named > 0 THEN Clamp(named) ELSE Cooldown

-----------------------------------------------------------------------------
VARIABLES
    up,          \* the process is running
    clock,       \* Utc::now()
    active,      \* state.active
    until,       \* state.exhausted_until; 0 for a slot with no entry
    disk,        \* the persisted state file, or NoState
    next,        \* the state a commit has written and not moved to, or NoState
    files,       \* the auth.json in each of Homes
    home,        \* AccountProfile.auth_home, fixed when the router opens
    refreshLock, \* AccountProfile.refresh_lock: the task that holds it
    stateLock,   \* the state mutex, when it is held over more than one step
    task,        \* what each task is doing
    grants,      \* sign-ins so far
    signedOut    \* history: slots signed out and not signed in since

vars == <<up, clock, active, until, disk, next, files, home, refreshLock, stateLock,
          task, grants, signedOut>>

NoState == [active |-> NoSlot, until |-> [s \in Slots |-> 0]]

PCs == {"idle", "acquire", "refresh", "choose", "commit", "committing",
        "written", "serving", "refused", "oauth", "installed", "signingOut", "removed"}

\* Why a task is leasing a slot: the active slot for a caller, the standby
\* after it failed, the standby of an exhausted slot, the slot a concurrent
\* failover left active, or the slot an operator wants.
Aims == {"none", "active", "standby", "spare", "follow", "wanted"}

\* The downstream of a task: it has none, it is there, or it is cancelled.
Clients == {"none", "open", "cancelled"}

Task == [pc      : PCs,
         aim     : Aims,
         slot    : Slots \cup {NoSlot},          \* the slot it works on
         from    : Slots \cup {NoSlot},          \* the slot it moves away from
         auth    : Auths \cup {NoAuth},          \* read, and being refreshed
         account : Accounts \cup {NoAccount},    \* the account it leased
         refused : Accounts \cup {NoAccount},    \* the account that refused it
         now     : Nat,                          \* the time it read
         client  : Clients]

Idle == [pc |-> "idle", aim |-> "none", slot |-> NoSlot, from |-> NoSlot,
         auth |-> NoAuth, account |-> NoAccount, refused |-> NoAccount,
         now |-> 0, client |-> "none"]

Present(h, s) == files[h[s]] # NoAuth
Configured(s) == Present(home, s)

\* The slots a failover may move to: signed in, another slot, not parked.
Standbys(from, now) ==
    {s \in Slots : Configured(s) /\ s # from /\ until[s] <= now}

\* Where each slot is looked for: the legacy root serves primary only when the
\* primary profile holds nothing.
HomesFound == [s \in Slots |-> IF s = "primary" /\ files["primary"] = NoAuth
                               THEN "root" ELSE s]

\* The first signed-in slot in ACCOUNT_SLOTS order, or primary.
FirstPresent(h) ==
    IF ~Present(h, "primary") /\ Present(h, "secondary")
    THEN "secondary" ELSE "primary"

Become(t, r) == task' = [task EXCEPT ![t] = r]

\* Mutant of Released: an operation that ends keeps its lock.
NothingReleased(t) == refreshLock

Released(t) == [s \in Slots |-> IF refreshLock[s] = t THEN NoTask
                                ELSE refreshLock[s]]

\* What memory routes by.
Routing == [active |-> active, until |-> until]

\* Mutant of Write: memory moves first, and the write may fail.
MoveThenWrite(t, r) ==
    /\ active' = r.active
    /\ until' = r.until
    /\ disk' \in {disk, r}
    /\ next' = r
    /\ stateLock' = t
    /\ Become(t, [task[t] EXCEPT !.pc = "written"])

\* persist(&next): the state file is replaced as a whole.  The state lock is held
\* until memory has moved too.
Write(t, r) ==
    /\ disk' = r
    /\ next' = r
    /\ stateLock' = t
    /\ Become(t, [task[t] EXCEPT !.pc = "written"])
    /\ UNCHANGED <<active, until>>

routing == <<active, until, disk, next>>
process == <<up, clock, home>>
history == <<grants, signedOut>>

Init ==
    /\ up = FALSE
    /\ clock = 0
    /\ active = NoSlot
    /\ until = NoState.until
    /\ disk = NoState
    /\ next = NoState
    /\ files \in [Homes -> [account : Accounts, grant : {1}] \cup {NoAuth}]
    /\ home = [s \in Slots |-> s]
    /\ refreshLock = [s \in Slots |-> NoTask]
    /\ stateLock = NoTask
    /\ task = [t \in Tasks |-> Idle]
    /\ grants = 1
    /\ signedOut = {}

-----------------------------------------------------------------------------
(* The process: open, crash, the clock.                                      *)

\* AccountRouter::open: a persisted active slot that is signed out gives way to
\* the first one signed in.
Open ==
    /\ ~up
    /\ LET h == HomesFound
           a == IF disk.active \in Slots /\ Present(h, disk.active)
                THEN disk.active ELSE FirstPresent(h)
       IN  /\ home' = h
           /\ active' = a
           /\ until' = disk.until
           /\ disk' = Routing'
    /\ next' = NoState
    /\ up' = TRUE
    /\ UNCHANGED <<clock, files, refreshLock, stateLock, task, history>>

\* What memory held, and what was being committed, is kept as history.
Crash ==
    /\ "crash" \in Ops
    /\ up
    /\ up' = FALSE
    /\ task' = [t \in Tasks |-> Idle]
    /\ refreshLock' = [s \in Slots |-> NoTask]
    /\ stateLock' = NoTask
    /\ UNCHANGED <<clock, routing, files, home, history>>

Tick ==
    /\ clock < MaxTime
    /\ clock' = clock + 1
    /\ UNCHANGED <<up, routing, files, home, refreshLock, stateLock, task,
                   history>>

-----------------------------------------------------------------------------
(* lease_slot: under the slot's refresh lock, read the credentials and, when *)
(* they are stale, refresh them over the network and write them back.        *)

Serving(t, slot, account) ==
    [Idle EXCEPT !.pc = "serving", !.slot = slot, !.account = account,
                 !.client = task[t].client]

\* Where a lease of `account` leads.  A standby that turns out to be the
\* refused account itself is no standby.
AfterLease(t, account) ==
    CASE task[t].aim \in {"active", "follow"} ->
           Serving(t, task[t].slot, account)
      [] task[t].aim = "spare" /\ account = task[t].refused -> Idle
      [] OTHER ->
           [task[t] EXCEPT !.pc = "commit", !.auth = NoAuth,
                           !.account = account]

\* Credentials that need no refresh.
Lease(t) ==
    LET s == task[t].slot IN
    /\ task[t].pc = "acquire"
    /\ refreshLock[s] = NoTask
    /\ Configured(s)
    /\ Become(t, AfterLease(t, files[home[s]].account))
    /\ UNCHANGED <<process, routing, files, refreshLock, stateLock, history>>

BeginRefresh(t) ==
    LET s == task[t].slot IN
    /\ task[t].pc = "acquire"
    /\ refreshLock[s] = NoTask
    /\ Configured(s)
    /\ refreshLock' = [refreshLock EXCEPT ![s] = t]
    /\ Become(t, [task[t] EXCEPT !.pc = "refresh", !.auth = files[home[s]]])
    /\ UNCHANGED <<process, routing, files, stateLock, history>>

\* The refresh answered: the file is read again, and the tokens renewed from
\* those that were read first replace the ones in it.
EndRefresh(t) ==
    LET s == task[t].slot
        renewed == [files[home[s]] EXCEPT !.grant = task[t].auth.grant] IN
    /\ task[t].pc = "refresh"
    /\ Configured(s)
    /\ files' = [files EXCEPT ![home[s]] = renewed]
    /\ refreshLock' = Released(t)
    /\ Become(t, AfterLease(t, renewed.account))
    /\ UNCHANGED <<process, routing, stateLock, history>>

\* No credentials, unusable ones, or a refresh that failed or timed out.  A
\* failed lease of the active slot sends lease_any to the standby.
LeaseFails(t) ==
    LET s == task[t].slot IN
    /\ \/ task[t].pc = "acquire" /\ refreshLock[s] = NoTask
       \/ task[t].pc = "refresh"
    /\ refreshLock' = Released(t)
    /\ Become(t, IF task[t].aim = "active"
                 THEN [Idle EXCEPT !.pc = "choose", !.from = s, !.now = clock,
                                   !.client = task[t].client]
                 ELSE Idle)
    /\ UNCHANGED <<process, routing, files, stateLock, history>>

-----------------------------------------------------------------------------
(* lease_any: for a chat or image request, whose downstream may cancel it,   *)
(* or for a catalog or usage probe, which nothing cancels.                   *)

LeaseAny(t, op) ==
    /\ op \in Ops
    /\ task[t].pc = "idle"
    /\ stateLock = NoTask
    /\ Become(t, [Idle EXCEPT !.pc = "acquire", !.aim = "active",
                              !.slot = active,
                              !.client = IF op = "request" THEN "open"
                                         ELSE "none"])
    /\ UNCHANGED <<process, routing, files, refreshLock, stateLock, history>>

\* The first usable standby, as the state stands now, or an error.
TryStandby(t, aim) ==
    LET standbys == Standbys(task[t].from, task[t].now) IN
    \/ \E s \in standbys :
         Become(t, [task[t] EXCEPT !.pc = "acquire", !.aim = aim, !.slot = s])
    \/ standbys = {} /\ Become(t, Idle)

ChooseStandby(t) ==
    /\ task[t].pc = "choose"
    /\ stateLock = NoTask
    /\ TryStandby(t, "standby")
    /\ UNCHANGED <<process, routing, files, refreshLock, stateLock, history>>

-----------------------------------------------------------------------------
(* switch_after_quota: the upstream refused the leased account.              *)

\* The refusal is in; the clock is read before the state lock is awaited.
Refuse(t) ==
    /\ task[t].pc = "serving"
    /\ Become(t, [Idle EXCEPT !.pc = "refused", !.from = task[t].slot,
                              !.refused = task[t].account, !.now = clock,
                              !.client = task[t].client])
    /\ UNCHANGED <<process, routing, files, refreshLock, stateLock, history>>

\* Another task has moved the relay already: lease what it left active.
Follow(t) ==
    Become(t, [Idle EXCEPT !.pc = "acquire", !.aim = "follow", !.slot = active,
                           !.client = task[t].client])

ChooseSpare(t) ==
    /\ task[t].pc = "refused"
    /\ stateLock = NoTask
    /\ IF active # task[t].from THEN Follow(t) ELSE TryStandby(t, "spare")
    /\ UNCHANGED <<process, routing, files, refreshLock, stateLock, history>>

-----------------------------------------------------------------------------
(* The commit of a failover, under the state lock and the permit that a      *)
(* cancellation has to wait for.                                             *)

\* The state lock is taken; a refusal that finds another slot active follows
\* it, and a downstream cancelled before this point commits nothing.
EnterCommit(t) ==
    /\ task[t].pc = "commit"
    /\ task[t].aim \in {"standby", "spare"}
    /\ stateLock = NoTask
    /\ IF task[t].aim = "spare" /\ active # task[t].from
       THEN Follow(t) /\ UNCHANGED stateLock
       ELSE IF task[t].client = "cancelled"
            THEN Become(t, Idle) /\ UNCHANGED stateLock
            ELSE /\ Become(t, [task[t] EXCEPT !.pc = "committing"])
                 /\ stateLock' = t
    /\ UNCHANGED <<process, routing, files, refreshLock, history>>

\* The task has what it came for; without a commit of its own the lock is free.
Serve(t) ==
    /\ Become(t, Serving(t, task[t].slot, task[t].account))
    /\ stateLock' = NoTask
    /\ UNCHANGED routing

\* The state a failover moves to: the failed slot is parked.
Parked(t, seconds) ==
    [active |-> task[t].slot,
     until  |-> [until EXCEPT ![task[t].from] = task[t].now + seconds]]

\* Mutant of CommitStandby: every caller that saw the failure parks.
CommitAlways(t) ==
    /\ task[t].pc = "committing"
    /\ task[t].aim = "standby"
    /\ Write(t, Parked(t, Cooldown))
    /\ UNCHANGED <<process, files, refreshLock, history>>

\* Mutant of CommitStandby: from and slot swapped.
CommitSwapped(t) ==
    LET r == task[t] IN
    /\ r.pc = "committing"
    /\ r.aim = "standby"
    /\ IF active = r.from
       THEN Write(t, [active |-> r.from,
                      until |-> [until EXCEPT ![r.slot] = r.now + Cooldown]])
       ELSE Serve(t)
    /\ UNCHANGED <<process, files, refreshLock, history>>

\* lease_any parks the failed slot only if it is still the active one; either
\* way the caller is served by the standby it leased.
CommitStandby(t) ==
    /\ task[t].pc = "committing"
    /\ task[t].aim = "standby"
    /\ IF active = task[t].from THEN Write(t, Parked(t, Cooldown)) ELSE Serve(t)
    /\ UNCHANGED <<process, files, refreshLock, history>>

CommitSpare(t) ==
    /\ task[t].pc = "committing"
    /\ task[t].aim = "spare"
    /\ \E reset \in Resets : Write(t, Parked(t, ParkedFor(reset, task[t].now)))
    /\ UNCHANGED <<process, files, refreshLock, history>>

\* *state = next: the second half of every commit.  The locks are given back.
Move(t) ==
    /\ task[t].pc = "written"
    /\ active' = next.active
    /\ until' = next.until
    /\ next' = NoState
    /\ stateLock' = NoTask
    /\ refreshLock' = Released(t)
    /\ Become(t, IF task[t].aim \in {"standby", "spare"}
                 THEN Serving(t, task[t].slot, task[t].account)
                 ELSE Idle)
    /\ UNCHANGED <<process, disk, files, history>>

\* The state file of a failover, a switch, a sign-in or a sign-out could not be
\* written: nothing moves, and the operation ends with the error.
WriteFails(t) ==
    LET r == task[t] IN
    /\ \/ r.pc = "committing" /\ (r.aim = "spare" \/ active = r.from)
       \/ r.pc = "commit" /\ r.aim = "wanted" /\ stateLock = NoTask
       \/ r.pc \in {"installed", "removed"} /\ stateLock = NoTask
    /\ Become(t, Idle)
    /\ refreshLock' = Released(t)
    /\ stateLock' = NoTask
    /\ UNCHANGED <<process, routing, files, history>>

-----------------------------------------------------------------------------
(* switch_to: a deliberate move, validated by a lease before the state moves *)

Switch(t, s) ==
    /\ "switch" \in Ops
    /\ task[t].pc = "idle"
    /\ Configured(s)
    /\ Become(t, [Idle EXCEPT !.pc = "acquire", !.aim = "wanted", !.slot = s])
    /\ UNCHANGED <<process, routing, files, refreshLock, stateLock, history>>

CommitSwitch(t) ==
    LET s == task[t].slot IN
    /\ task[t].pc = "commit"
    /\ task[t].aim = "wanted"
    /\ stateLock = NoTask
    /\ Write(t, [active |-> s, until |-> [until EXCEPT ![s] = 0]])
    /\ UNCHANGED <<process, files, refreshLock, history>>

-----------------------------------------------------------------------------
(* login: OAuth is staged aside; only the replacement of the credentials and *)
(* the state write happen under the slot's refresh lock.                     *)

Login(t, s) ==
    /\ "login" \in Ops
    /\ task[t].pc = "idle"
    /\ Become(t, [Idle EXCEPT !.pc = "oauth", !.slot = s])
    /\ UNCHANGED <<process, routing, files, refreshLock, stateLock, history>>

\* Mutant of Install: credentials are replaced under a refresh in flight.
InstallAtOnce(t) ==
    LET s == task[t].slot IN
    /\ task[t].pc = "oauth"
    /\ grants < MaxGrants
    /\ grants' = grants + 1
    /\ \E a \in Accounts :
         files' = [files EXCEPT ![home[s]] = [account |-> a, grant |-> grants']]
    /\ refreshLock' = [refreshLock EXCEPT ![s] = t]
    /\ signedOut' = signedOut \ {s}
    /\ Become(t, [task[t] EXCEPT !.pc = "installed"])
    /\ UNCHANGED <<process, routing, stateLock>>

Install(t) ==
    LET s == task[t].slot IN
    /\ task[t].pc = "oauth"
    /\ refreshLock[s] = NoTask
    /\ grants < MaxGrants
    /\ grants' = grants + 1
    /\ \E a \in Accounts :
         files' = [files EXCEPT ![home[s]] = [account |-> a, grant |-> grants']]
    /\ refreshLock' = [refreshLock EXCEPT ![s] = t]
    /\ signedOut' = signedOut \ {s}
    /\ Become(t, [task[t] EXCEPT !.pc = "installed"])
    /\ UNCHANGED <<process, routing, stateLock>>

\* OAuth failed, or the staged credentials could not be installed.
LoginFails(t) ==
    /\ task[t].pc = "oauth"
    /\ Become(t, Idle)
    /\ UNCHANGED <<process, routing, files, refreshLock, stateLock, history>>

\* A new sign-in lifts the slot's park.
Admit(t) ==
    LET s == task[t].slot IN
    /\ task[t].pc = "installed"
    /\ stateLock = NoTask
    /\ Write(t, [active |-> active, until |-> [until EXCEPT ![s] = 0]])
    /\ UNCHANGED <<process, files, refreshLock, history>>

-----------------------------------------------------------------------------
(* logout: every historical representation of the slot goes, under its       *)
(* refresh lock; then an active slot gives way to the other one signed in.   *)

Logout(t, s) ==
    /\ "logout" \in Ops
    /\ task[t].pc = "idle"
    /\ Become(t, [Idle EXCEPT !.pc = "signingOut", !.slot = s])
    /\ UNCHANGED <<process, routing, files, refreshLock, stateLock, history>>

\* Mutant of SignOut: only the directory in use is cleared.
SignOutOfHome(t) ==
    LET s == task[t].slot IN
    /\ task[t].pc = "signingOut"
    /\ refreshLock[s] = NoTask
    /\ files' = [files EXCEPT ![home[s]] = NoAuth]
    /\ refreshLock' = [refreshLock EXCEPT ![s] = t]
    /\ Become(t, [task[t] EXCEPT !.pc = "removed"])
    /\ UNCHANGED <<process, routing, stateLock, history>>

SignOut(t) ==
    LET s == task[t].slot IN
    /\ task[t].pc = "signingOut"
    /\ refreshLock[s] = NoTask
    /\ files' = [h \in Homes |-> IF h \in HomesOf(s) THEN NoAuth ELSE files[h]]
    /\ refreshLock' = [refreshLock EXCEPT ![s] = t]
    /\ Become(t, [task[t] EXCEPT !.pc = "removed"])
    /\ UNCHANGED <<process, routing, stateLock, history>>

\* A removal failed: the first one, or for primary a later one.
SignOutFails(t) ==
    LET s == task[t].slot IN
    /\ task[t].pc = "signingOut"
    /\ refreshLock[s] = NoTask
    /\ \/ files' = files
       \/ /\ s = "primary"
          /\ files' = [files EXCEPT ![home[s]] = NoAuth]
    /\ Become(t, Idle)
    /\ UNCHANGED <<process, routing, refreshLock, stateLock, history>>

Settle(t) ==
    LET s == task[t].slot
        others == {o \in Slots : o # s /\ Configured(o)} IN
    /\ task[t].pc = "removed"
    /\ stateLock = NoTask
    /\ \E a \in IF active = s /\ others # {} THEN others ELSE {active} :
         Write(t, [active |-> a, until |-> [until EXCEPT ![s] = 0]])
    /\ signedOut' = signedOut \cup {s}
    /\ UNCHANGED <<process, files, refreshLock, grants>>

-----------------------------------------------------------------------------
(* What callers do to a task: end it, cancel its downstream, drop it.        *)

Finish(t) ==
    /\ task[t].pc = "serving"
    /\ Become(t, Idle)
    /\ UNCHANGED <<process, routing, files, refreshLock, stateLock, history>>

\* Mutant of Cancel: a commit in progress is not waited for.
CancelAtOnce(t) ==
    /\ task[t].client = "open"
    /\ Become(t, [task[t] EXCEPT !.client = "cancelled"])
    /\ UNCHANGED <<process, routing, files, refreshLock, stateLock, history>>

\* DownstreamCancellation::cancel waits for a commit that holds its permit.
Cancel(t) ==
    /\ task[t].client = "open"
    /\ task[t].pc \notin {"committing", "written"}
    /\ Become(t, [task[t] EXCEPT !.client = "cancelled"])
    /\ UNCHANGED <<process, routing, files, refreshLock, stateLock, history>>

\* The future is dropped at an await: a closed connection, a timeout, an abort.
Drop(t) ==
    /\ "drop" \in Ops
    /\ task[t].pc \notin {"idle", "serving", "committing", "written"}
    /\ refreshLock' = Released(t)
    /\ Become(t, Idle)
    /\ UNCHANGED <<process, routing, files, stateLock, history>>

-----------------------------------------------------------------------------
\* A caller starts an operation.
Start(t) == \/ \E op \in {"request", "probe"} : LeaseAny(t, op)
            \/ \E s \in Slots : Switch(t, s) \/ Login(t, s) \/ Logout(t, s)

\* A task goes on with an operation it has begun.
Step(t) == \/ Lease(t) \/ BeginRefresh(t) \/ EndRefresh(t) \/ LeaseFails(t)
           \/ ChooseStandby(t) \/ ChooseSpare(t) \/ EnterCommit(t)
           \/ CommitStandby(t) \/ CommitSpare(t) \/ CommitSwitch(t)
           \/ Move(t) \/ WriteFails(t)
           \/ Install(t) \/ LoginFails(t) \/ Admit(t)
           \/ SignOut(t) \/ SignOutFails(t) \/ Settle(t)

\* What happens to a task from outside.
Disturb(t) == Finish(t) \/ Refuse(t) \/ Cancel(t) \/ Drop(t)

Next == \/ Open \/ Crash \/ Tick
        \/ up /\ \E t \in Tasks : Start(t) \/ Step(t) \/ Disturb(t)

Spec == Init /\ [][Next]_vars

\* The locks are tokio mutexes, first come first served, and everything else
\* a task waits for is bounded: a refresh by 60 seconds, a sign-in by 300.  So
\* a task that can go on again and again does go on.
FairSpec == Spec /\ \A t \in Tasks : SF_vars(up /\ Step(t))

-----------------------------------------------------------------------------
(* Properties.                                                               *)

TypeOK ==
    /\ up \in BOOLEAN
    /\ clock \in Nat
    /\ active \in Slots \cup {NoSlot}
    /\ until \in [Slots -> Nat]
    /\ disk \in [active : Slots \cup {NoSlot}, until : [Slots -> Nat]]
    /\ next \in [active : Slots, until : [Slots -> Nat]] \cup {NoState}
    /\ files \in [Homes -> Auths \cup {NoAuth}]
    /\ home \in [Slots -> Homes]
    /\ \A s \in Slots : home[s] \in HomesOf(s)
    /\ refreshLock \in [Slots -> Tasks \cup {NoTask}]
    /\ stateLock \in Tasks \cup {NoTask}
    /\ task \in [Tasks -> Task]
    /\ grants \in Nat
    /\ signedOut \subseteq Slots

\* What a task in state r may rely on while it waits inside an operation.
Sound(t, r) ==
    \* It works on a slot that exists.
    /\ r.pc \notin {"idle", "choose", "refused"} => r.slot \in Slots
    \* A refresh, and the second half of a sign-in or sign-out, own the slot.
    /\ r.pc \in {"refresh", "installed", "removed"} => refreshLock[r.slot] = t
    \* What a refresh is about to write back is still what lies there.
    /\ r.pc = "refresh" => r.auth = files[home[r.slot]]
    \* A sign-out that waits for the state lock has left nothing behind.
    /\ r.pc = "removed" => \A h \in HomesOf(r.slot) : files[h] = NoAuth
    \* A failover moves between two different slots.
    /\ r.pc \in {"choose", "refused"} => r.from \in Slots
    /\ r.aim \in {"standby", "spare"} => r.from \in Slots /\ r.slot # r.from
    \* Only a request has a downstream that may cancel it.
    /\ r.client # "none" =>
         /\ r.aim # "wanted"
         /\ r.pc \notin {"oauth", "installed", "signingOut", "removed"}
    \* A commit in progress excludes every other, still answers the state it
    \* checked, and has a downstream.
    /\ r.pc = "committing" =>
         /\ stateLock = t
         /\ r.aim \in {"standby", "spare"}
         /\ r.aim = "spare" => active = r.from
         /\ r.client # "cancelled"
    \* What is written parks nothing but the active slot, which it leaves, and
    \* that for as long as a park may last.
    /\ r.pc = "written" =>
         /\ stateLock = t
         /\ next # NoState
         /\ r.client # "cancelled"
         /\ \A s \in Slots : next.until[s] > until[s] =>
              /\ active = s /\ next.active # s
              /\ next.until[s] - r.now \in MinCooldown .. MaxCooldown

\* A slot that was signed out holds no credentials in any of its historical
\* places until it is signed in again: no token refresh in flight, no failed
\* write and no restart brings it back.
SignedOutStaysOut ==
    \A s \in signedOut : \A h \in HomesOf(s) : files[h] = NoAuth

\* Credentials appear only through a sign-in, and whatever is written over
\* them otherwise is a renewal of the very grant that lies there: a refresh
\* begun before a sign-out or a new sign-in cannot write its old answer back.
NoStaleWriteBack ==
    [][\A h \in Homes :
         \/ files'[h] = NoAuth
         \/ files'[h].grant \in {files[h].grant, grants + 1}]_vars

\* Memory never runs ahead of the disk: the file holds what the relay routes by,
\* or what the commit that holds the state lock is about to move to.
DiskLeads == disk = IF next = NoState THEN Routing ELSE next

\* A restart resumes where the relay was when it died, or where the commit that
\* was cut off had got with its write: nothing the relay routed by is forgotten,
\* and nothing that failed to be written comes true.  Only a slot that is not
\* signed in any more gives way to another.
RestartsResume ==
    [][~up /\ up' =>
         \E r \in {Routing} \cup ({next} \ {NoState}) :
           /\ until' = r.until
           /\ active' = r.active \/ r.active = NoSlot \/ ~Configured(r.active)']_vars

\* The inductive invariant.  A dead process has no tasks.
RouterInv ==
    /\ TypeOK
    /\ IF up THEN active \in Slots ELSE task = [t \in Tasks |-> Idle]
    /\ SignedOutStaysOut
    /\ DiskLeads
    /\ \A t \in Tasks : Sound(t, task[t])

\* No failover of a cancelled downstream writes or moves anything.
CancelledNeverCommits ==
    [][\A t \in Tasks :
         (/\ task[t].pc \in {"committing", "written"}
          /\ task'[t].pc # task[t].pc
          /\ <<active, until, disk>>' # <<active, until, disk>>)
         => task[t].client # "cancelled"]_vars

\* Only the active slot is ever parked, and only as the relay leaves it: of
\* the requests that saw one slot fail, the first to commit parks it and the
\* others neither park its successor nor extend the park.
OnlyTheActiveSlotIsParked ==
    [][up => \A s \in Slots :
                until'[s] > until[s] => active = s /\ active' # s]_vars

\* A park lasts, from the moment its refusal was seen, at least MinCooldown
\* and at most MaxCooldown, whatever the vendor named.
ParksAreBounded ==
    [][up => \A s \in Slots :
         until'[s] > until[s] =>
           \E t \in Tasks : until'[s] - task[t].now
                              \in MinCooldown .. MaxCooldown]_vars

\* As long as a slot is signed in, lease_any has somewhere to go at once: the
\* active slot is signed in, or another one is and is not parked.  It holds
\* while nobody signs out; LastLiveSlotIsNeverParked is what a sign-out breaks.
SomewhereToGo ==
    (up /\ \E s \in Slots : Configured(s)) =>
        Configured(active) \/ \E s \in Slots : Configured(s) /\ until[s] <= clock

\* Why it holds: whoever moved the relay, and so whoever parked a slot, moved it to
\* a slot that was signed in, and would find it in the same place after a restart.
StaysSignedIn ==
    /\ \A r \in {Routing, disk} :
         r.until = NoState.until \/ (r.active \in Slots /\ Configured(r.active))
    /\ disk.active \in Slots => home = HomesFound
    /\ \A t \in Tasks :
         /\ task[t].pc \notin {"signingOut", "removed"}
         /\ task[t].pc \in {"commit", "committing"} => Configured(task[t].slot)

\* "The last live slot is never parked" (the doc of lease_any): a slot that a
\* commit parks is not the only one signed in as it is written.
LastLiveSlotIsNeverParked ==
    [][\A s \in Slots :
         disk'.until[s] > disk.until[s] /\ Configured(s)' =>
           \E other \in Slots \ {s} : Configured(other)']_vars

\* "The exhausted account is then skipped as a failover target until the reset
\* time" (README): no failover is committed to a parked slot.
ParkedSlotsAreSkipped ==
    [][\A s \in Slots :
         disk'.until[s] > disk.until[s] => disk'.until[disk'.active] <= clock]_vars

OperationEnds(t) == task[t].pc \notin {"idle", "serving"}
                       ~> task[t].pc \in {"idle", "serving"}

\* Every operation comes to an end, whatever the others hold or wait for: no
\* sign-in, sign-out, lease or failover waits forever for a lock.
OperationsEnd == \A t \in Tasks : OperationEnds(t)
=============================================================================
