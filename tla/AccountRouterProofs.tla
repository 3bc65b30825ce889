------------------------ MODULE AccountRouterProofs ------------------------
(* Proofs about AccountRouter, for any tasks, accounts, resets and bounds. *)
EXTENDS AccountRouter, TLAPS

\* An idle task is a task.
LEMMA IdleIsTask == Idle \in Task
  BY DEF Idle, Task, PCs, Aims, Clients, NoAuth

\* The configured cooldown lies within the bounds of a park.
LEMMA CooldownIsBounded ==
    Cooldown \in MinCooldown .. MaxCooldown
  BY CooldownAssumption DEF Cooldown, Clamp

\* Whatever reset a refusal names, the park it leads to lies within the bounds.
LEMMA ParksFit ==
    ASSUME NEW reset \in Resets, NEW now \in Nat
    PROVE  ParkedFor(reset, now) \in MinCooldown .. MaxCooldown
  <1>1. SecondsAfter(reset, now) \in Nat
    BY ResetsAssumption DEF SecondsAfter
  <1> QED
    BY <1>1, CooldownIsBounded, CooldownAssumption DEF ParkedFor, Clamp

\* A task that holds no lock and relies on no file.
Loose(r) ==
    /\ r.pc \notin {"refresh", "installed", "removed", "committing", "written"}
    /\ r.pc \notin {"idle", "choose", "refused"} => r.slot \in Slots
    /\ r.pc \in {"choose", "refused"} => r.from \in Slots
    /\ r.aim \in {"standby", "spare"} => r.from \in Slots /\ r.slot # r.from
    /\ r.client # "none" => r.aim # "wanted" /\ r.pc \notin {"oauth", "signingOut"}

\* A task keeps the invariant by becoming loose, whether or not it gives back
\* its refresh lock and the state lock.
LEMMA LooseStep ==
    ASSUME RouterInv, up, NEW t \in Tasks, NEW r \in Task, Loose(r),
           Become(t, r),
           UNCHANGED <<process, routing, files, grants>>,
           refreshLock' \in {refreshLock, Released(t)},
           stateLock' = stateLock \/ (stateLock = t /\ stateLock' = NoTask),
           signedOut' \subseteq Slots, SignedOutStaysOut'
    PROVE  RouterInv'
  <1> USE DEF RouterInv, process, routing
  <1>1. DiskLeads'
    BY DEF DiskLeads, Routing
  <1>2. refreshLock' \in [Slots -> Tasks \cup {NoTask}]
    BY DEF TypeOK, Released
  <1>3. TypeOK'
    BY <1>2 DEF TypeOK, Become
  <1>4. ASSUME NEW u \in Tasks
        PROVE  Sound(u, task[u])'
    <2>1. CASE u = t
      BY <2>1 DEF Sound, Loose, Become, TypeOK
    <2>2. CASE u # t
      <3>1. task'[u] = task[u] /\ Sound(u, task[u])
        BY <2>2 DEF Become, TypeOK
      <3>2. stateLock = u => stateLock' = u
        BY <2>2, TasksAssumption
      <3>3. task[u].pc \in {"refresh", "installed", "removed"} =>
              refreshLock'[task[u].slot] = u
        <4>1. task[u].pc \in {"refresh", "installed", "removed"} =>
                task[u].slot \in Slots /\ refreshLock[task[u].slot] = u
          BY <3>1 DEF Sound
        <4> QED
          BY <2>2, <4>1 DEF Released
      <3> QED
        BY <3>1, <3>2, <3>3 DEF Sound
    <2> QED
      BY <2>1, <2>2
  <1> QED
    BY <1>1, <1>3, <1>4

\* The same for a task that changes nothing but itself.
LEMMA QuietStep ==
    ASSUME RouterInv, up, NEW t \in Tasks, NEW r \in Task, Loose(r),
           Become(t, r),
           UNCHANGED <<process, routing, files, refreshLock, stateLock, history>>
    PROVE  RouterInv'
  <1>1. signedOut' \subseteq Slots /\ SignedOutStaysOut'
    BY DEF RouterInv, TypeOK, SignedOutStaysOut, history
  <1> QED
    BY <1>1, LooseStep DEF history

\* Start keeps the inductive invariant.
LEMMA StartKeepsInv ==
    ASSUME RouterInv, up, NEW t \in Tasks, Start(t)
    PROVE  RouterInv'
  <1>1. ASSUME NEW op \in {"request", "probe"}, LeaseAny(t, op)
        PROVE  RouterInv'
    <2> DEFINE r == [Idle EXCEPT !.pc = "acquire", !.aim = "active",
                                 !.slot = active,
                                 !.client = IF op = "request" THEN "open"
                                            ELSE "none"]
    <2>1. r \in Task /\ Loose(r)
      BY DEF RouterInv, Loose, Task, Idle, PCs, Aims, Clients, NoAuth
    <2> QED
      BY <1>1, <2>1, QuietStep DEF LeaseAny
  <1>2. ASSUME NEW s \in Slots, Switch(t, s)
        PROVE  RouterInv'
    <2> DEFINE r == [Idle EXCEPT !.pc = "acquire", !.aim = "wanted", !.slot = s]
    <2>1. r \in Task /\ Loose(r)
      BY DEF Loose, Task, Idle, PCs, Aims, Clients, NoAuth
    <2> QED
      BY <1>2, <2>1, QuietStep DEF Switch
  <1>3. ASSUME NEW s \in Slots, Login(t, s)
        PROVE  RouterInv'
    <2> DEFINE r == [Idle EXCEPT !.pc = "oauth", !.slot = s]
    <2>1. r \in Task /\ Loose(r)
      BY DEF Loose, Task, Idle, PCs, Aims, Clients, NoAuth
    <2> QED
      BY <1>3, <2>1, QuietStep DEF Login
  <1>4. ASSUME NEW s \in Slots, Logout(t, s)
        PROVE  RouterInv'
    <2> DEFINE r == [Idle EXCEPT !.pc = "signingOut", !.slot = s]
    <2>1. r \in Task /\ Loose(r)
      BY DEF Loose, Task, Idle, PCs, Aims, Clients, NoAuth
    <2> QED
      BY <1>4, <2>1, QuietStep DEF Logout
  <1> QED
    BY <1>1, <1>2, <1>3, <1>4 DEF Start

-----------------------------------------------------------------------------
(* Leases.                                                                   *)

\* The file of a signed-in slot holds credentials of an account.
LEMMA FilesHoldAuths ==
    ASSUME RouterInv, NEW s \in Slots, Configured(s)
    PROVE  files[home[s]] \in Auths /\ files[home[s]].account \in Accounts
  BY DEF RouterInv, TypeOK, Configured, Present, Auths

\* A task that has its lease holds no lock.
LEMMA AfterLeaseLoose ==
    ASSUME RouterInv, NEW t \in Tasks,
           NEW account \in Accounts \cup {NoAccount},
           task[t].pc \in {"acquire", "refresh"}
    PROVE  AfterLease(t, account) \in Task /\ Loose(AfterLease(t, account))
  <1>1. task[t] \in Task /\ Sound(t, task[t])
    BY DEF RouterInv, TypeOK
  <1>2. Serving(t, task[t].slot, account) \in Task
        /\ Loose(Serving(t, task[t].slot, account))
    BY ZenonT(40), <1>1 DEF Serving, Sound, Loose, Task, Idle, PCs, Aims, Clients, NoAuth
  <1>3. Idle \in Task /\ Loose(Idle)
    BY IdleIsTask DEF Loose, Idle
  <1> DEFINE r == [task[t] EXCEPT !.pc = "commit", !.auth = NoAuth,
                                  !.account = account]
  <1>4. r \in Task /\ Loose(r)
    BY <1>1 DEF Sound, Loose, Task, PCs
  <1> QED
    BY <1>2, <1>3, <1>4 DEF AfterLease

\* Lease keeps the inductive invariant.
LEMMA LeaseKeepsInv ==
    ASSUME RouterInv, up, NEW t \in Tasks, Lease(t)
    PROVE  RouterInv'
  <1>1. task[t].slot \in Slots
    BY DEF RouterInv, Sound, Lease
  <1> DEFINE account == files[home[task[t].slot]].account
  <1>2. AfterLease(t, account) \in Task /\ Loose(AfterLease(t, account))
    BY <1>1, FilesHoldAuths, AfterLeaseLoose DEF Lease
  <1> QED
    BY <1>2, QuietStep DEF Lease

\* BeginRefresh keeps the inductive invariant.
LEMMA BeginRefreshKeepsInv ==
    ASSUME RouterInv, up, NEW t \in Tasks, BeginRefresh(t)
    PROVE  RouterInv'
  <1> USE DEF RouterInv, process, routing, history
  <1> DEFINE s == task[t].slot
             r == [task[t] EXCEPT !.pc = "refresh", !.auth = files[home[s]]]
  <1>1. s \in Slots /\ task[t] \in Task /\ Sound(t, task[t])
    BY DEF Sound, BeginRefresh, TypeOK
  <1>2. r \in Task
    BY <1>1, FilesHoldAuths DEF BeginRefresh, Task, PCs
  <1>3. TypeOK'
    BY <1>1, <1>2 DEF TypeOK, BeginRefresh, Become
  <1>4. SignedOutStaysOut' /\ DiskLeads'
    BY DEF SignedOutStaysOut, DiskLeads, Routing, BeginRefresh
  <1>5. ASSUME NEW u \in Tasks
        PROVE  Sound(u, task[u])'
    <2>1. CASE u = t
      BY <1>1, <2>1 DEF Sound, BeginRefresh, Become, TypeOK
    <2>2. CASE u # t
      <3>1. task'[u] = task[u] /\ Sound(u, task[u])
        BY <2>2 DEF Become, TypeOK, BeginRefresh
      <3> QED
        BY <2>2, <3>1, TasksAssumption DEF Sound, BeginRefresh, TypeOK
    <2> QED
      BY <2>1, <2>2
  <1> QED
    BY <1>3, <1>4, <1>5 DEF BeginRefresh

\* The heart of the matter: under the lock, what is written back is what lies
\* there, so a refresh changes no grant.
LEMMA RefreshWritesWhatItRead ==
    ASSUME RouterInv, NEW t \in Tasks, EndRefresh(t)
    PROVE  /\ files' = files
           /\ \E account \in Accounts : Become(t, AfterLease(t, account))
  <1> DEFINE h == home[task[t].slot]
             renewed == [files[h] EXCEPT !.grant = task[t].auth.grant]
  <1>1. task[t].slot \in Slots /\ h \in Homes
    BY DEF RouterInv, TypeOK, Sound, EndRefresh
  <1>2. task[t].auth = files[h] /\ files \in [Homes -> Auths \cup {NoAuth}]
    BY DEF RouterInv, TypeOK, Sound, EndRefresh
  <1>3. files[h] \in Auths
    BY <1>1, FilesHoldAuths DEF EndRefresh
  <1>4. renewed = files[h]
    BY <1>2, <1>3 DEF Auths
  <1>5. files' = [files EXCEPT ![h] = files[h]]
        /\ Become(t, AfterLease(t, files[h].account))
    BY <1>4 DEF EndRefresh
  <1>6. files[h].account \in Accounts
    BY <1>3 DEF Auths
  <1> QED
    BY <1>1, <1>2, <1>5, <1>6

\* EndRefresh keeps the inductive invariant.
LEMMA EndRefreshKeepsInv ==
    ASSUME RouterInv, up, NEW t \in Tasks, EndRefresh(t)
    PROVE  RouterInv'
  <1>1. files' = files
    BY RefreshWritesWhatItRead
  <1>2. PICK account \in Accounts : Become(t, AfterLease(t, account))
    BY RefreshWritesWhatItRead
  <1> DEFINE r == AfterLease(t, account)
  <1>3. r \in Task /\ Loose(r)
    BY <1>2, AfterLeaseLoose DEF EndRefresh
  <1>4. signedOut' \subseteq Slots /\ SignedOutStaysOut'
    BY <1>1 DEF RouterInv, TypeOK, SignedOutStaysOut, EndRefresh, history
  <1>5. Become(t, r) /\ refreshLock' = Released(t)
        /\ UNCHANGED <<process, routing, stateLock, history>>
    BY <1>2 DEF EndRefresh
  <1> HIDE DEF r
  <1> QED
    BY <1>1, <1>3, <1>4, <1>5, LooseStep DEF history

\* LeaseFails keeps the inductive invariant.
LEMMA LeaseFailsKeepsInv ==
    ASSUME RouterInv, up, NEW t \in Tasks, LeaseFails(t)
    PROVE  RouterInv'
  <1> DEFINE r == IF task[t].aim = "active"
                  THEN [Idle EXCEPT !.pc = "choose", !.from = task[t].slot,
                                    !.now = clock, !.client = task[t].client]
                  ELSE Idle
  <1>1. task[t] \in Task /\ Sound(t, task[t]) /\ clock \in Nat
    BY DEF RouterInv, TypeOK
  <1>2. task[t].slot \in Slots
    BY <1>1 DEF Sound, LeaseFails
  <1>3. r \in Task /\ Loose(r)
    BY ZenonT(40), <1>1, <1>2 DEF Loose, Task, Idle, PCs, Aims, Clients, NoAuth
  <1>4. signedOut' \subseteq Slots /\ SignedOutStaysOut'
    BY DEF RouterInv, TypeOK, SignedOutStaysOut, LeaseFails, history
  <1>5. Become(t, r) /\ refreshLock' = Released(t)
        /\ UNCHANGED <<process, routing, files, stateLock, history>>
    BY DEF LeaseFails
  <1> HIDE DEF r
  <1> QED
    BY <1>3, <1>4, <1>5, LooseStep DEF history

-----------------------------------------------------------------------------
(* Choosing where a failover goes.                                           *)

\* TryStandby keeps the inductive invariant.
LEMMA TryStandbyKeepsInv ==
    ASSUME RouterInv, up, NEW t \in Tasks, NEW aim \in {"standby", "spare"},
           task[t].pc \in {"choose", "refused"}, TryStandby(t, aim),
           UNCHANGED <<process, routing, files, refreshLock, stateLock, history>>
    PROVE  RouterInv'
  <1>1. task[t] \in Task /\ task[t].from \in Slots
    BY DEF RouterInv, TypeOK, Sound
  <1>2. CASE Become(t, Idle)
    <2>1. Idle \in Task /\ Loose(Idle)
      BY IdleIsTask DEF Loose, Idle
    <2> QED
      BY <1>2, <2>1, QuietStep
  <1>3. ASSUME NEW s \in Slots, s # task[t].from,
               Become(t, [task[t] EXCEPT !.pc = "acquire", !.aim = aim, !.slot = s])
        PROVE  RouterInv'
    <2> DEFINE r == [task[t] EXCEPT !.pc = "acquire", !.aim = aim, !.slot = s]
    <2>1. r \in Task /\ Loose(r)
      BY <1>1, <1>3 DEF Loose, Task, PCs, Aims
    <2> QED
      BY <1>3, <2>1, QuietStep
  <1> QED
    BY <1>2, <1>3 DEF TryStandby, Standbys

\* A task that follows another's move holds no lock.
LEMMA FollowLoose ==
    ASSUME RouterInv, up, NEW t \in Tasks, Follow(t)
    PROVE  \E r \in Task : Loose(r) /\ Become(t, r)
  <1> DEFINE r == [Idle EXCEPT !.pc = "acquire", !.aim = "follow",
                               !.slot = active, !.client = task[t].client]
  <1>1. task[t] \in Task /\ active \in Slots
    BY DEF RouterInv, TypeOK
  <1>2. r \in Task /\ Loose(r)
    BY ZenonT(40), <1>1 DEF Loose, Task, Idle, PCs, Aims, Clients, NoAuth
  <1> QED
    BY <1>2 DEF Follow

\* Choose keeps the inductive invariant.
LEMMA ChooseKeepsInv ==
    ASSUME RouterInv, up, NEW t \in Tasks, ChooseStandby(t) \/ ChooseSpare(t)
    PROVE  RouterInv'
  <1>1. CASE ChooseStandby(t)
    BY <1>1, TryStandbyKeepsInv DEF ChooseStandby
  <1>2. CASE ChooseSpare(t)
    <2>1. CASE active # task[t].from
      BY <1>2, <2>1, FollowLoose, QuietStep DEF ChooseSpare
    <2>2. CASE active = task[t].from
      BY <1>2, <2>2, TryStandbyKeepsInv DEF ChooseSpare
    <2> QED
      BY <2>1, <2>2
  <1> QED
    BY <1>1, <1>2

-----------------------------------------------------------------------------
(* Commits.                                                                  *)

\* An idle task holds no lock.
LEMMA IdleLoose == Idle \in Task /\ Loose(Idle)
  BY IdleIsTask DEF Loose, Idle

\* The state lock is taken: from here to the commit nothing else moves.
LEMMA TakeStateLockKeepsInv ==
    ASSUME RouterInv, up, NEW t \in Tasks,
           task[t].pc = "commit", task[t].aim \in {"standby", "spare"},
           stateLock = NoTask, stateLock' = t,
           task[t].aim = "spare" => active = task[t].from,
           task[t].client # "cancelled",
           Become(t, [task[t] EXCEPT !.pc = "committing"]),
           UNCHANGED <<process, routing, files, refreshLock, history>>
    PROVE  RouterInv'
  <1> USE DEF RouterInv, process, routing, history
  <1> DEFINE r == [task[t] EXCEPT !.pc = "committing"]
  <1>1. task[t] \in Task /\ Sound(t, task[t])
    BY DEF TypeOK
  <1>2. r \in Task
    BY <1>1 DEF Task, PCs
  <1>3. TypeOK'
    BY <1>2 DEF TypeOK, Become
  <1>4. SignedOutStaysOut' /\ DiskLeads'
    BY DEF SignedOutStaysOut, DiskLeads, Routing
  <1>5. ASSUME NEW u \in Tasks
        PROVE  Sound(u, task[u])'
    <2>1. CASE u = t
      <3>1. task'[t] = r
        BY DEF Become, TypeOK
      <3>2. /\ r.pc = "committing" /\ r.slot = task[t].slot
            /\ r.from = task[t].from /\ r.aim = task[t].aim
            /\ r.client = task[t].client
        BY <1>1 DEF Task
      <3> QED
        BY <1>1, <2>1, <3>1, <3>2 DEF Sound
    <2>2. CASE u # t
      <3>1. task'[u] = task[u] /\ Sound(u, task[u])
        BY <2>2 DEF Become, TypeOK
      <3> QED
        BY <2>2, <3>1, TasksAssumption DEF Sound
    <2> QED
      BY <2>1, <2>2
  <1> QED
    BY <1>3, <1>4, <1>5

\* EnterCommit keeps the inductive invariant.
LEMMA EnterCommitKeepsInv ==
    ASSUME RouterInv, up, NEW t \in Tasks, EnterCommit(t)
    PROVE  RouterInv'
  <1>1. CASE task[t].aim = "spare" /\ active # task[t].from
    BY <1>1, FollowLoose, QuietStep DEF EnterCommit
  <1>2. CASE ~(task[t].aim = "spare" /\ active # task[t].from)
             /\ task[t].client = "cancelled"
    BY <1>2, IdleLoose, QuietStep DEF EnterCommit
  <1>3. CASE ~(task[t].aim = "spare" /\ active # task[t].from)
             /\ task[t].client # "cancelled"
    BY <1>3, TakeStateLockKeepsInv DEF EnterCommit
  <1> QED
    BY <1>1, <1>2, <1>3

\* What a task that is committing may rely on.
LEMMA CommittingFacts ==
    ASSUME RouterInv, NEW t \in Tasks, task[t].pc = "committing"
    PROVE  /\ task[t].slot \in Slots /\ task[t].from \in Slots
           /\ task[t].slot # task[t].from
           /\ task[t].now \in Nat
           /\ task[t].client # "cancelled"
           /\ task[t].aim = "spare" => active = task[t].from
           /\ stateLock = t
           /\ Serving(t, task[t].slot, task[t].account) \in Task
           /\ Loose(Serving(t, task[t].slot, task[t].account))
  <1>1. task[t] \in Task /\ Sound(t, task[t])
    BY DEF RouterInv, TypeOK
  <1> QED
    BY <1>1 DEF Sound, Serving, Loose, Task, Idle, PCs, Aims, Clients, NoAuth

\* Parking a slot keeps the type of exhausted_until.
LEMMA ParkTyped ==
    ASSUME RouterInv, NEW s \in Slots, NEW seconds \in Nat, NEW now \in Nat
    PROVE  [until EXCEPT ![s] = now + seconds] \in [Slots -> Nat]
  BY DEF RouterInv, TypeOK

\* Slots stay signed out while no file and no history changes.
LEMMA SignedOutUnchanged ==
    ASSUME RouterInv, UNCHANGED <<files, history>>
    PROVE  signedOut' \subseteq Slots /\ SignedOutStaysOut'
  BY DEF RouterInv, TypeOK, SignedOutStaysOut, history

\* Write keeps the inductive invariant: whoever writes holds the state lock, so no
\* other commit is under way.
LEMMA WriteKeepsInv ==
    ASSUME RouterInv, up, NEW t \in Tasks,
           task[t].pc \in {"committing", "commit", "installed", "removed"},
           task[t].client # "cancelled",
           stateLock \in {NoTask, t},
           NEW r \in [active : Slots, until : [Slots -> Nat]],
           Write(t, r),
           \A s \in Slots : r.until[s] > until[s] =>
             /\ active = s /\ r.active # s
             /\ r.until[s] - task[t].now \in MinCooldown .. MaxCooldown,
           UNCHANGED <<process, files, refreshLock, grants>>,
           signedOut' \subseteq Slots, SignedOutStaysOut'
    PROVE  RouterInv'
  <1> USE DEF RouterInv, process
  <1> DEFINE w == [task[t] EXCEPT !.pc = "written"]
  <1>1. task[t] \in Task /\ Sound(t, task[t])
    BY DEF TypeOK
  <1>2. w \in Task
    BY <1>1 DEF Task, PCs
  <1>3. r # NoState
    BY DEF NoState, Slots, NoSlot
  <1>4. TypeOK'
    BY <1>2 DEF TypeOK, Write, Become
  <1>5. DiskLeads'
    BY <1>3 DEF DiskLeads, Write
  <1>6. Sound(t, task[t])'
    <2>1. /\ w.pc = "written" /\ w.slot = task[t].slot /\ w.from = task[t].from
          /\ w.aim = task[t].aim /\ w.client = task[t].client /\ w.now = task[t].now
      BY <1>1 DEF Task
    <2>2. /\ w.slot \in Slots
          /\ w.aim \in {"standby", "spare"} => w.from \in Slots /\ w.slot # w.from
          /\ w.client # "none" => w.aim # "wanted"
      BY <1>1, <2>1 DEF Sound
    <2>3. task'[t] = w
      BY DEF Write, Become, TypeOK
    <2> HIDE DEF w
    <2>4. /\ stateLock' = t /\ next' = r /\ active' = active /\ until' = until
      BY DEF Write
    <2> QED
      BY <1>3, <2>1, <2>2, <2>3, <2>4 DEF Sound
  <1>7. ASSUME NEW u \in Tasks
        PROVE  Sound(u, task[u])'
    <2>1. CASE u = t
      BY <1>6, <2>1
    <2>2. CASE u # t
      <3>1. task'[u] = task[u] /\ Sound(u, task[u])
        BY <2>2 DEF Write, Become, TypeOK
      <3>2. task[u].pc \notin {"committing", "written"}
        BY <2>2, <3>1, TasksAssumption DEF Sound
      <3> QED
        BY <3>1, <3>2 DEF Sound, Write
    <2> QED
      BY <2>1, <2>2
  <1> QED
    BY <1>4, <1>5, <1>7 DEF Write

\* A commit that is under way has written what it moves to.
LEMMA WrittenFacts ==
    ASSUME RouterInv, NEW t \in Tasks, task[t].pc = "written"
    PROVE  /\ task[t].client # "cancelled" /\ task[t].now \in Nat
           /\ stateLock = t
           /\ next \in [active : Slots, until : [Slots -> Nat]]
           /\ disk = next /\ next # NoState
           /\ Serving(t, task[t].slot, task[t].account) \in Task
           /\ Loose(Serving(t, task[t].slot, task[t].account))
           /\ \A s \in Slots : next.until[s] > until[s] =>
                /\ active = s /\ next.active # s
                /\ next.until[s] - task[t].now \in MinCooldown .. MaxCooldown
  <1>1. task[t] \in Task /\ Sound(t, task[t])
    BY DEF RouterInv, TypeOK
  <1>2. next # NoState /\ task[t].slot \in Slots
    BY <1>1 DEF Sound
  <1>3. Serving(t, task[t].slot, task[t].account) \in Task
        /\ Loose(Serving(t, task[t].slot, task[t].account))
    BY ZenonT(40), <1>1, <1>2
       DEF Serving, Loose, Task, Idle, PCs, Aims, Clients, NoAuth
  <1>4. task[t].now \in Nat
    BY <1>1 DEF Task
  <1> QED
    BY <1>1, <1>2, <1>3, <1>4 DEF RouterInv, TypeOK, DiskLeads, Sound

\* Move keeps the inductive invariant: memory catches up with the disk.
LEMMA MoveKeepsInv ==
    ASSUME RouterInv, up, NEW t \in Tasks, Move(t)
    PROVE  RouterInv'
  <1> USE DEF RouterInv, process, history
  <1> DEFINE r == IF task[t].aim \in {"standby", "spare"}
                  THEN Serving(t, task[t].slot, task[t].account) ELSE Idle
  <1>1. /\ stateLock = t /\ disk = next
        /\ next \in [active : Slots, until : [Slots -> Nat]]
    BY WrittenFacts DEF Move
  <1>2. r \in Task /\ Loose(r)
    BY WrittenFacts, IdleLoose DEF Move
  <1> HIDE DEF r
  <1>3. /\ Become(t, r) /\ refreshLock' = Released(t) /\ stateLock' = NoTask
        /\ active' = next.active /\ until' = next.until /\ next' = NoState
        /\ UNCHANGED <<up, clock, home, disk, files, grants, signedOut>>
    BY DEF Move, r
  <1>4. refreshLock' \in [Slots -> Tasks \cup {NoTask}]
    BY <1>3 DEF TypeOK, Released
  <1>5. TypeOK'
    BY <1>1, <1>2, <1>3, <1>4 DEF TypeOK, Become
  <1>6. DiskLeads'
    BY <1>1, <1>3 DEF DiskLeads, Routing
  <1>7. ASSUME NEW u \in Tasks
        PROVE  Sound(u, task[u])'
    <2>1. CASE u = t
      BY <1>2, <1>3, <2>1 DEF Sound, Loose, Become, TypeOK
    <2>2. CASE u # t
      <3>1. task'[u] = task[u] /\ Sound(u, task[u])
        BY <1>3, <2>2 DEF Become, TypeOK
      <3>2. task[u].pc \notin {"committing", "written"}
        BY <1>1, <2>2, <3>1 DEF Sound
      <3>3. task[u].pc \in {"refresh", "installed", "removed"} =>
              refreshLock'[task[u].slot] = u
        <4>1. task[u].pc \in {"refresh", "installed", "removed"} =>
                task[u].slot \in Slots /\ refreshLock[task[u].slot] = u
          BY <3>1 DEF Sound
        <4> QED
          BY <1>3, <2>2, <4>1 DEF Released
      <3> QED
        BY <1>3, <3>1, <3>2, <3>3 DEF Sound
    <2> QED
      BY <2>1, <2>2
  <1>8. SignedOutStaysOut'
    BY <1>3 DEF SignedOutStaysOut
  <1>9. up' /\ active' \in Slots
    BY <1>1, <1>3
  <1> QED
    BY <1>5, <1>6, <1>7, <1>8, <1>9

\* The state a failover moves to parks the slot it leaves, within the bounds.
LEMMA ParkedFacts ==
    ASSUME RouterInv, NEW t \in Tasks, task[t].pc = "committing",
           active = task[t].from, NEW seconds \in MinCooldown .. MaxCooldown
    PROVE  /\ Parked(t, seconds) \in [active : Slots, until : [Slots -> Nat]]
           /\ \A s \in Slots : Parked(t, seconds).until[s] > until[s] =>
                /\ active = s /\ Parked(t, seconds).active # s
                /\ Parked(t, seconds).until[s] - task[t].now
                     \in MinCooldown .. MaxCooldown
  <1>1. /\ task[t].slot \in Slots /\ task[t].from \in Slots
        /\ task[t].slot # task[t].from /\ task[t].now \in Nat
    BY CommittingFacts
  <1>2. until \in [Slots -> Nat] /\ seconds \in Nat
    BY CooldownAssumption DEF RouterInv, TypeOK
  <1> DEFINE w == [until EXCEPT ![task[t].from] = task[t].now + seconds]
  <1>3. w \in [Slots -> Nat]
    BY <1>1, <1>2
  <1>4. /\ Parked(t, seconds).active = task[t].slot /\ Parked(t, seconds).until = w
        /\ Parked(t, seconds) = [active |-> task[t].slot, until |-> w]
    BY DEF Parked
  <1>5. ASSUME NEW s \in Slots, w[s] > until[s]
        PROVE  s = task[t].from /\ w[s] - task[t].now = seconds
    <2>1. s = task[t].from
      BY <1>1, <1>2, <1>5
    <2>2. w[s] = task[t].now + seconds
      BY <1>2, <2>1
    <2> HIDE DEF w
    <2> QED
      BY <1>1, <1>2, <2>1, <2>2
  <1> HIDE DEF w
  <1> QED
    BY <1>1, <1>3, <1>4, <1>5

\* Commit keeps the inductive invariant.
LEMMA CommitKeepsInv ==
    ASSUME RouterInv, up, NEW t \in Tasks, CommitStandby(t) \/ CommitSpare(t)
    PROVE  RouterInv'
  <1> DEFINE r == Serving(t, task[t].slot, task[t].account)
  <1>1. task[t].pc = "committing"
    BY DEF CommitStandby, CommitSpare
  <1>2. /\ stateLock = t /\ task[t].client # "cancelled"
        /\ task[t].aim = "spare" => active = task[t].from
        /\ r \in Task /\ Loose(r)
    BY <1>1, CommittingFacts
  <1>3. UNCHANGED <<process, files, refreshLock, history>>
    BY DEF CommitStandby, CommitSpare
  <1>4. ASSUME NEW seconds \in MinCooldown .. MaxCooldown,
               active = task[t].from, Write(t, Parked(t, seconds))
        PROVE  RouterInv'
    <2> DEFINE w == Parked(t, seconds)
    <2>1. /\ w \in [active : Slots, until : [Slots -> Nat]]
          /\ \A s \in Slots : w.until[s] > until[s] =>
               /\ active = s /\ w.active # s
               /\ w.until[s] - task[t].now \in MinCooldown .. MaxCooldown
      BY <1>1, <1>4, ParkedFacts
    <2>2. Write(t, w)
      BY <1>4
    <2> HIDE DEF w
    <2> QED
      BY <1>1, <1>2, <1>3, <2>1, <2>2, SignedOutUnchanged, WriteKeepsInv DEF history
  <1>5. CASE CommitStandby(t) /\ active # task[t].from
    <2>1. Become(t, r) /\ stateLock' = NoTask /\ UNCHANGED routing
      BY <1>5 DEF CommitStandby, Serve
    <2> HIDE DEF r
    <2> QED
      BY <1>2, <1>3, <2>1, SignedOutUnchanged, LooseStep DEF history
  <1>6. CASE CommitStandby(t) /\ active = task[t].from
    BY <1>4, <1>6, CooldownIsBounded DEF CommitStandby
  <1>7. CASE CommitSpare(t)
    <2>1. PICK reset \in Resets :
            Write(t, Parked(t, ParkedFor(reset, task[t].now)))
      BY <1>7 DEF CommitSpare
    <2>2. ParkedFor(reset, task[t].now) \in MinCooldown .. MaxCooldown
      BY <1>1, ParksFit, CommittingFacts
    <2>3. active = task[t].from
      BY <1>2, <1>7 DEF CommitSpare
    <2> QED
      BY <1>4, <2>1, <2>2, <2>3
  <1> QED
    BY <1>5, <1>6, <1>7

\* A write that fails leaves the state as it is.
LEMMA WriteFailsKeepsInv ==
    ASSUME RouterInv, up, NEW t \in Tasks, WriteFails(t)
    PROVE  RouterInv'
  <1>1. stateLock = t \/ stateLock = NoTask
    BY CommittingFacts DEF WriteFails
  <1> QED
    BY <1>1, IdleLoose, SignedOutUnchanged, LooseStep DEF WriteFails, history

\* A state that lifts a park parks nothing.
LEMMA LiftKeepsInv ==
    ASSUME RouterInv, up, NEW t \in Tasks,
           \/ task[t].pc = "commit" /\ task[t].aim = "wanted"
           \/ task[t].pc \in {"installed", "removed"},
           stateLock = NoTask, NEW a \in Slots,
           Write(t, [active |-> a, until |-> [until EXCEPT ![task[t].slot] = 0]]),
           UNCHANGED <<process, files, refreshLock, grants>>,
           signedOut' \subseteq Slots, SignedOutStaysOut'
    PROVE  RouterInv'
  <1>1. /\ task[t] \in Task /\ Sound(t, task[t]) /\ until \in [Slots -> Nat]
    BY DEF RouterInv, TypeOK
  <1>2. task[t].slot \in Slots /\ task[t].client # "cancelled"
    BY <1>1 DEF Sound
  <1> DEFINE w == [until EXCEPT ![task[t].slot] = 0]
             r == [active |-> a, until |-> w]
  <1>3. w \in [Slots -> Nat] /\ \A s \in Slots : ~(w[s] > until[s])
    BY <1>1, <1>2
  <1> HIDE DEF w
  <1>4. r \in [active : Slots, until : [Slots -> Nat]] /\ r.until = w
    BY <1>3
  <1>5. Write(t, r)
    BY DEF w
  <1>6. \A s \in Slots : ~(r.until[s] > until[s])
    BY <1>3, <1>4
  <1> HIDE DEF r
  <1> QED
    BY <1>2, <1>4, <1>5, <1>6, WriteKeepsInv

\* CommitSwitch keeps the inductive invariant.
LEMMA CommitSwitchKeepsInv ==
    ASSUME RouterInv, up, NEW t \in Tasks, CommitSwitch(t)
    PROVE  RouterInv'
  <1>1. task[t].slot \in Slots
    BY DEF RouterInv, Sound, CommitSwitch
  <1> QED
    BY <1>1, SignedOutUnchanged, LiftKeepsInv DEF CommitSwitch, history

-----------------------------------------------------------------------------
(* Sign-in and sign-out.                                                     *)

\* Whoever takes a free refresh lock and changes the files of its slot leaves
\* every other task as sound as it was: none of them holds that lock.
LEMMA OthersUntouched ==
    ASSUME RouterInv, NEW t \in Tasks, NEW s \in Slots,
           refreshLock[s] = NoTask,
           \A h \in Homes \ HomesOf(s) : files'[h] = files[h],
           UNCHANGED <<home, active, until, next, stateLock>>,
           refreshLock' \in {refreshLock, [refreshLock EXCEPT ![s] = t]},
           NEW u \in Tasks, task'[u] = task[u]
    PROVE  Sound(u, task[u])'
  <1>1. /\ Sound(u, task[u]) /\ home \in [Slots -> Homes]
        /\ refreshLock \in [Slots -> Tasks \cup {NoTask}]
    BY DEF RouterInv, TypeOK
  <1>2. ASSUME task[u].pc \in {"refresh", "installed", "removed"}
        PROVE  /\ refreshLock'[task[u].slot] = u
               /\ \A h \in HomesOf(task[u].slot) : files'[h] = files[h]
    <2>1. task[u].slot \in Slots /\ refreshLock[task[u].slot] = u
      BY <1>1, <1>2 DEF Sound
    <2>2. task[u].slot # s
      BY <2>1, TasksAssumption
    <2>3. \A h \in HomesOf(task[u].slot) : h \in Homes \ HomesOf(s)
      BY <2>1, <2>2 DEF HomesOf, Homes, Slots
    <2>4. refreshLock'[task[u].slot] = u
      BY <1>1, <2>1, <2>2
    <2> QED
      BY <2>3, <2>4
  <1>3. ASSUME task[u].pc = "refresh"
        PROVE  files'[home[task[u].slot]] = files[home[task[u].slot]]
    <2>1. task[u].slot \in Slots
      BY <1>1, <1>3 DEF Sound
    <2>2. home[task[u].slot] \in HomesOf(task[u].slot)
      BY <2>1 DEF RouterInv, TypeOK
    <2> QED
      BY <1>2, <1>3, <2>2
  <1> QED
    BY <1>1, <1>2, <1>3 DEF Sound

\* Install keeps the inductive invariant.
LEMMA InstallKeepsInv ==
    ASSUME RouterInv, up, NEW t \in Tasks, Install(t)
    PROVE  RouterInv'
  <1> USE DEF process, routing
  <1> DEFINE s == task[t].slot
  <1>1. /\ s \in Slots /\ task[t] \in Task /\ Sound(t, task[t])
        /\ home[s] \in HomesOf(s) /\ home[s] \in Homes
    BY DEF RouterInv, TypeOK, Sound, Install
  <1>2. PICK a \in Accounts :
          files' = [files EXCEPT ![home[s]] = [account |-> a, grant |-> grants']]
    BY DEF Install
  <1>3. [task[t] EXCEPT !.pc = "installed"] \in Task
    BY <1>1 DEF Task, PCs
  <1>4. TypeOK'
    BY <1>1, <1>2, <1>3 DEF RouterInv, TypeOK, Install, Become, Auths
  <1>5. SignedOutStaysOut'
    <2>1. ASSUME NEW o \in Slots, o # s, NEW h \in HomesOf(o)
          PROVE  files'[h] = files[h]
      BY <1>1, <1>2, <2>1 DEF HomesOf, Slots, Homes, RouterInv, TypeOK
    <2> QED
      BY <2>1 DEF SignedOutStaysOut, RouterInv, TypeOK, Install
  <1>6. ASSUME NEW u \in Tasks
        PROVE  Sound(u, task[u])'
    <2>1. CASE u = t
      BY <1>1, <2>1 DEF Sound, Install, Become, RouterInv, TypeOK, Task
    <2>2. CASE u # t
      <3>1. task'[u] = task[u]
        BY <2>2 DEF Become, RouterInv, TypeOK, Install
      <3>2. \A h \in Homes \ HomesOf(s) : files'[h] = files[h]
        BY <1>1, <1>2 DEF RouterInv, TypeOK
      <3>3. /\ refreshLock[s] = NoTask
            /\ refreshLock' = [refreshLock EXCEPT ![s] = t]
            /\ UNCHANGED <<home, active, until, next, stateLock>>
        BY DEF Install
      <3> HIDE DEF s
      <3> QED
        BY <1>1, <3>1, <3>2, <3>3, OthersUntouched
    <2> QED
      BY <2>1, <2>2
  <1> QED
    BY <1>4, <1>5, <1>6 DEF RouterInv, DiskLeads, Routing, Install

\* SignOut keeps the inductive invariant.
LEMMA SignOutKeepsInv ==
    ASSUME RouterInv, up, NEW t \in Tasks, SignOut(t)
    PROVE  RouterInv'
  <1> USE DEF process, routing, history
  <1> DEFINE s == task[t].slot
  <1>1. /\ s \in Slots /\ task[t] \in Task /\ Sound(t, task[t])
    BY DEF RouterInv, TypeOK, Sound, SignOut
  <1>2. [task[t] EXCEPT !.pc = "removed"] \in Task
    BY <1>1 DEF Task, PCs
  <1>3. TypeOK'
    BY <1>1, <1>2 DEF RouterInv, TypeOK, SignOut, Become
  <1>4. SignedOutStaysOut'
    BY DEF SignedOutStaysOut, RouterInv, TypeOK, SignOut, HomesOf, Homes
  <1>5. ASSUME NEW u \in Tasks
        PROVE  Sound(u, task[u])'
    <2>1. CASE u = t
      <3>1. \A h \in HomesOf(s) : files'[h] = NoAuth
        BY <1>1 DEF SignOut, HomesOf, Homes
      <3> QED
        BY <1>1, <2>1, <3>1 DEF Sound, SignOut, Become, RouterInv, TypeOK, Task
    <2>2. CASE u # t
      <3>1. task'[u] = task[u]
        BY <2>2 DEF Become, RouterInv, TypeOK, SignOut
      <3>2. \A h \in Homes \ HomesOf(s) : files'[h] = files[h]
        BY DEF SignOut
      <3>3. /\ refreshLock[s] = NoTask
            /\ refreshLock' = [refreshLock EXCEPT ![s] = t]
            /\ UNCHANGED <<home, active, until, next, stateLock>>
        BY DEF SignOut
      <3> HIDE DEF s
      <3> QED
        BY <1>1, <3>1, <3>2, <3>3, OthersUntouched
    <2> QED
      BY <2>1, <2>2
  <1> QED
    BY <1>3, <1>4, <1>5 DEF RouterInv, DiskLeads, Routing, SignOut

\* SignOutFails keeps the inductive invariant.
LEMMA SignOutFailsKeepsInv ==
    ASSUME RouterInv, up, NEW t \in Tasks, SignOutFails(t)
    PROVE  RouterInv'
  <1> USE DEF process, routing, history
  <1> DEFINE s == task[t].slot
  <1>1. /\ s \in Slots /\ task[t] \in Task
        /\ home[s] \in HomesOf(s) /\ home[s] \in Homes
    BY DEF RouterInv, TypeOK, Sound, SignOutFails
  <1>2. \A h \in Homes : files'[h] = files[h] \/ files'[h] = NoAuth
    BY DEF RouterInv, TypeOK, SignOutFails
  <1>3. files' \in [Homes -> Auths \cup {NoAuth}]
    BY <1>1 DEF RouterInv, TypeOK, SignOutFails
  <1>4. TypeOK'
    BY <1>3, IdleLoose DEF RouterInv, TypeOK, SignOutFails, Become
  <1>5. SignedOutStaysOut'
    BY <1>2 DEF SignedOutStaysOut, RouterInv, TypeOK, SignOutFails, HomesOf,
                Homes, Slots
  <1>6. ASSUME NEW u \in Tasks
        PROVE  Sound(u, task[u])'
    <2>1. CASE u = t
      BY <2>1 DEF Sound, SignOutFails, Become, RouterInv, TypeOK, Idle
    <2>2. CASE u # t
      <3>1. task'[u] = task[u]
        BY <2>2 DEF Become, RouterInv, TypeOK, SignOutFails
      <3>2. \A h \in Homes \ HomesOf(s) : files'[h] = files[h]
        BY <1>1 DEF RouterInv, TypeOK, SignOutFails
      <3>3. /\ refreshLock[s] = NoTask
            /\ refreshLock' = refreshLock
            /\ UNCHANGED <<home, active, until, next, stateLock>>
        BY DEF SignOutFails
      <3> HIDE DEF s
      <3> QED
        BY <1>1, <3>1, <3>2, <3>3, OthersUntouched
    <2> QED
      BY <2>1, <2>2
  <1> QED
    BY <1>4, <1>5, <1>6 DEF RouterInv, DiskLeads, Routing, SignOutFails

\* The state writes that end a sign-in and a sign-out.
LEMMA SettleKeepsInv ==
    ASSUME RouterInv, up, NEW t \in Tasks, Admit(t) \/ Settle(t)
    PROVE  RouterInv'
  <1>1. task[t].slot \in Slots /\ active \in Slots
    BY DEF RouterInv, Sound, Admit, Settle
  <1>2. CASE Admit(t)
    BY <1>1, <1>2, SignedOutUnchanged, LiftKeepsInv DEF Admit, history
  <1>3. CASE Settle(t)
    <2>1. signedOut' \subseteq Slots /\ SignedOutStaysOut'
      BY <1>1, <1>3 DEF RouterInv, TypeOK, Sound, SignedOutStaysOut, Settle
    <2>2. PICK a \in Slots :
            Write(t, [active |-> a, until |-> [until EXCEPT ![task[t].slot] = 0]])
      BY <1>1, <1>3 DEF Settle
    <2> QED
      BY <1>3, <2>1, <2>2, LiftKeepsInv DEF Settle
  <1> QED
    BY <1>2, <1>3

-----------------------------------------------------------------------------
(* Callers and the process.                                                  *)

\* Disturb keeps the inductive invariant.
LEMMA DisturbKeepsInv ==
    ASSUME RouterInv, up, NEW t \in Tasks, LoginFails(t) \/ Disturb(t)
    PROVE  RouterInv'
  <1>1. /\ task[t] \in Task /\ Sound(t, task[t]) /\ clock \in Nat
    BY DEF RouterInv, TypeOK
  <1>2. CASE LoginFails(t) \/ Finish(t)
    BY <1>2, IdleLoose, QuietStep DEF LoginFails, Finish
  <1>3. CASE Refuse(t)
    <2> DEFINE r == [Idle EXCEPT !.pc = "refused", !.from = task[t].slot,
                                 !.refused = task[t].account, !.now = clock,
                                 !.client = task[t].client]
    <2>1. r \in Task /\ Loose(r)
      BY ZenonT(40), <1>1, <1>3 DEF Refuse, Sound, Loose, Task, Idle, PCs, Aims, Clients, NoAuth
    <2> QED
      BY <1>3, <2>1, QuietStep DEF Refuse
  <1>4. CASE Cancel(t)
    <2> USE DEF RouterInv, process, routing, history
    <2> DEFINE r == [task[t] EXCEPT !.client = "cancelled"]
    <2>1. r \in Task
      BY <1>1 DEF Task, Clients
    <2>2. TypeOK'
      BY <1>4, <2>1 DEF TypeOK, Cancel, Become
    <2>3. SignedOutStaysOut' /\ DiskLeads'
      BY <1>4 DEF SignedOutStaysOut, DiskLeads, Routing, Cancel
    <2>4. ASSUME NEW u \in Tasks
          PROVE  Sound(u, task[u])'
      <3>1. CASE u = t
        <4>1. task'[t] = r
          BY <1>4 DEF Cancel, Become, TypeOK
        <4>2. /\ r.pc = task[t].pc /\ r.aim = task[t].aim
              /\ r.slot = task[t].slot /\ r.from = task[t].from
              /\ r.auth = task[t].auth /\ r.now = task[t].now
          BY <1>1 DEF Task
        <4> QED
          BY <1>1, <1>4, <3>1, <4>1, <4>2 DEF Sound, Cancel
      <3>2. CASE u # t
        BY <1>4, <3>2 DEF Sound, Cancel, Become, TypeOK
      <3> QED
        BY <3>1, <3>2
    <2> QED
      BY <1>4, <2>2, <2>3, <2>4 DEF Cancel
  <1>5. CASE Drop(t)
    BY <1>5, IdleLoose, SignedOutUnchanged, LooseStep DEF Drop, history
  <1> QED
    BY <1>2, <1>3, <1>4, <1>5 DEF Disturb

\* An idle task relies on nothing.
LEMMA IdleSound ==
    ASSUME NEW t \in Tasks
    PROVE  Sound(t, Idle) /\ Sound(t, Idle)'
  BY DEF Sound, Idle

\* Process keeps the inductive invariant.
LEMMA ProcessKeepsInv ==
    ASSUME RouterInv, Open \/ Crash \/ Tick
    PROVE  RouterInv'
  <1> USE DEF RouterInv, process, routing, history
  <1>1. CASE Open
    <2>1. PICK h \in [Slots -> Homes], a \in Slots :
            /\ \A s \in Slots : h[s] \in HomesOf(s)
            /\ home' = h /\ active' = a
      BY <1>1 DEF Open, HomesFound, TypeOK, FirstPresent, Slots, Homes, HomesOf
    <2>2. /\ until' = disk.until /\ disk' = Routing' /\ next' = NoState
          /\ Routing' = [active |-> active', until |-> until']
      BY <1>1 DEF Open, Routing
    <2>3. TypeOK'
      BY <1>1, <2>1, <2>2 DEF Open, TypeOK
    <2>4. task' = [t \in Tasks |-> Idle]
      BY <1>1 DEF Open
    <2>5. \A t \in Tasks : Sound(t, task[t])'
      BY <2>4, IdleSound DEF Sound, Idle
    <2> QED
      BY <1>1, <2>1, <2>2, <2>3, <2>5 DEF Open, SignedOutStaysOut, DiskLeads
  <1>2. CASE Crash
    <2>1. TypeOK'
      BY <1>2, IdleIsTask DEF Crash, TypeOK
    <2>2. \A t \in Tasks : Sound(t, task[t])'
      BY <1>2 DEF Crash, Sound, Idle
    <2> QED
      BY <1>2, <2>1, <2>2 DEF Crash, SignedOutStaysOut, DiskLeads, Routing
  <1>3. CASE Tick
    <2>1. TypeOK'
      BY <1>3 DEF Tick, TypeOK
    <2>2. \A t \in Tasks : Sound(t, task[t])'
      BY <1>3 DEF Tick, Sound
    <2> QED
      BY <1>3, <2>1, <2>2 DEF Tick, SignedOutStaysOut, DiskLeads, Routing
  <1> QED
    BY <1>1, <1>2, <1>3

\* The inductive invariant holds initially.
LEMMA InitHasInv == Init => RouterInv
  <1> SUFFICES ASSUME Init PROVE RouterInv
    OBVIOUS
  <1>1. TypeOK
    <2>1. files \in [Homes -> Auths \cup {NoAuth}]
      BY DEF Init, Auths
    <2>2. home \in [Slots -> Homes] /\ \A s \in Slots : home[s] \in HomesOf(s)
      BY DEF Init, Slots, Homes, HomesOf
    <2>3. until \in [Slots -> Nat]
          /\ disk \in [active : Slots \cup {NoSlot}, until : [Slots -> Nat]]
      BY DEF Init, NoState
    <2> QED
      BY <2>1, <2>2, <2>3, IdleIsTask DEF Init, TypeOK
  <1>2. \A t \in Tasks : Sound(t, task[t])
    BY IdleSound DEF Init
  <1> QED
    BY <1>1, <1>2 DEF Init, RouterInv, SignedOutStaysOut, DiskLeads, Routing, NoState

\* Next keeps the inductive invariant.
LEMMA NextKeepsInv == RouterInv /\ [Next]_vars => RouterInv'
  <1> SUFFICES ASSUME RouterInv, [Next]_vars PROVE RouterInv'
    OBVIOUS
  <1>1. CASE Open \/ Crash \/ Tick
    BY <1>1, ProcessKeepsInv
  <1>2. ASSUME up, NEW t \in Tasks, Start(t) \/ Step(t) \/ Disturb(t)
        PROVE  RouterInv'
    BY <1>2, StartKeepsInv, DisturbKeepsInv, LeaseKeepsInv,
       BeginRefreshKeepsInv, EndRefreshKeepsInv, LeaseFailsKeepsInv,
       ChooseKeepsInv, EnterCommitKeepsInv, CommitKeepsInv, MoveKeepsInv,
       WriteFailsKeepsInv,
       CommitSwitchKeepsInv, InstallKeepsInv, SettleKeepsInv, SignOutKeepsInv,
       SignOutFailsKeepsInv DEF Step
  <1>3. CASE UNCHANGED vars
    BY <1>3 DEF vars, RouterInv, TypeOK, SignedOutStaysOut, DiskLeads, Routing, Sound
  <1> QED
    BY <1>1, <1>2, <1>3 DEF Next

\* The invariant holds of every behaviour of the router.
THEOREM RouterInvariant == Spec => []RouterInv
  BY InitHasInv, NextKeepsInv, PTL DEF Spec

\* Every variable keeps its type.
THEOREM TypeCorrect == Spec => []TypeOK
  BY RouterInvariant, PTL DEF RouterInv

\* Signed-out slots stay signed out: neither a refresh in flight nor a restart
\* brings credentials back that a sign-out removed.
THEOREM SignOutIsFinal == Spec => []SignedOutStaysOut
  BY RouterInvariant, PTL DEF RouterInv

\* A restart resumes where the relay was when it died, or where a commit had got
\* with its write: the write comes before the move, under one lock.
THEOREM StateIsDurable == Spec => RestartsResume
  <1> DEFINE A == ~up /\ up' =>
                    \E r \in {Routing} \cup ({next} \ {NoState}) :
                      /\ until' = r.until
                      /\ active' = r.active \/ r.active = NoSlot
                         \/ ~Configured(r.active)'
  <1>1. RouterInv /\ [Next]_vars => [A]_vars
    <2> SUFFICES ASSUME RouterInv, Next, ~up, up' PROVE A
      OBVIOUS
    <2>1. Open
      BY DEF Next, Crash, Tick, routing
    <2>2. disk \in {Routing} \cup ({next} \ {NoState})
      BY DEF RouterInv, DiskLeads
    <2>3. until' = disk.until
      BY <2>1 DEF Open
    <2>4. disk.active \in Slots \cup {NoSlot}
      BY DEF RouterInv, TypeOK
    <2>5. CASE disk.active \in Slots /\ Present(HomesFound, disk.active)
      <3>1. active' = disk.active
        BY <2>1, <2>5 DEF Open
      <3> QED
        BY <2>2, <2>3, <3>1
    <2>6. CASE disk.active \in Slots /\ ~Present(HomesFound, disk.active)
      <3>1. home' = HomesFound /\ files' = files /\ disk.active \in Slots
        BY <2>1, <2>6 DEF Open
      <3>2. ~(files'[home'[disk.active]] # NoAuth)
        BY <2>6, <3>1 DEF Present
      <3> QED
        BY <2>2, <2>3, <3>2 DEF Configured, Present
    <2>7. CASE disk.active = NoSlot
      BY <2>2, <2>3, <2>7
    <2> QED
      BY <2>4, <2>5, <2>6, <2>7
  <1> QED
    BY <1>1, RouterInvariant, PTL DEF Spec, RestartsResume

-----------------------------------------------------------------------------
(* What no step may do.                                                      *)

\* Only these steps write credentials.
LEMMA FilesChange ==
    ASSUME RouterInv, Next, files' # files
    PROVE  \E t \in Tasks : Install(t) \/ SignOut(t) \/ SignOutFails(t)
  <1>1. ASSUME NEW t \in Tasks, Step(t)
        PROVE  files' = files \/ Install(t) \/ SignOut(t) \/ SignOutFails(t)
    BY <1>1, RefreshWritesWhatItRead
       DEF Step, Lease, BeginRefresh, LeaseFails, ChooseStandby, ChooseSpare,
           EnterCommit, Serve, Write, CommitStandby, CommitSpare, CommitSwitch, Move,
           WriteFails, LoginFails, Admit, Settle
  <1> QED
    BY <1>1 DEF Next, Open, Crash, Tick, Start, LeaseAny, Switch, Login, Logout,
                Disturb, Finish, Refuse, Cancel, Drop

\* No refresh writes an old grant over a new sign-in or into an emptied slot.
THEOREM RefreshesNeverRevive == Spec => NoStaleWriteBack
  <1> DEFINE A == \A h \in Homes :
                    \/ files'[h] = NoAuth
                    \/ files'[h].grant \in {files[h].grant, grants + 1}
  <1>1. RouterInv /\ [Next]_vars => [A]_vars
    <2> SUFFICES ASSUME RouterInv, Next PROVE A
      OBVIOUS
    <2>1. CASE files' = files
      BY <2>1
    <2>2. ASSUME NEW t \in Tasks, Install(t)
          PROVE  A
      BY <2>2 DEF Install, RouterInv, TypeOK
    <2>3. ASSUME NEW t \in Tasks, SignOut(t) \/ SignOutFails(t)
          PROVE  A
      BY <2>3 DEF SignOut, SignOutFails, RouterInv, TypeOK
    <2> QED
      BY <2>1, <2>2, <2>3, FilesChange
  <1> QED
    BY <1>1, RouterInvariant, PTL DEF Spec, NoStaleWriteBack

\* Only the move that ends a commit raises the park of a slot.
LEMMA RoutingChanges ==
    ASSUME RouterInv, Next, up, NEW s \in Slots, until'[s] > until[s]
    PROVE  \E t \in Tasks : Move(t)
  <1>1. until[s] \in Nat
    BY DEF RouterInv, TypeOK
  <1>2. ASSUME UNCHANGED until
        PROVE  FALSE
    BY <1>1, <1>2
  <1>3. ASSUME NEW t \in Tasks, Step(t)
        PROVE  Move(t)
    BY <1>2, <1>3
       DEF Step, routing, Lease, BeginRefresh, EndRefresh, LeaseFails, ChooseStandby,
           ChooseSpare, EnterCommit, Serve, Write, CommitStandby, CommitSpare,
           CommitSwitch, WriteFails, Install, LoginFails, Admit, SignOut, SignOutFails,
           Settle
  <1> QED
    BY <1>2, <1>3
       DEF Next, routing, Open, Crash, Tick, Start, LeaseAny, Switch, Login, Logout,
           Disturb, Finish, Refuse, Cancel, Drop

\* A slot is parked only as the relay leaves it.
THEOREM ParkingLeaves == Spec => OnlyTheActiveSlotIsParked
  <1> DEFINE A == up => \A s \in Slots : until'[s] > until[s] =>
                                           active = s /\ active' # s
  <1>1. RouterInv /\ [Next]_vars => [A]_vars
    <2> SUFFICES ASSUME RouterInv, Next, up, NEW s \in Slots, until'[s] > until[s]
                 PROVE  active = s /\ active' # s
      OBVIOUS
    <2>1. PICK t \in Tasks : Move(t)
      BY RoutingChanges
    <2> QED
      BY <2>1, WrittenFacts DEF Move
  <1> QED
    BY <1>1, RouterInvariant, PTL DEF Spec, OnlyTheActiveSlotIsParked

\* A park lasts neither shorter nor longer than the configured bounds.
THEOREM ParkingIsBounded == Spec => ParksAreBounded
  <1> DEFINE A == up => \A s \in Slots : until'[s] > until[s] =>
                    \E t \in Tasks : until'[s] - task[t].now
                                       \in MinCooldown .. MaxCooldown
  <1>1. RouterInv /\ [Next]_vars => [A]_vars
    <2> SUFFICES ASSUME RouterInv, Next, up, NEW s \in Slots, until'[s] > until[s]
                 PROVE  \E t \in Tasks : until'[s] - task[t].now
                                           \in MinCooldown .. MaxCooldown
      OBVIOUS
    <2>1. PICK t \in Tasks : Move(t)
      BY RoutingChanges
    <2> QED
      BY <2>1, WrittenFacts DEF Move
  <1> QED
    BY <1>1, RouterInvariant, PTL DEF Spec, ParksAreBounded

\* Once a downstream's cancellation has returned, no failover of that
\* downstream commits.
THEOREM CancellationWins == Spec => CancelledNeverCommits
  <1> DEFINE A == \A t \in Tasks :
                    (/\ task[t].pc \in {"committing", "written"}
                     /\ task'[t].pc # task[t].pc
                     /\ <<active, until, disk>>' # <<active, until, disk>>)
                    => task[t].client # "cancelled"
  <1>1. RouterInv /\ [Next]_vars => [A]_vars
    BY CommittingFacts, WrittenFacts
  <1> QED
    BY <1>1, RouterInvariant, PTL DEF Spec, CancelledNeverCommits

-----------------------------------------------------------------------------
(* Somewhere to go, as long as nobody signs out.                             *)

\* The file of a running relay names an active slot.
LEMMA DiskIsActive ==
    ASSUME RouterInv, up
    PROVE  disk.active \in Slots
  BY DEF RouterInv, TypeOK, DiskLeads, Routing

\* Without a sign-out no credentials ever disappear, and the profile of the first
\* slot is not filled behind the back of the legacy root.
LEMMA FilesGrow ==
    ASSUME RouterInv, StaysSignedIn, up, Next
    PROVE  /\ \A h \in Homes : files[h] # NoAuth => files'[h] # NoAuth
           /\ files'["primary"] = NoAuth <=> files["primary"] = NoAuth
  <1>1. files \in [Homes -> Auths \cup {NoAuth}] /\ active \in Slots
        /\ home = HomesFound /\ grants \in Nat
    BY DiskIsActive DEF RouterInv, TypeOK, StaysSignedIn
  <1>2. ASSUME NEW t \in Tasks, Install(t)
        PROVE  /\ \A h \in Homes : files[h] # NoAuth => files'[h] # NoAuth
               /\ files'["primary"] = NoAuth <=> files["primary"] = NoAuth
    <2> DEFINE s == task[t].slot
    <2>1. s \in Slots
      BY <1>2 DEF RouterInv, Sound, Install
    <2>2. PICK a \in Accounts :
            files' = [files EXCEPT ![home[s]] = [account |-> a, grant |-> grants']]
      BY <1>2 DEF Install
    <2> DEFINE auth == [account |-> a, grant |-> grants']
    <2>3. auth # NoAuth
      BY AccountsAssumption DEF NoAuth
    <2>4. home[s] = "primary" => files["primary"] # NoAuth
      BY <1>1, <2>1 DEF HomesFound, Slots
    <2> HIDE DEF auth, s
    <2>5. files' = [files EXCEPT ![home[s]] = auth]
      BY <2>2 DEF auth, s
    <2> QED
      BY <1>1, <2>3, <2>4, <2>5 DEF Homes
  <1>3. \A t \in Tasks : ~SignOut(t) /\ ~SignOutFails(t)
    BY DEF StaysSignedIn, SignOut, SignOutFails
  <1> QED
    BY <1>2, <1>3, FilesChange

\* A task that leased, and so may commit, leased a slot that is signed in.
LEMMA LeasedIsSignedIn ==
    ASSUME "logout" \notin Ops, RouterInv, StaysSignedIn, up, NEW t \in Tasks,
           Start(t) \/ Step(t) \/ Disturb(t)
    PROVE  \E r : /\ Become(t, r)
                  /\ r.pc \notin {"signingOut", "removed"}
                  /\ r.pc \in {"commit", "committing"} => Configured(r.slot)
  <1>1. /\ task[t] \in Task /\ Sound(t, task[t])
        /\ task[t].pc \notin {"signingOut", "removed"}
        /\ task[t].pc \in {"commit", "committing"} => Configured(task[t].slot)
    BY DEF RouterInv, TypeOK, StaysSignedIn
  <1> DEFINE Fine(r) == /\ Become(t, r)
                        /\ r.pc \notin {"signingOut", "removed"}
                        /\ r.pc \in {"commit", "committing"} => Configured(r.slot)
             Goes == \E r : Fine(r)
  <1> SUFFICES Goes
    OBVIOUS
  <1>2. ASSUME Become(t, Idle) PROVE Goes
    <2>1. Fine(Idle)
      BY <1>2 DEF Idle
    <2> QED
      BY <2>1
  <1>3. ASSUME NEW account, Configured(task[t].slot),
               Become(t, AfterLease(t, account))
        PROVE  Goes
    <2> DEFINE r == [task[t] EXCEPT !.pc = "commit", !.auth = NoAuth,
                                    !.account = account]
    <2>1. Serving(t, task[t].slot, account).pc = "serving"
      BY DEF Serving, Idle
    <2>2. r.slot = task[t].slot /\ r.pc = "commit"
      BY <1>1 DEF Task
    <2>3. CASE AfterLease(t, account) = r
      <3>1. Fine(r)
        BY <1>3, <2>2, <2>3
      <3> QED
        BY <3>1
    <2>4. CASE AfterLease(t, account) = Idle
      BY <1>2, <1>3, <2>4
    <2>5. CASE AfterLease(t, account) = Serving(t, task[t].slot, account)
      <3>1. Fine(Serving(t, task[t].slot, account))
        BY <1>3, <2>1, <2>5
      <3> QED
        BY <3>1
    <2> QED
      BY <2>3, <2>4, <2>5 DEF AfterLease
  <1>4. CASE Lease(t)
    BY <1>3, <1>4 DEF Lease
  <1>5. CASE EndRefresh(t)
    BY <1>3, <1>5 DEF EndRefresh
  <1>6. ASSUME NEW r, Become(t, r),
               r.pc \in {"idle", "acquire", "refresh", "choose", "serving",
                         "refused", "oauth", "installed", "written"}
        PROVE  Goes
    <2>1. Fine(r)
      BY <1>6
    <2> QED
      BY <2>1
  <1>7. CASE Start(t)
    <2>1. ASSUME NEW op \in {"request", "probe"}, LeaseAny(t, op)
          PROVE  Goes
      <3>1. [Idle EXCEPT !.pc = "acquire", !.aim = "active", !.slot = active,
                         !.client = IF op = "request" THEN "open" ELSE "none"].pc
              = "acquire"
        BY DEF Idle
      <3> QED
        BY <1>6, <2>1, <3>1 DEF LeaseAny
    <2>2. ASSUME NEW s \in Slots, Switch(t, s) \/ Login(t, s)
          PROVE  Goes
      <3>1. /\ [Idle EXCEPT !.pc = "acquire", !.aim = "wanted", !.slot = s].pc
                 = "acquire"
            /\ [Idle EXCEPT !.pc = "oauth", !.slot = s].pc = "oauth"
        BY DEF Idle
      <3> QED
        BY <1>6, <2>2, <3>1 DEF Switch, Login
    <2> QED
      BY <1>7, <2>1, <2>2 DEF Start, Logout
  <1>8. CASE BeginRefresh(t) \/ Install(t)
    <2>1. /\ [task[t] EXCEPT !.pc = "refresh",
                             !.auth = files[home[task[t].slot]]].pc = "refresh"
          /\ [task[t] EXCEPT !.pc = "installed"].pc = "installed"
      BY <1>1 DEF Task
    <2> QED
      BY <1>6, <1>8, <2>1 DEF BeginRefresh, Install
  <1>9. CASE LeaseFails(t)
    <2>1. [Idle EXCEPT !.pc = "choose", !.from = task[t].slot, !.now = clock,
                       !.client = task[t].client].pc = "choose"
      BY DEF Idle
    <2> QED
      BY <1>2, <1>6, <1>9, <2>1 DEF LeaseFails
  <1>10. ASSUME Follow(t) PROVE Goes
    <2>1. [Idle EXCEPT !.pc = "acquire", !.aim = "follow", !.slot = active,
                       !.client = task[t].client].pc = "acquire"
      BY DEF Idle
    <2> QED
      BY <1>6, <1>10, <2>1 DEF Follow
  <1>11. ASSUME NEW aim, TryStandby(t, aim) PROVE Goes
    <2>1. \A s : [task[t] EXCEPT !.pc = "acquire", !.aim = aim, !.slot = s].pc
                   = "acquire"
      BY <1>1 DEF Task
    <2> QED
      BY <1>2, <1>6, <1>11, <2>1 DEF TryStandby
  <1>12. CASE ChooseStandby(t) \/ ChooseSpare(t)
    BY <1>10, <1>11, <1>12 DEF ChooseStandby, ChooseSpare
  <1>13. CASE EnterCommit(t)
    <2> DEFINE r == [task[t] EXCEPT !.pc = "committing"]
    <2>1. r.slot = task[t].slot /\ r.pc = "committing" /\ Configured(task[t].slot)
      BY <1>1, <1>13 DEF Task, EnterCommit
    <2>2. Become(t, r) => Fine(r)
      BY <2>1
    <2> QED
      BY <1>2, <1>10, <1>13, <2>2 DEF EnterCommit
  <1>14. ASSUME NEW w, Write(t, w) PROVE Goes
    <2>1. [task[t] EXCEPT !.pc = "written"].pc = "written"
      BY <1>1 DEF Task
    <2> QED
      BY <1>6, <1>14, <2>1 DEF Write
  <1>15. CASE CommitStandby(t) \/ CommitSpare(t) \/ Move(t)
    <2>1. Serving(t, task[t].slot, task[t].account).pc = "serving"
      BY DEF Serving, Idle
    <2> QED
      BY <1>2, <1>6, <1>14, <1>15, <2>1 DEF CommitStandby, CommitSpare, Serve, Move
  <1>16. CASE \/ CommitSwitch(t) \/ Admit(t) \/ WriteFails(t) \/ LoginFails(t)
              \/ SignOut(t) \/ SignOutFails(t) \/ Settle(t) \/ Finish(t) \/ Drop(t)
    BY <1>1, <1>2, <1>14, <1>16 DEF WriteFails, CommitSwitch, LoginFails, Admit, SignOut,
       SignOutFails, Settle, Finish, Drop
  <1>17. CASE Refuse(t)
    <2>1. [Idle EXCEPT !.pc = "refused", !.from = task[t].slot,
                       !.refused = task[t].account, !.now = clock,
                       !.client = task[t].client].pc = "refused"
      BY DEF Idle
    <2> QED
      BY <1>6, <1>17, <2>1 DEF Refuse
  <1>18. CASE Cancel(t)
    <2> DEFINE r == [task[t] EXCEPT !.client = "cancelled"]
    <2>1. r.slot = task[t].slot /\ r.pc = task[t].pc
      BY <1>1 DEF Task
    <2>2. Become(t, r)
      BY <1>18 DEF Cancel
    <2>3. Fine(r)
      BY <1>1, <2>1, <2>2
    <2> QED
      BY <2>3
  <1> HIDE DEF Fine
  <1> HIDE DEF Goes
  <1> QED
    BY <1>4, <1>5, <1>7, <1>8, <1>9, <1>12, <1>13, <1>15, <1>16, <1>17, <1>18
       DEF Step, Disturb

\* The relay moves, in memory and on the disk, and a slot is parked, only as it
\* moves, to a slot that is signed in.
LEMMA MovesToSignedIn ==
    ASSUME RouterInv, StaysSignedIn, up, NEW t \in Tasks,
           Start(t) \/ Step(t) \/ Disturb(t)
    PROVE  \A r \in {Routing', disk'} :
             r.until = NoState.until \/ (r.active \in Slots /\ Configured(r.active))
  <1>1. /\ until \in [Slots -> Nat] /\ active \in Slots
        /\ task[t].pc \notin {"signingOut", "removed"}
        /\ task[t].pc \in {"commit", "committing"} =>
             task[t].slot \in Slots /\ Configured(task[t].slot)
        /\ \A r \in {Routing, disk} :
             r.until = NoState.until \/ (r.active \in Slots /\ Configured(r.active))
    BY DEF RouterInv, TypeOK, StaysSignedIn, Sound
  <1> DEFINE Fine(r) == r.until = NoState.until
                        \/ (r.active \in Slots /\ Configured(r.active))
  <1>2. CASE UNCHANGED routing
    BY <1>1, <1>2 DEF routing, Routing
  <1>3. ASSUME NEW r, Write(t, r), Fine(r)
        PROVE  Fine(Routing') /\ Fine(disk')
    BY <1>1, <1>3 DEF Write, Routing
  <1>4. Routing.until = until /\ Routing.active = active
    BY DEF Routing
  <1>5. ASSUME NEW r, Write(t, r), r.active = task[t].slot,
               task[t].pc \in {"commit", "committing"}
        PROVE  Fine(Routing') /\ Fine(disk')
    BY <1>1, <1>3, <1>5
  <1>6. CASE CommitStandby(t) \/ CommitSpare(t)
    <2>1. \A seconds : Parked(t, seconds).active = task[t].slot
      BY DEF Parked
    <2> QED
      BY <1>2, <1>5, <1>6, <2>1 DEF CommitStandby, CommitSpare, Serve
  <1>7. CASE CommitSwitch(t)
    BY <1>5, <1>7 DEF CommitSwitch
  <1>8. CASE Admit(t)
    <2> DEFINE w == [until EXCEPT ![task[t].slot] = 0]
               r == [active |-> active, until |-> w]
    <2>1. w = NoState.until \/ until # NoState.until
      BY <1>1 DEF NoState
    <2>2. Write(t, r)
      BY <1>8 DEF Admit
    <2>3. r.until = w /\ r.active = active
      OBVIOUS
    <2> HIDE DEF w, r
    <2>4. Fine(r)
      BY <1>1, <1>4, <2>1, <2>3
    <2> QED
      BY <1>3, <2>2, <2>4
  <1>9. CASE Move(t)
    <2>1. disk = next /\ next \in [active : Slots, until : [Slots -> Nat]]
      BY <1>9, WrittenFacts DEF Move
    <2>2. disk' = disk /\ Routing' = disk
      BY <1>9, <2>1 DEF Move, Routing
    <2> QED
      BY <1>1, <2>2
  <1>10. \/ UNCHANGED routing \/ CommitStandby(t) \/ CommitSpare(t) \/ CommitSwitch(t)
         \/ Admit(t) \/ Move(t)
    BY <1>1, Zenon DEF Start, LeaseAny, Switch, Login, Logout, Step, Lease, BeginRefresh,
       EndRefresh, LeaseFails, ChooseStandby, ChooseSpare, EnterCommit, WriteFails,
       Install, LoginFails, SignOut, SignOutFails, Settle, Disturb, Finish, Refuse,
       Cancel, Drop
  <1> QED
    BY <1>2, <1>6, <1>7, <1>8, <1>9, <1>10

LEMMA StaysSignedInKeeps ==
    ASSUME "logout" \notin Ops, RouterInv, RouterInv', StaysSignedIn, [Next]_vars
    PROVE  StaysSignedIn'
  <1>1. /\ task \in [Tasks -> Task] /\ active \in Slots \cup {NoSlot}
        /\ home \in [Slots -> Homes] /\ until \in [Slots -> Nat]
    BY DEF RouterInv, TypeOK
  <1>2. CASE UNCHANGED vars
    BY <1>2 DEF vars, StaysSignedIn, Configured, Present, HomesFound, Routing
  <1>3. CASE Tick
    BY <1>3 DEF Tick, routing, StaysSignedIn, Configured, Present, HomesFound, Routing
  <1>4. CASE Crash
    <2>1. /\ Routing' = Routing /\ disk' = disk /\ home' = home /\ files' = files
          /\ task' = [t \in Tasks |-> Idle]
      BY <1>4 DEF Crash, routing, Routing
    <2>2. \A t \in Tasks : task'[t].pc = "idle"
      BY <2>1 DEF Idle
    <2> QED
      BY <2>1, <2>2 DEF StaysSignedIn, Configured, Present, HomesFound
  <1>5. CASE Open
    <2> DEFINE a == IF disk.active \in Slots /\ Present(HomesFound, disk.active)
                    THEN disk.active ELSE FirstPresent(HomesFound)
    <2>1. /\ home' = HomesFound /\ active' = a /\ until' = disk.until
          /\ disk' = Routing' /\ files' = files /\ task' = task /\ ~up
      BY <1>5 DEF Open
    <2>2. \A t \in Tasks : task'[t].pc = "idle"
      BY <2>1 DEF RouterInv, Idle
    <2>3. (home = HomesFound)'
      BY <2>1 DEF HomesFound
    <2>4. disk.until # NoState.until =>
            disk.active \in Slots /\ Present(HomesFound, disk.active)
      BY DEF StaysSignedIn, Configured
    <2>5. disk.until # NoState.until => a = disk.active
      BY <2>4
    <2>6. /\ Routing'.until = until' /\ Routing'.active = active'
      BY DEF Routing
    <2>7. disk.until = NoState.until
            \/ (active' \in Slots /\ files'[home'[active']] # NoAuth)
      BY <2>1, <2>4, <2>5 DEF Present
    <2> HIDE DEF a
    <2>8. \A r \in {Routing', disk'} : r.until = NoState.until
                                         \/ (r.active \in Slots /\ Configured(r.active)')
      BY <2>1, <2>6, <2>7 DEF Configured, Present
    <2> QED
      BY <2>2, <2>3, <2>8 DEF StaysSignedIn
  <1>6. ASSUME up, NEW t \in Tasks, Start(t) \/ Step(t) \/ Disturb(t)
        PROVE  StaysSignedIn'
    <2>1. Next
      BY <1>6 DEF Next
    <2>2. home' = home
      BY <1>6 DEF Start, LeaseAny, Switch, Login, Logout, Step, Lease, BeginRefresh,
         EndRefresh, LeaseFails, ChooseStandby, ChooseSpare, EnterCommit, CommitStandby,
         CommitSpare, CommitSwitch, Move, WriteFails, Install, LoginFails, Admit,
         SignOut, SignOutFails, Settle, Disturb, Finish, Refuse, Cancel, Drop, process
    <2>3. \A s \in Slots : Configured(s) => Configured(s)'
      BY <1>1, <1>6, <2>1, <2>2, FilesGrow DEF Configured, Present
    <2>4. disk.active \in Slots
      BY <1>6, DiskIsActive
    <2>5. home' = HomesFound'
      <3>1. home = HomesFound
        BY <2>4 DEF StaysSignedIn
      <3> QED
        BY <1>6, <2>1, <2>2, <3>1, FilesGrow DEF HomesFound
    <2>6. \A r \in {Routing', disk'} : r.until = NoState.until
                                         \/ (r.active \in Slots /\ Configured(r.active)')
      BY <1>6, <2>3, MovesToSignedIn
    <2>7. PICK r : /\ Become(t, r)
                   /\ r.pc \notin {"signingOut", "removed"}
                   /\ r.pc \in {"commit", "committing"} => Configured(r.slot)
      BY <1>6, LeasedIsSignedIn
    <2>8. ASSUME NEW u \in Tasks
          PROVE  /\ task'[u].pc \notin {"signingOut", "removed"}
                 /\ task'[u].pc \in {"commit", "committing"}
                      => Configured(task'[u].slot)
      BY <1>1, <2>7 DEF Become, StaysSignedIn
    <2>9. ASSUME NEW u \in Tasks, task'[u].pc \in {"commit", "committing"}
          PROVE  Configured(task[u].slot)'
      <3>1. Sound(u, task[u])'
        BY DEF RouterInv
      <3>2. task'[u].slot \in Slots
        BY <2>9, <3>1 DEF Sound
      <3>3. Configured(task'[u].slot)
        BY <2>8, <2>9
      <3>4. home[task'[u].slot] \in Homes
        BY <1>1, <3>2
      <3> QED
        BY <1>6, <2>1, <2>2, <3>2, <3>3, <3>4, FilesGrow DEF Configured, Present
    <2> QED
      BY <2>5, <2>6, <2>8, <2>9 DEF StaysSignedIn
  <1> QED
    BY <1>2, <1>3, <1>4, <1>5, <1>6 DEF Next

\* As long as nobody signs out, a lease of a router that has a slot signed in is never
\* sent away: whatever tasks, crashes and restarts come between, the active slot is
\* signed in, or nothing was ever parked.
THEOREM LeasesHaveSomewhereToGo ==
    ASSUME "logout" \notin Ops
    PROVE  Spec => []SomewhereToGo
  <1>1. Init => StaysSignedIn
    BY DEF Init, StaysSignedIn, Slots, NoSlot, NoState, Routing, Idle
  <1>2. RouterInv /\ RouterInv' /\ StaysSignedIn /\ [Next]_vars => StaysSignedIn'
    BY StaysSignedInKeeps
  <1>3. RouterInv /\ StaysSignedIn => SomewhereToGo
    BY DEF RouterInv, TypeOK, StaysSignedIn, SomewhereToGo, NoState, Routing
  <1> QED
    BY <1>1, <1>2, <1>3, RouterInvariant, PTL DEF Spec
=============================================================================
