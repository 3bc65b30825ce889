---------------------------- MODULE LimitsCache ----------------------------
(***************************************************************************)
(* The usage limits of the subscriptions (src/core/limits.rs): a poll of   *)
(* GET /v1/limits leases an account, takes its usage document from a cache *)
(* of a minute or from the vendor, and moves the relay to the standby when *)
(* the document says that the subscription is exhausted.                   *)
(*                                                                         *)
(* The cache has one lock, held over the fetch.  Meanwhile accounts sign   *)
(* in, and invalidate the cache once they have; the operator switches; the *)
(* windows of the subscriptions run out and reset; callers hang up.        *)
(***************************************************************************)
EXTENDS Naturals

CONSTANTS
    Polls,      \* the callers that ask for usage limits
    NoPoll,     \* the holder of the free lock
    Slots, NoSlot,
    Accounts, NoAccount,
    CacheTtl,   \* CACHE_TTL
    MaxTime,    \* bound on the clock
    MaxChanges  \* bound on sign-ins, switches and turns of a window

ASSUME NamesAssumption ==
    NoPoll \notin Polls /\ NoSlot \notin Slots /\ NoAccount \notin Accounts
ASSUME TimesAssumption ==
    CacheTtl \in Nat \ {0} /\ MaxTime \in Nat /\ MaxChanges \in Nat

VARIABLES
    clock, changes,
    active,   \* the router's active slot
    held,     \* the account signed in to each slot
    due,      \* the slots signed in to or out of, before their invalidation
    spent,    \* the accounts whose window has run out, at the vendor
    cache,    \* LimitsCache.inner: the last document of each slot
    lock,     \* the poll that holds its lock
    poll,     \* what each poll is doing
    epoch     \* history: the invalidations of each slot

router == <<active, held, due>>
store == <<cache, lock>>
vars == <<clock, changes, active, held, due, spent, cache, lock, poll, epoch>>

\* A usage document: whose it is, whether it says the account is exhausted,
\* when it was fetched and after how many invalidations of its slot.
NoDocument == [account |-> NoAccount, full |-> FALSE, fetched |-> 0, epoch |-> 0]
Document == [account : Accounts \cup {NoAccount}, full : BOOLEAN,
             fetched : Nat, epoch : Nat]

\* `moved` says that the poll has failed over; `asked` and `epoch` are the clock and
\* the invalidations of the slot at the time of the lease, or of the request.
Poll == [pc : {"idle", "leased", "fetching", "exhausted", "answered", "failed"},
         slot : Slots \cup {NoSlot}, account : Accounts \cup {NoAccount},
         moved : BOOLEAN, doc : Document,
         asked : Nat, epoch : Nat, kind : {"get", "slot"}]

Idle == [pc |-> "idle", slot |-> NoSlot, account |-> NoAccount, moved |-> FALSE,
         doc |-> NoDocument, asked |-> 0, epoch |-> 0, kind |-> "get"]

Configured(s) == held[s] # NoAccount
Become(p, r) == poll' = [poll EXCEPT ![p] = r]
Free(p) == poll[p].pc \in {"idle", "answered", "failed"}

-----------------------------------------------------------------------------
Init ==
    /\ clock = 0 /\ changes = 0
    /\ held \in [Slots -> Accounts \cup {NoAccount}]
    /\ active \in Slots /\ due = {}
    /\ spent = {}
    /\ cache = [s \in Slots |-> NoDocument] /\ lock = NoPoll
    /\ poll = [p \in Polls |-> Idle]
    /\ epoch = [s \in Slots |-> 0]

\* A lease of slot s, by a poll that has moved the relay or not.
Leased(s, kind, moved) ==
    [Idle EXCEPT !.pc = "leased", !.slot = s, !.account = held[s],
                 !.kind = kind, !.moved = moved,
                 !.asked = clock, !.epoch = epoch[s]]

\* limits_handler: lease_any leases the active slot, or else moves the relay to
\* a standby.  Which slots are parked is left open.
Ask(p) ==
    /\ Free(p)
    /\ \E s \in Slots :
         /\ Configured(s)
         /\ Become(p, Leased(s, "get", FALSE))
         /\ active' = s
    /\ UNCHANGED <<clock, changes, held, due, spent, store, epoch>>

\* The service's own "limits" command leases the slot it was asked for.
AskSlot(p, s) ==
    /\ Free(p) /\ Configured(s)
    /\ Become(p, Leased(s, "slot", FALSE))
    /\ UNCHANGED <<clock, changes, router, spent, store, epoch>>

\* Mutant of Fresh: the document of the slot, whoever is signed in to it.
FreshSlot(s, account) ==
    cache[s] # NoDocument /\ clock - cache[s].fetched < CacheTtl

Fresh(s, account) ==
    cache[s].account = account /\ clock - cache[s].fetched < CacheTtl

ConfiguredSlots == {s \in Slots : Configured(s)}

\* What becomes of a poll that has its document: the first of a get that finds
\* the subscription exhausted, and another one configured, moves the relay.
WithDocument(p, doc) ==
    LET turns == /\ poll[p].kind = "get" /\ ~poll[p].moved
                 /\ doc.full /\ \E s, t \in ConfiguredSlots : s # t
    IN [poll[p] EXCEPT !.doc = doc,
                       !.pc = IF turns THEN "exhausted" ELSE "answered"]

\* get_for_account, under the lock: the cached document ...
Hit(p) ==
    LET r == poll[p] IN
    /\ r.pc = "leased" /\ lock = NoPoll
    /\ Fresh(r.slot, r.account)
    /\ Become(p, WithDocument(p, cache[r.slot]))
    /\ UNCHANGED <<clock, changes, router, spent, store, epoch>>

\* Mutant of Fetch: the lock is given up while the vendor is asked.
FetchUnlocked(p) ==
    LET r == poll[p] IN
    /\ r.pc = "leased" /\ lock = NoPoll
    /\ ~Fresh(r.slot, r.account)
    /\ Become(p, [r EXCEPT !.pc = "fetching", !.epoch = epoch[r.slot]])
    /\ UNCHANGED <<clock, changes, router, spent, store, epoch>>

\* ... or one from the vendor, with the lock held until it answers.
Fetch(p) ==
    LET r == poll[p] IN
    /\ r.pc = "leased" /\ lock = NoPoll
    /\ ~Fresh(r.slot, r.account)
    /\ lock' = p
    /\ Become(p, [r EXCEPT !.pc = "fetching", !.epoch = epoch[r.slot]])
    /\ UNCHANGED <<clock, changes, router, spent, cache, epoch>>

Freed(p) == IF lock = p THEN NoPoll ELSE lock

Fetched(p) ==
    LET r == poll[p]
        doc == [account |-> r.account, full |-> r.account \in spent,
                fetched |-> clock, epoch |-> r.epoch]
    IN  /\ r.pc = "fetching"
        /\ cache' = [cache EXCEPT ![r.slot] = doc]
        /\ lock' = Freed(p)
        /\ Become(p, WithDocument(p, doc))
        /\ UNCHANGED <<clock, changes, router, spent, epoch>>

\* Mutant of FetchFails: the vendor is waited for without a limit.
NoLimit(p) == FALSE

\* No answer in fifteen seconds, or none that can be used: an error, also for a
\* poll that has moved the relay before.
FetchFails(p) ==
    /\ poll[p].pc = "fetching"
    /\ Become(p, [Idle EXCEPT !.pc = "failed"])
    /\ lock' = Freed(p)
    /\ UNCHANGED <<clock, changes, router, spent, cache, epoch>>

\* switch_after_quota (AccountRouter models its steps): if another slot is active
\* by now it is followed, else the relay moves to a standby.
Failover(p) ==
    LET r == poll[p] IN
    /\ r.pc = "exhausted"
    /\ \/ /\ active # r.slot /\ Configured(active)
          /\ Become(p, Leased(active, "get", TRUE))
          /\ UNCHANGED active
       \/ /\ active = r.slot
          /\ \E s \in Slots \ {r.slot} :
               /\ Configured(s) /\ held[s] # r.account
               /\ active' = s
               /\ Become(p, Leased(s, "get", TRUE))
    /\ UNCHANGED <<clock, changes, held, due, spent, store, epoch>>

\* There is no usable standby: the exhausted slot's document is the answer.
Stays(p) ==
    /\ poll[p].pc = "exhausted"
    /\ Become(p, [poll[p] EXCEPT !.pc = "answered"])
    /\ UNCHANGED <<clock, changes, router, spent, store, epoch>>

\* The caller hangs up.
Drop(p) ==
    /\ ~Free(p)
    /\ Become(p, Idle)
    /\ lock' = Freed(p)
    /\ UNCHANGED <<clock, changes, router, spent, cache, epoch>>

-----------------------------------------------------------------------------
(* What goes on around the polls.                                            *)

Changes == changes < MaxChanges /\ changes' = changes + 1

\* login and logout replace or remove a slot's credentials.  What comes next may
\* be cancelled ...
SignIn(s, account) ==
    /\ Changes
    /\ held' = [held EXCEPT ![s] = account]
    /\ due' \in {due \cup {s}, due}
    /\ UNCHANGED <<clock, active, spent, store, poll, epoch>>

\* ... else the service forgets what it knows of the slot, under the lock.
Invalidate(s) ==
    /\ s \in due /\ lock = NoPoll
    /\ cache' = [cache EXCEPT ![s] = NoDocument]
    /\ due' = due \ {s}
    /\ epoch' = [epoch EXCEPT ![s] = @ + 1]
    /\ UNCHANGED <<clock, changes, active, held, spent, lock, poll>>

\* switch_to: a deliberate switch.
Switch(s) ==
    /\ Changes /\ Configured(s)
    /\ active' = s
    /\ UNCHANGED <<clock, held, due, spent, store, poll, epoch>>

\* A window runs out, or resets.
Turns(account) ==
    /\ Changes
    /\ \/ spent' = spent \cup {account} /\ account \notin spent
       \/ spent' = spent \ {account} /\ account \in spent
    /\ UNCHANGED <<clock, router, store, poll, epoch>>

Tick ==
    /\ clock < MaxTime
    /\ clock' = clock + 1
    /\ UNCHANGED <<changes, router, spent, store, poll, epoch>>

-----------------------------------------------------------------------------
Works(p) == Hit(p) \/ Fetch(p) \/ Fetched(p) \/ FetchFails(p)
            \/ Failover(p) \/ Stays(p)

Next ==
    \/ \E p \in Polls : Ask(p) \/ Works(p) \/ Drop(p)
                        \/ \E s \in Slots : AskSlot(p, s)
    \/ \E s \in Slots : Invalidate(s) \/ Switch(s)
                        \/ \E account \in Accounts \cup {NoAccount} :
                               SignIn(s, account)
    \/ \E account \in Accounts : Turns(account)
    \/ Tick

Spec == Init /\ [][Next]_vars

\* Whatever a poll waits for comes: the lock is given in the order it was asked
\* for, and a fetch ends within fifteen seconds.
FairSpec == Spec /\ \A p \in Polls :
    SF_vars(Hit(p) \/ Fetch(p)) /\ WF_vars(FetchFails(p)) /\ WF_vars(Stays(p))

-----------------------------------------------------------------------------
(* Properties.                                                               *)

TypeOK ==
    /\ clock \in Nat /\ changes \in Nat
    /\ active \in Slots /\ due \subseteq Slots
    /\ held \in [Slots -> Accounts \cup {NoAccount}]
    /\ spent \subseteq Accounts
    /\ cache \in [Slots -> Document] /\ lock \in Polls \cup {NoPoll}
    /\ poll \in [Polls -> Poll]
    /\ epoch \in [Slots -> Nat]

\* Once a sign-in or a sign-out has invalidated a slot, no document that was
\* asked for before is kept: also not that of a fetch that was under way.
InvalidationSticks ==
    \A s \in Slots : cache[s] # NoDocument => cache[s].epoch = epoch[s]

\* What a poll answers, or moves the relay for, is the usage of the account it
\* leased, not older than the cache may be nor than an invalidation of the slot.
AnswersAreCurrent ==
    \A p \in Polls : poll[p].pc \in {"exhausted", "answered"} =>
        /\ poll[p].doc.account = poll[p].account
        /\ poll[p].asked < poll[p].doc.fetched + CacheTtl
        /\ poll[p].epoch <= poll[p].doc.epoch

\* The inductive invariant: what the lock protects while the vendor is asked.
LimitsInv ==
    /\ TypeOK /\ InvalidationSticks /\ AnswersAreCurrent
    /\ \A p \in Polls :
         /\ lock = p <=> poll[p].pc = "fetching"
         /\ poll[p].pc \in {"leased", "fetching", "exhausted"} =>
                /\ poll[p].slot \in Slots /\ poll[p].account \in Accounts
                /\ poll[p].asked <= clock
                /\ poll[p].epoch <= epoch[poll[p].slot]
         /\ poll[p].pc = "fetching" =>
                /\ poll[p].epoch = epoch[poll[p].slot]
                /\ ~Fresh(poll[p].slot, poll[p].account)
    /\ \A s \in Slots : cache[s].fetched <= clock

\* A burst of polls is one request to the vendor: while a document is fresh, no
\* other of its account replaces it.
KeepsFresh ==
    \A s \in Slots :
        cache'[s] # cache[s] /\ cache[s] # NoDocument /\ cache'[s] # NoDocument
        /\ cache'[s].account = cache[s].account =>
            clock >= cache[s].fetched + CacheTtl

BurstIsOneFetch == [][KeepsFresh]_vars

PollEnds(p) == ~Free(p) ~> Free(p)

\* Every poll is answered, however many queue behind one that asks the vendor.
EveryPollEnds == \A p \in Polls : PollEnds(p)
=============================================================================
