---------------------------- MODULE ModelCatalog ----------------------------
(***************************************************************************)
(* The model catalog of praxis-relay (src/core/catalog.rs): one backend    *)
(* answer, bound to the slot whose lease fetched it, refreshed by readers.  *)
(*                                                                         *)
(* A reader holds the catalog's lock across the fetch, so that a burst of  *)
(* readers is one request upstream.  Switches, sign-ins and sign-outs must *)
(* not wait behind it: the router reports them from inside its own commits, *)
(* and the next reader applies what they recorded.  The router is seen here *)
(* only through those reports and through the credentials a lease reads.    *)
(***************************************************************************)
EXTENDS Integers

CONSTANTS
    Readers,       \* concurrent readers: /v1/models, validators, /health
    NoReader,      \* the holder of the free lock
    Slots, NoSlot,
    Discovery,     \* RELAY_MODEL_DISCOVERY is not off
    TTL,           \* RELAY_MODELS_TTL
    RetryCooldown, \* RETRY_COOLDOWN
    MaxTime,       \* bound on the clock
    MaxGrants      \* bound on the number of sign-ins

ASSUME ReadersAssumption == NoReader \notin Readers
ASSUME SlotsAssumption == NoSlot \notin Slots
ASSUME DiscoveryAssumption == Discovery \in BOOLEAN
ASSUME TimesAssumption == TTL \in Nat /\ RetryCooldown \in Nat
ASSUME BoundsAssumption == MaxTime \in Nat /\ MaxGrants \in Nat

VARIABLES
    clock,
    entry,              \* state.entry, or NoEntry
    lastAttempt,        \* state.last_attempt, or Never
    pendingSwitch,      \* the slot last switched to, until a reader looks
    pendingCredentials, \* the slots whose credentials changed, until then
    inner,              \* the reader that holds the catalog's lock
    reader,             \* what each reader is doing
    held,               \* the sign-in whose credentials a slot holds, or 0
    grants,             \* sign-ins so far
    asked,              \* history: when the backend was last asked
    reported            \* history: a report came since then

vars == <<clock, entry, lastAttempt, pendingSwitch, pendingCredentials, inner,
          reader, held, grants, asked, reported>>

Never == -1

Entries == [slot : Slots, grant : Nat, fetched : Nat, superseded : BOOLEAN]
NoEntry == [slot |-> NoSlot, grant |-> 0, fetched |-> 0, superseded |-> FALSE]

\* What a reader asks for: a snapshot; whether a slug is known, which takes a
\* second, forced snapshot on a miss; or the status, which fetches nothing.
Questions == {"snapshot", "known", "forced", "status"}

Sources == {"live", "stale", "fallback", "static"}

\* A reader fetches through `slot` with the credentials of `grant`, or was shown
\* the list of `slot`, labelled `source`.
Reader == [pc : {"idle", "waiting", "leasing", "fetching", "answered"},
           ask : Questions,
           slot : Slots \cup {NoSlot},
           grant : Nat,
           source : Sources]

Idle == [pc |-> "idle", ask |-> "snapshot", slot |-> NoSlot, grant |-> 0,
         source |-> "static"]

Become(r, state) == reader' = [reader EXCEPT ![r] = state]

pending == <<pendingSwitch, pendingCredentials>>
router == <<held, grants>>
history == <<asked, reported>>

Init ==
    /\ clock = 0
    /\ entry = NoEntry
    /\ lastAttempt = Never
    /\ pendingSwitch = NoSlot
    /\ pendingCredentials = {}
    /\ inner = NoReader
    /\ reader = [r \in Readers |-> Idle]
    /\ held \in [Slots -> {0, 1}]
    /\ grants = 1
    /\ asked = Never
    /\ reported = FALSE

-----------------------------------------------------------------------------
(* What a reader applies.  `state` is an entry and the last attempt.         *)

\* A credential change retires the answer it fetched, and is reason to ask
\* again whatever the cooldown.
ApplyCredentials(changed, state) ==
    IF changed = {} THEN state
    ELSE [entry |-> IF state.entry.slot \in changed THEN NoEntry
                    ELSE state.entry,
          attempt |-> Never]

\* Mutant of ApplySwitch: a superseded answer stays superseded.
SwitchAccumulates(selected, state) ==
    CASE selected = NoSlot -> state
      [] selected # NoSlot /\ state.entry = NoEntry ->
           [state EXCEPT !.attempt = Never]
      [] OTHER ->
           LET superseded == \/ state.entry.superseded
                             \/ state.entry.slot # selected IN
           [entry |-> [state.entry EXCEPT !.superseded = superseded],
            attempt |-> IF superseded THEN Never ELSE state.attempt]

\* Mutant of ApplySwitch: with no answer to demote, nothing is done.
SwitchNeedsEntry(selected, state) ==
    IF selected = NoSlot \/ state.entry = NoEntry THEN state
    ELSE LET superseded == state.entry.slot # selected IN
         [entry |-> [state.entry EXCEPT !.superseded = superseded],
          attempt |-> IF superseded THEN Never ELSE state.attempt]

\* A switch relabels the answer: assigned, not accumulated.
ApplySwitch(selected, state) ==
    CASE selected = NoSlot -> state
      [] selected # NoSlot /\ state.entry = NoEntry ->
           [state EXCEPT !.attempt = Never]
      [] OTHER ->
           LET superseded == state.entry.slot # selected IN
           [entry |-> [state.entry EXCEPT !.superseded = superseded],
            attempt |-> IF superseded THEN Never ELSE state.attempt]

\* The state of the catalog as the next reader will find it.
Current ==
    ApplySwitch(pendingSwitch,
        ApplyCredentials(pendingCredentials,
            [entry |-> entry, attempt |-> lastAttempt]))

Fresh(e) == ~e.superseded /\ clock - e.fetched < TTL

SourceOf(e) ==
    CASE ~Discovery -> "static"
      [] Discovery /\ e = NoEntry -> "fallback"
      [] Discovery /\ e # NoEntry /\ Fresh(e) -> "live"
      [] OTHER -> "stale"

\* The reader is shown entry e.
Answer(r, e) ==
    [Idle EXCEPT !.pc = "answered", !.ask = reader[r].ask, !.slot = e.slot,
                 !.source = SourceOf(e)]

Cooling(attempt) == attempt # Never /\ clock - attempt < RetryCooldown

\* Mutant of Due: a forced snapshot does not wait for the cooldown.
DueWhenForced(ask, state) ==
    /\ Discovery
    /\ \/ ask = "forced"
       \/ /\ ask # "status"
          /\ state.entry = NoEntry \/ ~Fresh(state.entry)
          /\ ~Cooling(state.attempt)

\* A snapshot asks the backend.  A forced one does so whatever the TTL.
Due(ask, state) ==
    /\ Discovery
    /\ ask # "status"
    /\ \/ state.entry = NoEntry
       \/ ~Fresh(state.entry)
       \/ ask = "forced"
    /\ ~Cooling(state.attempt)

-----------------------------------------------------------------------------
(* Readers.                                                                  *)

Ask(r, ask) ==
    /\ reader[r].pc = "idle"
    /\ Become(r, [Idle EXCEPT !.pc = "waiting", !.ask = ask])
    /\ UNCHANGED <<clock, entry, lastAttempt, pending, inner, router, history>>

\* From the lock to the first await, or to the answer: what was recorded since
\* the last reader is applied, and the backend is asked if that is due.
Enter(r) ==
    /\ reader[r].pc = "waiting"
    /\ inner = NoReader
    /\ entry' = Current.entry
    /\ pendingSwitch' = NoSlot
    /\ pendingCredentials' = {}
    /\ IF Due(reader[r].ask, Current)
       THEN /\ lastAttempt' = clock
            /\ inner' = r
            /\ Become(r, [reader[r] EXCEPT !.pc = "leasing"])
            /\ asked' = clock
            /\ reported' = FALSE
       ELSE /\ lastAttempt' = Current.attempt
            /\ Become(r, Answer(r, entry'))
            /\ UNCHANGED <<inner, history>>
    /\ UNCHANGED <<clock, router>>

\* lease_any hands out the active slot, or after a failover its standby.
Lease(r) ==
    /\ reader[r].pc = "leasing"
    /\ \E s \in Slots :
         /\ held[s] # 0
         /\ Become(r, [reader[r] EXCEPT !.pc = "fetching", !.slot = s,
                                        !.grant = held[s]])
    /\ UNCHANGED <<clock, entry, lastAttempt, pending, inner, router, history>>

\* The answer is bound to the lease's own slot.
FetchSucceeds(r) ==
    /\ reader[r].pc = "fetching"
    /\ entry' = [slot |-> reader[r].slot, grant |-> reader[r].grant,
                 fetched |-> clock, superseded |-> FALSE]
    /\ inner' = NoReader
    /\ Become(r, Answer(r, entry'))
    /\ UNCHANGED <<clock, lastAttempt, pending, router, history>>

\* No subscription, no network, a timeout, a refusal, an unusable answer.
FetchFails(r) ==
    /\ reader[r].pc \in {"leasing", "fetching"}
    /\ inner' = NoReader
    /\ Become(r, Answer(r, entry))
    /\ UNCHANGED <<clock, entry, lastAttempt, pending, router, history>>

\* The slug is not in the snapshot is_known looked at.
Miss(r) ==
    /\ reader[r].pc = "answered"
    /\ reader[r].ask = "known"
    /\ Discovery
    /\ Become(r, [Idle EXCEPT !.pc = "waiting", !.ask = "forced"])
    /\ UNCHANGED <<clock, entry, lastAttempt, pending, inner, router, history>>

Finish(r) ==
    /\ reader[r].pc = "answered"
    /\ Become(r, Idle)
    /\ UNCHANGED <<clock, entry, lastAttempt, pending, inner, router, history>>

\* Mutant of Drop: the lock outlives the reader.
DropKeepsLock(r) ==
    /\ reader[r].pc \in {"waiting", "leasing", "fetching"}
    /\ Become(r, Idle)
    /\ UNCHANGED <<clock, entry, lastAttempt, pending, inner, router, history>>

\* The reader's connection closes and its future is dropped at an await.
Drop(r) ==
    /\ reader[r].pc \in {"waiting", "leasing", "fetching"}
    /\ inner' = IF inner = r THEN NoReader ELSE inner
    /\ Become(r, Idle)
    /\ UNCHANGED <<clock, entry, lastAttempt, pending, router, history>>

-----------------------------------------------------------------------------
(* The router's reports, each made under the lock of its commit.             *)

\* invalidate_for_switch, under the router's state lock.
Switch(s) ==
    /\ pendingSwitch' = s
    /\ reported' = TRUE
    /\ UNCHANGED <<clock, entry, lastAttempt, pendingCredentials, inner,
                   reader, router, asked>>

\* invalidate_for_credential_change, under the slot's refresh lock, which a
\* lease of that slot has to take too.
Report(s) ==
    /\ pendingCredentials' = pendingCredentials \cup {s}
    /\ reported' = TRUE
    /\ UNCHANGED <<clock, entry, lastAttempt, pendingSwitch, inner, reader,
                   asked>>

SignIn(s) ==
    /\ grants < MaxGrants
    /\ grants' = grants + 1
    /\ held' = [held EXCEPT ![s] = grants']
    /\ Report(s)

SignOut(s) ==
    /\ held' = [held EXCEPT ![s] = 0]
    /\ Report(s)
    /\ UNCHANGED grants

Tick ==
    /\ clock < MaxTime
    /\ clock' = clock + 1
    /\ UNCHANGED <<entry, lastAttempt, pending, inner, reader, router, history>>

-----------------------------------------------------------------------------
Step(r) == Enter(r) \/ Lease(r) \/ FetchSucceeds(r) \/ FetchFails(r)

Next ==
    \/ \E r \in Readers :
         \/ \E ask \in {"snapshot", "known", "status"} : Ask(r, ask)
         \/ Step(r) \/ Miss(r) \/ Finish(r) \/ Drop(r)
    \/ \E s \in Slots : Switch(s) \/ SignIn(s) \/ SignOut(s)
    \/ Tick

Spec == Init /\ [][Next]_vars

\* The lock is a tokio mutex, first come first served, and a fetch ends within
\* REQUEST_TIMEOUT, so a reader that can go on again and again does go on.
FairSpec == Spec /\ \A r \in Readers : SF_vars(Step(r))

-----------------------------------------------------------------------------
(* Properties.                                                               *)

TypeOK ==
    /\ clock \in Nat
    /\ entry \in Entries \cup {NoEntry}
    /\ lastAttempt \in Nat \cup {Never}
    /\ pendingSwitch \in Slots \cup {NoSlot}
    /\ pendingCredentials \subseteq Slots
    /\ inner \in Readers \cup {NoReader}
    /\ reader \in [Readers -> Reader]
    /\ held \in [Slots -> Nat]
    /\ grants \in Nat
    /\ asked \in Nat \cup {Never}
    /\ reported \in BOOLEAN

\* What the next reader is shown was fetched with credentials the slot it names
\* still holds: neither a sign-out nor a new sign-in leaves the list of the old
\* credentials serving, although the change may come while it is being fetched
\* and nobody waits for the fetch.
NoRetiredList ==
    Current.entry # NoEntry => Current.entry.grant = held[Current.entry.slot]

\* Credentials that a fetch or the entry goes by, and that the slot no longer
\* holds, are on record for the next reader.
RetiredIsPending ==
    /\ entry # NoEntry =>
         entry.grant = held[entry.slot] \/ entry.slot \in pendingCredentials
    /\ \A r \in Readers :
         /\ reader[r].pc \in {"leasing", "fetching"} <=> inner = r
         /\ reader[r].pc = "fetching" =>
              /\ reader[r].slot \in Slots
              /\ \/ reader[r].grant = held[reader[r].slot]
                 \/ reader[r].slot \in pendingCredentials

\* The cooldown counts from the last request, and only a report lifts it: for
\* certain when it leaves the catalog without an answer of the selected slot.
CooldownLiftedByReports ==
    /\ pendingSwitch # NoSlot \/ pendingCredentials # {} => reported
    /\ lastAttempt \in {asked, Never}
    /\ lastAttempt = Never /\ asked # Never => reported
    /\ (reported /\ (Current.entry = NoEntry \/ Current.entry.superseded))
         => Current.attempt = Never

\* The inductive invariant.
CatalogInv == TypeOK /\ RetiredIsPending /\ CooldownLiftedByReports

\* The backend is left alone for RetryCooldown after each time it was asked,
\* unless a switch, sign-in or sign-out was reported since; and each of those
\* excuses one early request, not a burst.
RateLimited ==
    [][\A r \in Readers :
         (reader[r].pc = "waiting" /\ reader'[r].pc = "leasing") =>
           asked = Never \/ clock - asked >= RetryCooldown \/ reported]_vars

\* After a report, no snapshot is content with the list of a slot the operator
\* has left, or with the built-in list: it asks at once.
ReportsAskAtOnce ==
    [][\A r \in Readers :
         (/\ reader[r].pc = "waiting" /\ reader'[r].pc = "answered"
          /\ reader[r].ask # "status" /\ Discovery /\ reported)
         => entry' # NoEntry /\ ~entry'.superseded]_vars

ReadEnds(r) == reader[r].pc = "waiting" ~> reader[r].pc \in {"idle", "answered"}

\* Every read is answered, however many wait and whatever the router reports.
ReadsEnd == \A r \in Readers : ReadEnds(r)

\* Seen through what is pending, the catalog keeps its promise: reports take
\* effect the moment they are made.
Asking == inner # NoReader

Promise ==
    INSTANCE CatalogPromise
    WITH answer <- [slot |-> Current.entry.slot, grant |-> Current.entry.grant,
                    superseded |-> Current.entry.superseded],
         asking <- Asking,
         moved <- IF Asking THEN pendingSwitch ELSE NoSlot,
         changed <- IF Asking THEN pendingCredentials ELSE {}

KeepsPromise == Promise!Spec
=============================================================================
