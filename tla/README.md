# Verification of praxis-relay

praxis-relay is a local, OpenAI-compatible endpoint in front of two ChatGPT
subscriptions. It leases credentials of the active subscription, refreshes their
tokens, fails over to the other subscription when one is exhausted or broken,
serves the list of models the backend offers, turns the backend's stream of
events into chat completions, draws images, and is driven by a window, a command
line and a control endpoint. This directory holds TLA+ models of these parts,
the TLC runs that check them on small instances, and proofs that TLAPS checks
for every value of the constants.

Paths below are those of the repository; `CC` stands for
`src/src/core/chat_completions.rs`. `PROJECT.json` maps every definition to the
lines it models and lists the runs, the mutants, the hazards and the theorems.

## 1. Inventory

| Component | Source | State | Operations | Model |
|---|---|---|---|---|
| Account router | `core/account_router.rs` | active slot, parks, state file, one refresh lock per slot, state lock | lease, lease_any, switch_after_quota, switch_to, login, logout, open | `AccountRouter` |
| Token store, sign-in helper | `login/lib.rs`, `login/login_with_chatgpt.py` | `auth.json` per slot, a staged login, the helper's port and process | run the helper, check and install what it staged, read, refresh and rewrite | `BrowserSignIn`; the steps on files among the router's in `AccountRouter` |
| Model catalog | `core/catalog.rs` | one answer with its slot, last attempt, pending reports | snapshot, is_known, status, invalidate_for_switch, invalidate_for_credential_change | `ModelCatalog`, `CatalogPromise` |
| Model list | `core/catalog.rs` | none | parse_catalog, with_extras, model_list_from | `ModelList` |
| Chat turn | `CC`, `core/chat_response.rs` | one spawned task, a bounded channel, a receiver | lease, request, refusal, failover, retry, read, deliver, collect | `ChatTurn`; `StreamText`, `AnswerText` for its text |
| Request shaping, types | `CC`, `core/models.rs`, `lib.rs` | none | validate, choose model and effort, build the payload | `ContentRules`, `ChatRequest`, `Conversation` |
| Usage limits | `core/limits.rs` | a cache per slot with one lock | get, get_for_account, invalidate, normalize_usage, exhausted_window_reset | `LimitsCache`, `UsageDocument` |
| Service and control | `service.rs` | API task, sign-in task and its state, settings, control.json | start, stop, begin_login, cancel_login, logout, configure, status, control | `Service` |
| Client key | `local_key.rs` | one file | load or create | `KeptKey` of `Service` |
| Settings, configuration | `settings.rs`, `core/config.rs` | values | patch, merge with the environment | `Conversation` (what they mean), `Service` (how they are written) |
| Images | `core/images.rs` | none | one request, no retry | `Images` |
| HTTP endpoints | `lib.rs` | none | handlers | with the component each calls |
| Desktop shell | `desktop/` | drafts, timers, a queue of saves | the settings page; window, tray | `SettingsPage` |
| Uncompiled sources | `core/client.rs`, `core/openai_tools.rs`, `core/model_provider_info.rs` | – | – | `core/mod.rs` does not declare them |
| Packaging, acceptance tests | `packaging/`, `tests/` | – | – | not modelled |

How they interact:

- A chat handler in `lib.rs` checks the request, reads the **catalog** up to four
  times, and starts a **chat turn**: a tokio task that leases from the
  **router**, talks to the backend and sends events through a channel of a
  hundred to the response body, or to `collect`, which makes one document of
  them. Dropping the body closes the channel and cancels the turn's
  `DownstreamCancellation`, which the router consults at its commits.
- The **router** keeps its state under one lock and each slot's credentials under
  a lock of their own. It reports a committed switch, an installed sign-in and a
  removed credential file to the **catalog** by a callback, from inside its own
  critical section; the callback may therefore not wait.
- The **catalog** holds its lock across a fetch, which leases from the router.
- **Limits** lease from the router, hold their cache's lock across a fetch, and
  tell the router of an exhausted window. A finished sign-in invalidates them.
- The **service** drives router, catalog and limits from the control endpoint and
  the desktop, and owns the API task and the sign-in task. A command line finds
  it through control.json and holds a connection of the very server it may ask
  to stop.
- The **page** shows what the service answers and sends it what was typed.

What is hard here:

- a failover is a choice under a lock, a lease over the network, and a commit
  under the lock again; several of them run at once, and the slot chosen may be
  parked, signed out or signed in again meanwhile;
- a token refresh reads a file, asks the vendor, and rewrites the file;
- every await may be the last of its task, and the process may stop anywhere;
- three retries with flags of their own nest in two loops of a chat turn, and
  must not repeat anything the client has heard;
- lists, refusals and limits are about the account that was leased, which need
  not be the one the relay uses when they arrive;
- a stop waits for requests that may wait for the stop's lock, a cancellation
  for a task that may just have succeeded, and a control request may be dropped
  between the two halves of either;
- an image costs money, so a request that broke off must not be sent again;
- text passes through conversions that may lose a part of it: chunks into
  lines, messages into a payload, a model's answer into what is shown, keys
  typed into a page into a file.

What makes each component correct:

- *router*: concurrent refusals converge on one move; a park is bounded; a
  restart resumes where the relay was; nothing signed out comes back; a cancelled client
  moves nothing; every operation ends;
- *token store*: a sign-in leaves a file every lease can use, whatever
  refreshes rewrite it;
- *catalog*: it serves no list of retired credentials, under no slot but the one
  that fetched it; it asks the backend neither too often nor, after a report, too
  late; every read ends; a list keeps the vendor's order and drops no model;
- *chat turn*: no request is repeated after output, requests are bounded, an
  answer is complete, a failure is told once and blames whom it should,
  and where the network cuts the stream is immaterial;
- *requests*: nothing beyond the limits is forwarded, a model on offer is not
  refused, no turn of a conversation is lost, and a longer conversation extends
  the payload of the shorter one, which is what the vendor's cache needs;
- *limits*: no answer of an old account, no failover on evidence about another
  account, one request per slot and cache age, a park until the window opens;
- *service*: control.json names the server that runs; at most one sign-in; the
  state shown is that of the task that runs; a cancelled one installs nothing;
  settings on disk and in memory agree; every command is answered;
- *images*: what the client is told agrees with what it may be charged for;
- *page*: what was typed is saved, and saved before the action that relies on it.

## 2. Plan

Done, in the order of importance:

1. `AccountRouter`, `MCAccountRouter`, `AccountRouterProofs`
2. `CatalogPromise` (abstract), `ModelCatalog` (implements it), `MCModelCatalog`,
   `ModelCatalogProofs`
3. `ChatTurn`, `MCChatTurn`, `ChatTurnProofs`
4. `Service`, `MCService`, `ServiceProofs`
5. `LimitsCache`, `LimitsCacheProofs`
6. `Images`, `ContentRules`, `ChatRequest`, `Conversation`, `StreamText`,
   `AnswerText`, `UsageDocument`, `ModelList`, `BrowserSignIn`, `SettingsPage`:
   the handlers and conversions, put side by side in `Handlers` (the conversions
   first, in `Conversions`), whose instance for TLC is `MCHandlers`
7. `MCProgress`: liveness of the components that wait for each other
8. `ChatRequestProofs`, and `HandlersProofs` for the images
9. The turn's blame and its whole answers, the router's live slot
   (`ChatTurnProofs`, `AccountRouterProofs`)
10. `HandlersProofs`: usage documents, sign-in and the page; `ConversionsProofs`:
    conversations, the model list and the stream, for inputs of any length
11. `ConversionsProofs`: the text of an answer, of any length and with any
    citations, its passes over the text as functions whose recursion can be unfolded

To come:

12. An abstract router (one active slot, moved by refusals of it, emptied by
    sign-outs) that `AccountRouter` is shown to implement and that `ChatTurn`
    and `LimitsCache` are composed with. Today each states what it assumes of
    the router (section 3).
13. The claims of the identity token that are only shown to the operator, and
    the pages of the window that only show what they are told, if they come to
    be acted upon.

## 3. The models

### AccountRouter

State: `active` and `until` are `PersistentState` in memory (the slot in use and
`exhausted_until`), `disk` is the state file, `next` the state that a commit has
written to it and not yet moved memory to, `files` the `auth.json` of each
home, `home` the directory each slot was opened with (the primary slot may live
in the legacy root), `refreshLock` and `stateLock` the tokio mutexes, `task` the
callers. `clock` is the wall clock in abstract seconds. `grants` numbers
sign-ins and `signedOut` remembers sign-outs, both for the properties.

One action is what a task does between two awaits:

| Code | Actions |
|---|---|
| `lease_slot` | `Lease` (fresh tokens), `BeginRefresh`/`EndRefresh` (the vendor's answer and the rewrite), `LeaseFails` |
| `lease_any` | `LeaseAny`, `TryStandby`, `ChooseStandby`, `EnterCommit`, `CommitStandby` |
| `switch_after_quota` | `Refuse`, `ChooseSpare` or `Follow`, `EnterCommit`, `CommitSpare` |
| `switch_to` | `Switch`, `CommitSwitch` |
| `login` | `Login`, `Install`, `LoginFails`, `Admit` |
| `logout` | `Logout`, `SignOut` (every home), `SignOutFails` (some are removed), `Settle` |
| `persist(&next)`, its failure, `*state = next` | `Write` in `CommitStandby`, `CommitSpare`, `CommitSwitch`, `Admit` and `Settle`; `WriteFails`; `Move` |
| `open`, end of the process | `Open`, `Crash` |
| `DownstreamCancellation`, a dropped future | `Cancel`, `Drop` |

`Cancel` waits for a commit in progress, as the permit in the code makes it; a
commit that begins later sees the cancellation. A commit is two steps, the write
of the state file and the move of memory: no other task can come between them, as
the state lock is held, but the process may stop there. Credential files are rewritten
and removed under the slot's refresh lock, the state file under the state lock.
A lease fails with unreadable credentials, with an account that changed under a
refresh, or with the network; one action stands for them. Tokens are represented
by the account and the number of the sign-in that granted them, so that a
refresh renews a grant and cannot be confused with a new one.

### ModelCatalog and CatalogPromise

`entry`, `lastAttempt` are `CatalogState`; `pendingSwitch` and
`pendingCredentials` are what the two callbacks record; `inner` is the lock and
`reader` the callers of `snapshot`, `is_known` and `status`. `Enter` applies the
pending reports and answers or begins a fetch, `Lease` gets credentials,
`FetchSucceeds`/`FetchFails` end it, `Miss` is the second, forced snapshot of
`is_known`, `Drop` a reader dropped at an await. `Switch`, `SignIn` and
`SignOut` are the router as the catalog sees it: `held` says which grant a slot
holds, and each change reports itself.

`CatalogPromise` is the same catalog without a lock, a queue of reports or a
clock: a switch relabels the served answer the moment it is committed, a change
of credentials retires it, and what a fetch brings is judged by what happened
since it began. `ModelCatalog` implements it under a refinement mapping that
reads the entry through what is pending (`Current`).

### ChatTurn

`turn` is the task with the flags of its loops (`retried`,
`account_failover_done`, `stream_retry_done`, `account_attempts`), `stream` what
`'read_stream` knows, `sent` everything put in the channel and `taken` how much
of it the client read, `client` the receiver, `naming` the setting
`RELAY_TYPED_TERMINAL`. `refused` and `said` are history for the properties.

`Lease`, `Accept`, `Refuse`, `Decide`, `Move`, `TransportFails` are the request
loop with its branches for quota, credentials, shape and the rest; `Silent`,
`Envelope`, `Message`, `FunctionCall`, `Finish`, `Completed`, `Failed`,
`StreamEnds` are the lines of a stream; `Deliver` is the end of `tx.send`, when
the flags are set; `Take`, `Leave` are the receiver; `Abandon` is the task that
finds the channel closed. `Collected` is the verdict of `chat_response::collect`.

Abstractions, and why they are harmless:

- A text that is only white space is treated as an empty chunk, as the test of
  usefulness treats it. A text is one of `Texts`; the deduplication compares
  them only for equality.
- `"stop"` stands for any finish that is neither a tool call nor a failure.
- A tier is unsaid, null or named; items of the output do not name one, the
  envelope and the completion do.
- Branches the code cannot take are left out: usage without a finish in the
  deduplication (CC 1301-1314; usage rides on `response.completed` alone), and
  the failed events of `parse_sse_event` (CC 1487-1504; the loop breaks first).
- The router is seen through its answers. `Move(s)` assumes that its answer is
  not the refused slot. `RouterInvariant` of `AccountRouterProofs` contains
  `r.slot # r.from` for the standby that `switch_after_quota` leases, and
  `Follow` is taken only when the active slot is another one.
- The backend stream has no timeout in the code, and has none here.

### Service

`host` is the process that holds `runtime.lock`: none, a headless server, a
window, or a command line that runs one command itself. `server`, `running`,
`handle`, `signing`, `shown` and `url` are `Relay.running` with its lock,
`Relay.login_task` with its lock, `Relay.login_state` and `LOGIN_URL`; `file`,
`memory`, `keyFile` and `address` are settings.json, `Relay.settings`,
api-key.txt and control.json. `call` says at which await each caller's command
stands, and `via` which server's connection it holds.

| Code | Actions |
|---|---|
| `Relay::new`, `run_headless`, exit | `Boot`, `LoopEnds`, `Quit`, `OnceEnds`, `ExitEnds`, `Crash` |
| commands of the window, control endpoint, command line | `Ask`; `Dial`, `Connect`, `Drop` |
| `status` | `StatusReads`, `StatusLooks` |
| `start` | `StartBegins`, `StartServes`, `StartFails` |
| `stop` with its three seconds | `StopFindsNone`, `StopBegins`, `Drained`, `StopTimesOut` |
| `begin_login` and its task | `LoginRefused`, `LoginBegins`, `LoginMarks`, `LoginSpawns`; `HelperPrints`, `HelperSucceeds`, `HelperFails`, `TimesOut`, `TaskReports`, `TaskDies` |
| `cancel_login`, `logout` | `CancelBegins`, `CancelWaits`, `CancelResets`, `LogoutRemoves` |
| `update_settings`, the port | `Configure`, `Port` |

A stop that came through the control endpoint is answered at once and becomes a
call of its own (`halt`) that a dropped connection does not stop. An aborted task
ends at its next await and may go on until then: `HelperSucceeds` stays possible
between `CancelBegins` and `TaskDies`, which is why the cancellation waits.

### LimitsCache and UsageDocument

`LimitsCache` has the polls, the cache with its one lock, and a router reduced to
what a poll sees of it: the active slot, the account each slot holds, the slots
whose sign-in has still to invalidate the cache (`due`). A poll leases, waits for
the lock, takes a hit or fetches under it, and then moves the relay, follows it,
or stays. `spent` is the vendor's truth; `epoch` numbers the invalidations of a
slot, for the properties. `UsageDocument` is what such a document says: from the
vendor's fields, any of them missing or of the wrong type, through
`normalize_usage` to the second at which the router may use the slot again; and
from the body or the headers of a refusal to the same.

### ContentRules, ChatRequest, Conversation

`ContentRules` holds the operators of `core/models.rs` that decide whether
messages, images and tools may be forwarded; `ChatRequest` and `Images` use them.
`ChatRequest` is the handler, one action per read of the catalog, with a catalog
that may change between any two of them. `Conversation` is the translation of
messages, settings, environment and instructions file to the payload, with the
second, conservative payload after a rejection; the client goes on with what it
was sent, and the operator edits settings and file meanwhile.

### Images

One request of each client: `Validate`, lease, send, the head of the answer, its
chunks, the reply. `charged` counts what the vendor drew, which it may do before
a connection breaks. The router moves meanwhile.

### StreamText, AnswerText, ModelList

Conversions, each a small state machine that grows its input step by step and
compares the output with a reference definition over the whole input: `StreamText`
decodes bytes cut into chunks anywhere and compares with the text decoded at
once; `AnswerText` cleans a text of markers, citations and tags and compares with
the words that stood outside of them; `ModelList` parses a vendor's document,
adds the operator's models and compares order and membership with it.

### BrowserSignIn

The helper process with its port, its callback and its two answers to the
browser; the probe of the interpreters; the check of what the helper staged; the
file as it is written, read by leases and rewritten by refreshes; the ages of the
tokens. How these steps interleave with failovers and sign-outs is the router's
part; here it is what the file holds.

### SettingsPage

`rendered` is the status the page goes by, `draft` and `timers` its drafts,
`queue` the saves that follow each other, `poll` and `click` the requests that
are under way. `Type`, the timer, leaving a field, a save's answer, a poll's
answer and a click with its flush are the actions. What JavaScript runs between
two awaits is one step.

### Handlers and MCProgress

The modules of a handler, of a conversion, of the helper and of the page share no
variable. `Conversions` instantiates those whose input grows, `Handlers` puts all of them side by side: a behaviour is one of the part it
starts in, and every property is guarded by its part. A product of independent
parts has no more behaviours than these, and checking them apart costs the sum
of their states. `MCHandlers` gives it the documents, requests and texts of the
runs; the proofs are about `Handlers`, for any such. `MCProgress` does the same for liveness, with the fairness each
module states (section 5).

## 4. Runs

Passing runs, with what bounds them:

| Run | Instance | What it shows |
|---|---|---|
| `Failover` | two tasks, one account, two sign-ins, clock 0..3, every kind of reset | refusals and broken leases of several callers converge: only the active slot is parked and only by the step that leaves it; while nobody signs out, a signed-in relay can lease at once (`SomewhereToGo`); a cancelled client commits nothing |
| `Credentials` | two tasks, two accounts, three sign-ins, crashes and drops, no clock | no credential file comes back after a sign-out, no refresh writes over a newer grant, a restart resumes where the relay was or where the write of a commit had got |
| `Catalog` | two readers, two slots, two sign-ins, clock 0..3, TTL 2, cooldown 1 | no retired list, rate limit, reports heeded, refinement of `CatalogPromise` |
| `Turn` | one turn, three lines per stream, channel of two, two texts, three namings | retries bounded, nothing repeated, failures told once and truly, answers whole |
| `Service` | two callers and the process itself, eight commands, four calls, two servers, two sign-ins | control.json names the server that runs, one sign-in at a time, pending while there is one, a cancelled one installs nothing |
| `Progress` | four parts, two callers each | router operations, reads of the catalog, commands, sign-ins and polls end |
| `Handlers` | ten parts, see below | one property or two per handler, conversion and the page |

Why the bounds are enough. Every conflict in the router is between an operation
and one other that changes what it read; two tasks that start operations again
and again reach it, and slots are two in the code. Resets are one that names
nothing usable, one below the minimum, one above the maximum and one by the hour;
the cooldown of 3 with limits 2 and 4 puts each on its side of a clamp.
`Failover` needs the clock to reach the end of a park (3), and one account
suffices, for nothing there compares accounts; `Credentials` needs no clock, for
nothing there depends on time except an expired token, which is a choice of the
lease. The sign-ins must reach a second one of a slot, to tell an old grant from
a new one. In the catalog, clock 3 exceeds both the TTL and the cooldown after a
first fetch. In a turn, a message, a repeated message, a call and a completion
need three lines; the channel is full with two events, and the backend is free to
be asked four times by the code itself. In the service every race is between a
call, a second one that it meets at an await, and what either left running; four
calls are a boot, a command to race with, and two that race, and the second
server and the second sign-in are those that a late step of the first might harm.

In `Handlers`: the limits have two polls, two slots, two accounts, a cache age of
1 and a clock that passes it, and two changes: a sign-in and a switch, or a window
that runs out. Images have two clients and a router that moves once; bodies,
requests and documents are those of `MCHandlers`: a valid one, one for each
way to be refused, and the boundary on both sides. The catalog may change three
times, once between any two reads. A conversation has two messages and two edits.
Streams have five bytes in chunks of up to three, which holds a character of each
length up to four, one that breaks off after each of its bytes, three bytes held back,
and a line end across a cut. A model's text has two
words and as many pieces as put a marker, its end, a citation and white space
around them; a marker reaches over two characters, so that one may be too long.
The sign-in's clock passes the skew, the age of a refresh and the ends of the tokens
that a refresh brought. The page has one
field, one click and one poll, and three edits: the fields do not interact but in
the order of a flush.

The runs that expect a violation check one sentence each of the repository that
the code does not keep:

| Run | The sentence | What happens |
|---|---|---|
| `LastLiveSlot` | "the last live slot is never parked" (doc of `lease_any`, and the test of that name) | the standby is signed out between its lease and the commit, which parks the one slot still signed in |
| `SkipParked` | an exhausted account is "skipped as a failover target until the reset time" (`src/README.md:179`) | the standby is parked by another failover between choice and commit |
| `LoginAsksForBoth` | with a 401 one gets to the terminal only after the standby refused too (comment at CC 1105) | the failover itself fails, and the terminal says that both subscriptions rejected the credentials although one was asked |
| `OperatorOutranks` | "An operator's own text outranks both built-ins" (comment at CC 822) | in the minimal mode, the retry of a rejected payload (CC 1059) puts the built-in instructions in the place of the operator's |
| `ExtrasAreAdvertised` | extra models are "always accepted and advertised" (doc at `catalog.rs:200`) | an extra model that the backend lists as hidden is accepted and not advertised |

Deadlock is checked in `Failover`, `Credentials`, `Catalog` and the two router
runs that expect a violation. In the others the system may rightly stop: a turn
whose client has gone is over, commands and edits are bounded, a conversion has
an end. For the service and the limits `Progress` takes the place of the deadlock
check. Symmetry is used
for tasks, accounts, readers, slots, callers, polls and texts where a run has no
liveness property.

## 5. Fairness

- `AccountRouter!FairSpec`: strong fairness of each task's own steps. A lock is a
  tokio mutex, which serves its waiters in order, so a task that waits is not
  passed over for ever; a token refresh has a timeout (`login/lib.rs:101`) and a
  sign-in one of five minutes (`service.rs`), so a network step ends with an
  answer or a failure. Nothing is assumed of callers, the clock or crashes.
- `ModelCatalog!FairSpec`: strong fairness of each reader's steps, for the same
  reason; the fetch has a timeout (`catalog.rs:581`).
- `Service!FairSpec`: weak fairness of each call's steps, of the end of each
  sign-in (`Settles`: the five minutes, the report, an aborted task's death) and
  of a process that has nothing left to do. `StopTimesOut` is among a call's
  steps: without it a stop and a status deadlock, as its mutant shows. Nobody need
  come back from the browser.
- `LimitsCache!FairSpec`: strong fairness of the two steps that wait for the
  cache's lock, which is served in order, and weak fairness of the fetch's
  timeout and of the end of a poll.

`Progress` checks these of one actor of each part, with all actors fair. The
actors are alike, so what holds of one holds of the others.

## 6. Proofs

`AccountRouterProofs`, `ModelCatalogProofs`, `ChatTurnProofs`, `ServiceProofs`,
`LimitsCacheProofs`, `ChatRequestProofs`, `ConversionsProofs` and `HandlersProofs`
hold for every set of tasks, accounts, readers, callers, polls, clients, requests,
catalogs, messages, grants, fields, slots (but the router's two) and texts, every
capacity and bound, under the assumptions named `...Assumption` in the modules,
which say no more than that constants have their types, that "none" values are not
members, that the capacity is not zero and that the minimum of a park is positive
and not above its maximum. Two say something of the vendor: no catalog lists the
value that stands for the absence of an effort, and a refresh that answers does
not answer with blank tokens (`SignInAssumption`; the code writes what it is given).
One says of the code's own fallback list that it names each model once
(`ListAssumption`). `AnswerAssumption` says how the words of an answer are told apart:
they are distinct, none is a sign, and a piece of the text has at most one of them,
so that a word stands for one place of what the model said.
The theorems of `ChatRequestProofs` state their assumptions as hypotheses, for that
module is instantiated; `HandlersProofs` discharges them
and states each property of a part for `HandlersSpec`, the specification the run
`Handlers` checks.
The type invariants and the inductive invariants are proved and not among the
runs' properties: they were found with TLC's help, and a proof leaves a run
nothing to add.

*Router.* `RouterInv` is inductive. The property wanted, that a sign-out is
final, is not: it needs that a refresh in flight owns the slot's lock and that
what it is about to write is a renewal of what still lies there, that a sign-out
waiting for the state lock has left every home empty, and that a task which is
committing holds the state lock, still answers the state it checked and has a
client, and that what it has written parks nothing but the slot it leaves. These are the conjuncts of `Sound`, one per await. `SomewhereToGo` is lost to sign-outs and is proved of a relay whose operations are
without `logout`. `StaysSignedIn` says why it holds there: if anything was ever
parked then the relay moved, and the slot it moved to is signed in; a slot stays
the home it would be opened with; and so it is for each failover about to commit.
`DiskLeads` says that memory never
runs ahead of the disk: the file holds what the relay routes by, or what the commit
that holds the state lock moves to next; from it follows what a restart resumes with
(`StateIsDurable`). From all of them follow `SignOutIsFinal`, `LeasesHaveSomewhereToGo` and, with one lemma on who changes files and
one on who changes routing, the action properties `RefreshesNeverRevive`,
`ParkingLeaves`, `ParkingIsBounded` and `CancellationWins`.

*Catalog.* `CatalogInv` says that credentials which the entry or a fetch goes by
and the slot no longer holds are on record for the next reader, and that the
cooldown is lifted by reports alone. `OrderIsImmaterial` proves what a comment
in `apply_pending` claims: switch first or credentials first gives the same
state. `ImplementsPromise` is the refinement, one lemma per kind of step.

*Turn.* `TurnInv` adds to the wanted properties what relates them across awaits:
`Counted` (the requests made are paid for by the flags), `Unheard`
(`meaningful_event_sent` tells the truth between the awaits of a `tx.send`),
`Verdict` (what is about to be sent, and what it says of the stream) and `Leased`.
From it follow `RequestsBounded`, `FailureToldOnce`, `DocumentIsWhole` and
`NeverReplayed`. Two properties relate an event to all that came before it.
`BlameTold`: the code of a terminal tells what each account answered. The invariant
`Remembered` says that `account_attempts` holds every refusal that blames an
account, and that the second is of another slot than the first; `Blamed`, that no
code is given before the last event, and that one is honest, also while it waits
for room in the channel. `AnswerToldWhole`: a completed answer holds all that the
backend said. `Whole` says that of everything handed to the channel, after every
line and with the deduplication of texts, and counts the calls.

*Service.* `ServiceInv` says what each lock protects at every await: who holds
`Relay.running` stands at a bind or a drain and there is no server meanwhile, and
what a drain will unlist is what control.json names (`RunningIsHeld`); who holds
`Relay.login_task` stands at the beginning of a sign-in or waits for the end of
one, and a sign-in nobody aborted is the one in the handle (`SigningIsHeld`); a
process that is down holds nothing. `OneSignIn` and `CancelledNeverSignsIn` are
not inductive without it. `QuietStep` does the work for all calls that hold no
lock, so that each remaining action has one lemma about what it is for. From it
follow `AddressOfTheServer`, `OneSignInAtATime`, `PendingSignIns` and
`CancelledSignIns`.

*Limits.* `LimitsInv` says what the lock protects while the vendor is asked: the
poll that fetches is the one that holds it, no document of its account was fresh
when it began, and its slot was not invalidated since, for an invalidation waits
for the lock; no document kept is older than the last invalidation of its slot.
From it follow `CurrentAnswers`, `OneFetchPerBurst` and `StickyInvalidation`.

*Images and requests.* `ImageIsSound` ties what the vendor drew for a request to the place
the request stands at; the lost answer (`BreaksOff`) is the case it is for.
`SearchInv` says that what was on offer all the time is in the catalog at each
read, so that no order of reads and changes hides it. `EffortsAreSupported` rests
on a lemma about `clamp_effort` for every list of efforts, known ones and others.
`BoundsAreKept` is about every content of a request: the checks go through messages
and tools one by one, and the lemmas say what a request that passes them all has.

*Usage and sign-in.* `ParksAreJust` goes through the fields of a document, any of
them missing, to the second of the park. For the sign-in, the invariant says what
the file holds after each kind of write, and from it follows `SignInsAreUsable`.

*Conversations.* `FlattenSeq` is a recursive function, and what it gives for a
sequence that grows by one is `FlattenAppends`. From this `FlatConcat`, `FlatOfFlat`
and `FlatHas` follow, for any function from elements to sequences, and so does what
the payload of a longer conversation has to do with that of a shorter one.
`TalkInv`: what was sent last is a prefix of what would be sent now, under the key
of the first message, also after a reshaped retry. From it follow
`PrefixesAreKept` and `HistoriesAreWhole`.

*Page.* `PageInv` says that a draft is what was typed last and what the field
shows, that a field without a draft is saved and has nothing in the queue unless
it is `astray`, that the answer in hand is about the head of the queue, and, for
each click, that what it wants is either saved, with nothing else on its way, or
among the saves it still awaits with nothing else after it (`Reached`). The last
is what `ActionsSeeEdits` needs, and a save that arrives, is refused, or is queued
behind keeps it. A flush is a recursive function over the fields; `CommitsKeep`
is the induction over them. From it follow `TypingIsKept` and `ActionsFindEdits`.

*Model list.* `ParseCatalog` puts a model at the place that says how many models
do not come after it. That these places are one for each number up to the count of
the models rests on the order being total (`EarlierOrders`) and on the library's
theorem that an injection between finite sets of the same size is a surjection.
The extra models are joined one by one: `ExtrasFollow` is the induction that keeps
what was parsed, in its place and without a second of any name. From it follows
`ListsAreInOrder`, for documents with any priorities and for every list of extras.

*Stream.* `decode_stream_chunk` is a loop, in the model a function of the round.
`RoundsEnd` says that it has ended after as many rounds as there are bytes,
`FollowStays` that bytes behind a character do not change what it is taken for,
`RoundBehind` that a character in front of the text does not change a round, and
`DecodeConcat`, from these, that decoding two chunks with the carry
between them is decoding them at once: only a prefix of a character is held, and
such a prefix is short (`HeldIsShort`). `SplitConcat` says the same of the line
buffer. From them follows `CutsAreImmaterial`.

*Answer text.* Five passes over the text follow each other, and the lemmas about
them compose: `Whole(K, t, s, n)` says that `t` has of `K` exactly what the first `n`
characters of `s` have, in the same order, `Part` only that it has no more, and
`WholeThrough` that this goes through two passes. Each pass is a walk over places
(`Walks`, `WalkKeeps`: what each step keeps, the walk keeps). A citation is replaced
by a link that has its words (`LinkedKeeps`, `ReplacedKeeps`), whichever of them
overlap (`CitedKeeps`). `StrippedKeeps` says that a word which is
not shown stood between two marks of the text (`Cut`), no farther apart than
`Reach`. Tags, doubled spaces and parentheses are no words (`UntaggedKeeps`, `TidiedKeeps`,
`EncodedKeeps`); of the encoding `Links` is wanted too, which needs that outside an
address all links are closed (`Settled`). `CleanKeeps` puts them together. Of the states only
`InTurn` is needed: the words are said in their order. From it follows
`AnswersAreReadable`.

*Induction.* The library states induction with an operator as a parameter, which
the provers cannot instantiate. `ConversionsProofs` states it with sets instead: a set
of numbers with 0 and all successors is `Nat` (`EveryNat`), a set of sequences with
the empty one and all that are longer by one is all of `Seq(T)` (`EverySeq`), and
`Recursion` gives the values of a function that is defined by its value before.

Only model-checked: the liveness properties of `Progress`, which need fairness
and ENABLED; and the five sentences that do not hold.

## 7. Limits of the models, and what is not modelled

- The router parks a slot by its name: a refusal of credentials that were
  replaced meanwhile parks the new sign-in. The model has this behaviour and no
  property forbids it, as the code promises no more. The same holds for a
  sign-out whose state write fails after the files are gone, for a poll that has
  moved the relay and then cannot fetch the standby's usage (it answers with an
  error, the move stays), and for a stop that the control endpoint carries out
  fifty milliseconds later on whatever server then runs.
- `SomewhereToGo` holds only while nobody signs out (see `LastLiveSlot`).
- Neither the head nor the lines of a chat response have a timeout, so nothing is
  promised to a client that stays with a backend that has fallen silent. That a
  turn ends once its client has gone is not among the properties: every await of
  the task names `tx.closed()`, which `Abandon` translates, and a property would
  say no more than that.
- Nor is it a property that a lease hands out no token past its end: the code's
  condition for a refresh says so, and `Stale` is that condition. Tokens from a
  sign-in and from a refresh both name an end, which the model reaches.
- A client that goes, or a connection that breaks, while the vendor's answer to a
  token refresh is on its way loses the rotated token: the vendor then may not take
  the old one again. What the vendor does with old refresh tokens is not in the
  code; a lost answer is a failed lease in `AccountRouter`. Between the answer and
  the write no await stands, and they are one step.
- `PendingIsTrue` holds until a control request is dropped halfway: one dropped
  between `LoginMarks` and `LoginSpawns` leaves a pending sign-in without a task.
- `ChatTurn` and `LimitsCache` see the router through its answers. `Move(s)` of the
  turn assumes that the answer is not the refused slot. `RouterInvariant` contains
  `r.slot # r.from` for the standby that `switch_after_quota` leases, and
  `Follow` is taken only when the active slot is another one.
- `HistoryIsWhole` counts the calls of the assistant; calls in a message of another
  role are dropped by the code, which reads them only there.
- `BrowserSignIn`: the vendor's answers to a refresh are assumed not to be blank
  texts. A callback with an error does not end the helper, and credentials it has
  written are lost if the browser never asks for the page of success; the model
  has both and no property forbids them.
- `ModelList`: the priority an extra model gets is a sum in 64 bits that wraps around
  in a release build, and a debug build would panic at it, which the model does not
  do. It decides nothing: the extra models are joined to a list that was sorted before.
- `AnswerText`: the tidying of spaces collapses those the model meant, and may join
  a link that was not closed to what follows; `AnswerIsReadable` is about words.
- `SettingsPage`: `EditsAreKept` excepts a field that is `astray`: its commit was
  dropped because a late answer to a poll had set the rendered status back, or an
  older save of the same text took its draft. These edits are lost by the page. What
  is left is what `!settingsPending` is for: a text typed back to what is still shown
  is saved behind the save that would replace it. `busy` is looked at before the flush is awaited, so that two
  clicks in one flush may both act. Swatches, the limits panel and the snippets for
  other clients are left out.
- Time is abstract: a second of the clock may pass at any step up to the bound. The
  wall clock does not go backwards, and files are replaced atomically (by rename).
- Wording, layout and logging are left out; the class of a terminal is kept. Claims
  that are only shown to the operator, appearance and window settings, `/health`
  and the routing table are left out, for nothing acts upon them.
- Window, tray and the pages that only show what they are told are left out;
  the sources `core/mod.rs` does not declare are not part of the program;
  packaging and acceptance scripts drive the built program from outside.
