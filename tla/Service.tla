------------------------------ MODULE Service ------------------------------
(***************************************************************************)
(* The service that the window, the control endpoint and the command line  *)
(* share (src/service.rs): one process per data directory, its API server, *)
(* its one sign-in, its settings file, and the file control.json by which  *)
(* the command line finds the running server.                              *)
(*                                                                         *)
(* A call is a command on its way: from the window, from a control request *)
(* that holds a connection of the server it came through, or from the      *)
(* process itself.  Its `at` is the await it stands at; what lies between  *)
(* two awaits is one step.  A control request can be dropped at any of     *)
(* them, and the process can crash.                                        *)
(***************************************************************************)
EXTENDS Naturals, FiniteSets

CONSTANTS
    Callers,    \* windows and command lines
    Main,       \* the process's own thread: startup, serve loop, exit
    NoCaller,   \* the holder of a free lock
    Ops,        \* the commands the callers give
    Values,     \* what settings.json may say
    MaxServers, \* bound on the servers started
    Tasks,      \* the sign-ins, numbered from 1: a bound on their number
    MaxCalls    \* bound on the commands given

Actors == Callers \cup {Main}

ASSUME ActorsAssumption == Main \notin Callers /\ NoCaller \notin Actors
ASSUME TasksAssumption == Tasks \subseteq Nat \ {0}
ASSUME BoundsAssumption == MaxServers \in Nat /\ MaxCalls \in Nat

VARIABLES
    host,     \* what runs in the data directory, under runtime.lock
    calls,    \* commands given so far
    call,     \* what each actor is doing
    file,     \* settings.json
    memory,   \* Relay.settings
    keyFile,  \* api-key.txt: the command that made it, or 0
    address,  \* control.json: the server it names, or 0
    server,   \* Relay.running: the server, or 0
    servers,  \* servers started so far
    born,     \* servers started before this process
    running,  \* who holds Relay.running
    signing,  \* who holds Relay.login_task
    handle,   \* Relay.login_task: the sign-in, or 0
    phase,    \* what each sign-in is doing
    aborted,  \* the sign-ins that were told to stop
    shown,    \* Relay.login_state
    url,      \* LOGIN_URL: the sign-in whose browser address it is, or 0
    account,  \* the sign-in whose credentials are installed, or 0
    retired,  \* history: the sign-ins whose cancellation was answered
    dropped   \* history: a control request was dropped since the process began

api == <<address, server, servers, running>>
signIn == <<signing, handle, phase, aborted, shown, url, account, retired>>
settings == <<file, memory>>
process == <<host, born, keyFile, dropped>>
vars == <<host, calls, call, file, memory, keyFile, address, server,
          servers, born, running, signing, handle, phase, aborted,
          shown, url, account, retired, dropped>>

BadPatch == "bad" \* a patch that does not validate

AllOps == {"start", "stop", "login", "cancel_login", "logout", "configure",
           "port", "status"}

ASSUME OpsAssumption == Ops \subseteq AllOps

Idle == [op |-> "none", at |-> "idle", via |-> 0, patch |-> BadPatch,
         takes |-> 0]

\* `via` is the server whose connection the call holds, or 0.
\* A caller that finds no server behind control.json is `lost`.
\* `takes` is the server or the sign-in that the call took to end it.
Call == [op : AllOps \cup {"none", "halt", "exit"},
         at : {"idle", "dialled", "begin", "bind", "later", "drain", "mark",
               "spawn", "await", "reset", "remove", "leave", "left", "look",
               "lost"},
         via : Nat, patch : Values \cup {BadPatch}, takes : Nat]

\* helping: the browser helper runs; settling: limits and events are updated.
Phases == {"none", "helping", "settling", "failing", "over"}
Unfinished(t) == phase[t] \in {"helping", "settling", "failing"}

Up == host # "down"
At(c, place) == call[c].at = place
Goes(c, place) == call' = [call EXCEPT ![c].at = place]
Free(c) == call[c].at \in {"idle", "lost"}
Answer(c) == call' = [call EXCEPT ![c] = Idle]

-----------------------------------------------------------------------------
(* The process.                                                              *)

Init ==
    /\ host = "down" /\ calls = 0 /\ call = [c \in Actors |-> Idle]
    /\ file \in Values /\ memory = file
    /\ keyFile = 0
    /\ address = 0 /\ server = 0 /\ servers = 0 /\ born = 0
    /\ running = NoCaller /\ signing = NoCaller
    /\ handle = 0 /\ phase = [t \in Tasks |-> "none"] /\ aborted = {}
    /\ shown = "idle" /\ url = 0 /\ account = 0
    /\ retired = {} /\ dropped = FALSE

\* local_key::load: the host's own key leaves the file alone; a key is made
\* only where there is none.
KeptKey(explicit) == IF explicit \/ keyFile # 0 THEN keyFile ELSE calls + 1

Patches(op) == IF op \in {"configure", "port"} THEN Values \cup {BadPatch}
               ELSE {BadPatch}

Asked(op, at, via, patch) ==
    [Idle EXCEPT !.op = op, !.at = at, !.via = via, !.patch = patch]

\* Relay::new takes runtime.lock first, then reads the key and the settings.
\* A window need not start the API; a command line runs one command.
Boot(mode, op, explicit) ==
    /\ ~Up /\ calls < MaxCalls
    /\ \/ mode = "serve" /\ op = "start"
       \/ mode = "window" /\ op \in {"start", "none"}
       \/ mode = "once" /\ op \in Ops \ {"start", "port"} /\ address = 0
    /\ host' = mode
    /\ born' = servers
    /\ calls' = calls + 1
    /\ keyFile' = KeptKey(explicit)
    /\ memory' = file
    /\ dropped' = FALSE
    /\ \E patch \in Patches(op) :
         LET at == IF op = "none" THEN "idle" ELSE "begin"
         IN call' = [call EXCEPT ![Main] = Asked(op, at, 0, patch)]
    /\ UNCHANGED <<file, api, signIn>>

\* Everything a process holds ends with it; a command line that has read
\* control.json does not know yet.
Ends ==
    /\ host' = "down"
    /\ call' = [c \in Actors |-> IF call[c].at \in {"dialled", "lost"}
                                 THEN call[c] ELSE Idle]
    /\ server' = 0 /\ running' = NoCaller /\ signing' = NoCaller
    /\ handle' = 0 /\ shown' = "idle" /\ url' = 0
    /\ phase' = [t \in Tasks |-> IF phase[t] = "none" THEN "none" ELSE "over"]
    /\ UNCHANGED <<calls, file, memory, keyFile, address, servers,
                   born, aborted, account, retired, dropped>>

Crash == Up /\ Ends

\* A one-shot login waits until its sign-in is shown as over.
OnceEnds ==
    /\ host = "once" /\ At(Main, "idle") /\ shown # "pending"
    /\ Ends

Leaves ==
    /\ At(Main, "idle")
    /\ call' = [call EXCEPT ![Main] = Asked("exit", "begin", 0, BadPatch)]
    /\ UNCHANGED <<calls, process, settings, api, signIn>>

\* A headless process leaves its loop when it finds no server ...
LoopEnds ==
    /\ host = "serve" /\ running = NoCaller /\ server = 0
    /\ Leaves

\* ... or on a signal, a window on the operator's word; a window may also ask
\* to quit while the API runs.
Quit ==
    /\ host \in {"serve", "window"}
    /\ Leaves

-----------------------------------------------------------------------------
(* Commands.                                                                 *)

\* A command from the window.
Ask(c, op) ==
    /\ host = "window" /\ calls < MaxCalls
    /\ Free(c)
    /\ \E patch \in Patches(op) :
         call' = [call EXCEPT ![c] = Asked(op, "begin", 0, patch)]
    /\ calls' = calls + 1
    /\ UNCHANGED <<process, settings, api, signIn>>

\* A command line reads control.json ...
Dial(c, op) ==
    /\ address # 0 /\ calls < MaxCalls
    /\ Free(c) /\ op \notin {"start", "port"}
    /\ \E patch \in Patches(op) :
         call' = [call EXCEPT ![c] = Asked(op, "dialled", address, patch)]
    /\ calls' = calls + 1
    /\ UNCHANGED <<process, settings, api, signIn>>

\* ... and reaches the server of that token, if it is still there.  A stop is
\* answered at once and takes place by itself, fifty milliseconds later.
Connect(c) ==
    /\ At(c, "dialled")
    /\ IF call[c].via = server
       THEN IF call[c].op = "stop"
            THEN call' = [call EXCEPT ![c].op = "halt", ![c].at = "later",
                                      ![c].via = 0]
            ELSE Goes(c, "begin")
       ELSE Goes(c, "lost")
    /\ UNCHANGED <<calls, process, settings, api, signIn>>

\* A control request whose client has gone is dropped where it stands, and
\* gives up the locks it holds.  control_handler spawned the stop: it goes on.
Drop(c) ==
    /\ Up /\ call[c].via # 0 /\ call[c].at \notin {"dialled", "lost"}
    /\ Answer(c)
    /\ running' = IF running = c THEN NoCaller ELSE running
    /\ signing' = IF signing = c THEN NoCaller ELSE signing
    /\ dropped' = TRUE
    /\ UNCHANGED <<calls, host, born, keyFile, settings, address, server,
                   servers, handle, phase, aborted, shown, url, account,
                   retired>>

\* Most commands answer with a status, which waits for Relay.running.
StatusReads(c) ==
    /\ At(c, "begin") /\ call[c].op = "status"
    /\ Goes(c, "look")
    /\ UNCHANGED <<calls, process, settings, api, signIn>>

StatusLooks(c) ==
    /\ At(c, "look") /\ running = NoCaller
    /\ Answer(c)
    /\ UNCHANGED <<calls, process, settings, api, signIn>>

-----------------------------------------------------------------------------
(* The API server.                                                           *)

StartBegins(c) ==
    /\ At(c, "begin") /\ call[c].op = "start" /\ running = NoCaller
    /\ IF server # 0
       THEN Goes(c, "look") /\ UNCHANGED running
       ELSE Goes(c, "bind") /\ running' = c
    /\ UNCHANGED <<calls, process, settings, address, server, servers, signIn>>

\* The port is bound and control.json written before the server is spawned.
StartServes(c) ==
    /\ At(c, "bind") /\ servers < MaxServers
    /\ servers' = servers + 1
    /\ server' = servers'
    /\ address' = servers'
    /\ running' = NoCaller
    /\ Goes(c, "look")
    /\ UNCHANGED <<calls, process, settings, signIn>>

\* The port is taken, or control.json cannot be written.  A headless process
\* ends with that error; a window shows it.
StartFails(c) ==
    /\ At(c, "bind")
    /\ running' = NoCaller
    /\ IF c = Main /\ host = "serve" THEN Goes(c, "left") ELSE Answer(c)
    /\ UNCHANGED <<calls, process, settings, address, server, servers, signIn>>

\* What follows a stop: the window's is answered with a status, the control
\* endpoint's was answered long ago, and the exit ends the process.
Stopped(c) ==
    CASE call[c].op = "halt" -> Answer(c)
      [] call[c].op = "exit" -> Goes(c, "left")
      [] call[c].op = "stop" -> Goes(c, "look")

WantsStop(c) ==
    \/ At(c, "begin") /\ call[c].op = "stop"
    \/ At(c, "later") /\ call[c].op = "halt"
    \/ At(c, "leave") /\ call[c].op = "exit"

StopFindsNone(c) ==
    /\ WantsStop(c) /\ running = NoCaller /\ server = 0
    /\ Stopped(c)
    /\ UNCHANGED <<calls, process, settings, api, signIn>>

\* Mutant of StopBegins: the lock is given up before the server has ended.
StopLetsGo(c) ==
    /\ WantsStop(c) /\ running = NoCaller /\ server # 0
    /\ server' = 0
    /\ call' = [call EXCEPT ![c].at = "drain", ![c].takes = server]
    /\ UNCHANGED <<calls, process, settings, address, servers, running, signIn>>

\* Relay.running is taken out, and its server told to finish its requests.
StopBegins(c) ==
    /\ WantsStop(c) /\ running = NoCaller /\ server # 0
    /\ running' = c
    /\ server' = 0
    /\ call' = [call EXCEPT ![c].at = "drain", ![c].takes = server]
    /\ UNCHANGED <<calls, process, settings, address, servers, signIn>>

\* control.json is removed only if it still names the server that was stopped.
Unlisted(gone) == IF address = gone THEN 0 ELSE address

StopEnds(c) ==
    /\ At(c, "drain")
    /\ address' = Unlisted(call[c].takes)
    /\ running' = NoCaller
    /\ Stopped(c)
    /\ UNCHANGED <<calls, process, settings, server, servers, signIn>>

\* Every request of the server has been answered ...
Drained(c) ==
    /\ \A d \in Callers : call[d].via = call[c].takes =>
                              call[d].at \in {"dialled", "lost"}
    /\ StopEnds(c)

\* Mutant of StopTimesOut: a stop waits for all requests, however long.
StopIsPatient(c) == FALSE

\* ... or three seconds have passed: a request that itself waits for
\* Relay.running would never be.
StopTimesOut(c) == StopEnds(c)

ExitEnds ==
    /\ At(Main, "left")
    /\ Ends

-----------------------------------------------------------------------------
(* The sign-in.                                                              *)

LoginRefused(c) ==
    /\ At(c, "begin") /\ call[c].op = "login" /\ signing = NoCaller
    /\ handle # 0 /\ Unfinished(handle)
    /\ Answer(c)
    /\ UNCHANGED <<calls, process, settings, api, signIn>>

\* Mutant of LoginBegins: the lock is given up after the look at the handle.
LoginLooks(c) ==
    /\ At(c, "begin") /\ call[c].op = "login" /\ signing = NoCaller
    /\ handle # 0 => ~Unfinished(handle)
    /\ \E t \in Tasks : phase[t] = "none"
    /\ url' = 0
    /\ Goes(c, "mark")
    /\ UNCHANGED <<calls, process, settings, api, signing, handle, phase,
                   aborted, shown, account, retired>>

LoginBegins(c) ==
    /\ At(c, "begin") /\ call[c].op = "login" /\ signing = NoCaller
    /\ handle # 0 => ~Unfinished(handle)
    /\ \E t \in Tasks : phase[t] = "none"
    /\ signing' = c
    /\ url' = 0
    /\ Goes(c, "mark")
    /\ UNCHANGED <<calls, process, settings, api, handle, phase, aborted,
                   shown, account, retired>>

LoginMarks(c) ==
    /\ At(c, "mark")
    /\ shown' = "pending"
    /\ Goes(c, "spawn")
    /\ UNCHANGED <<calls, process, settings, api, signing, handle, phase,
                   aborted, url, account, retired>>

LoginSpawns(c) ==
    /\ At(c, "spawn")
    /\ \E t \in Tasks :
         /\ phase[t] = "none"
         /\ \A u \in Tasks : u < t => phase[u] # "none"
         /\ handle' = t
         /\ phase' = [phase EXCEPT ![t] = "helping"]
    /\ signing' = NoCaller
    /\ Goes(c, "look")
    /\ UNCHANGED <<calls, process, settings, api, aborted, shown, url, account,
                   retired>>

Task == <<calls, call, process, settings, api, signing, handle, aborted,
          retired>>

\* The helper prints the address the operator opens in a browser.
HelperPrints(t) ==
    /\ phase[t] = "helping"
    /\ url' = t
    /\ UNCHANGED <<Task, phase, shown, account>>

\* The browser came back, and the staged credentials are installed.
HelperSucceeds(t) ==
    /\ phase[t] = "helping"
    /\ account' = t
    /\ phase' = [phase EXCEPT ![t] = "settling"]
    /\ UNCHANGED <<Task, shown, url>>

\* The helper failed, or the operator did not finish within five minutes.
HelperFails(t) ==
    /\ phase[t] = "helping"
    /\ phase' = [phase EXCEPT ![t] = "failing"]
    /\ UNCHANGED <<Task, shown, url, account>>

TimesOut(t) == HelperFails(t)

TaskReports(t) ==
    /\ phase[t] \in {"settling", "failing"}
    /\ shown' = IF phase[t] = "settling" THEN "done" ELSE "failed"
    /\ url' = 0
    /\ phase' = [phase EXCEPT ![t] = "over"]
    /\ UNCHANGED <<Task, account>>

\* An aborted task ends at its next await; until then it goes on.
TaskDies(t) ==
    /\ Unfinished(t) /\ t \in aborted
    /\ phase' = [phase EXCEPT ![t] = "over"]
    /\ UNCHANGED <<Task, shown, url, account>>

WantsCancel(c) ==
    At(c, "begin") /\ call[c].op \in {"cancel_login", "logout", "exit"}

\* The handle is taken out and the task aborted; the lock is kept meanwhile.
CancelBegins(c) ==
    /\ WantsCancel(c) /\ signing = NoCaller
    /\ IF handle = 0
       THEN /\ Goes(c, "reset")
            /\ UNCHANGED <<signing, aborted>>
       ELSE /\ signing' = c
            /\ aborted' = aborted \cup {handle}
            /\ call' = [call EXCEPT ![c].at = "await", ![c].takes = handle]
    /\ handle' = 0
    /\ UNCHANGED <<calls, process, settings, api, phase, shown, url, account,
                   retired>>

\* Mutant of CancelWaits: the task is aborted, its end is not awaited.
CancelLeaves(c) ==
    /\ At(c, "await")
    /\ signing' = NoCaller
    /\ Goes(c, "reset")
    /\ UNCHANGED <<calls, process, settings, api, handle, phase, aborted,
                   shown, url, account, retired>>

CancelWaits(c) ==
    /\ At(c, "await") /\ ~Unfinished(call[c].takes)
    /\ signing' = NoCaller
    /\ Goes(c, "reset")
    /\ UNCHANGED <<calls, process, settings, api, handle, phase, aborted,
                   shown, url, account, retired>>

AfterCancel(op) == CASE op = "cancel_login" -> "look"
                     [] op = "logout" -> "remove"
                     [] op = "exit" -> "leave"

\* Mutant of CancelResets: an aborted sign-in is left to report itself.
CancelKeeps(c) ==
    /\ At(c, "reset")
    /\ url' = 0
    /\ retired' = retired \cup ({call[c].takes} \ {0})
    /\ call' = [call EXCEPT ![c].takes = 0,
                  ![c].at = AfterCancel(call[c].op)]
    /\ UNCHANGED <<calls, process, settings, api, signing, handle, phase,
                   aborted, shown, account>>

\* The lock is given up by now: a sign-in that begins in between is hidden.
CancelResets(c) ==
    /\ At(c, "reset")
    /\ shown' = "idle"
    /\ url' = 0
    /\ retired' = retired \cup ({call[c].takes} \ {0})
    /\ call' = [call EXCEPT ![c].takes = 0,
                  ![c].at = AfterCancel(call[c].op)]
    /\ UNCHANGED <<calls, process, settings, api, signing, handle, phase,
                   aborted, account>>

\* The router removes the credentials; it may fail.
LogoutRemoves(c) ==
    /\ At(c, "remove")
    /\ \/ account' = 0 /\ Goes(c, "look")
       \/ UNCHANGED account /\ Answer(c)
    /\ UNCHANGED <<calls, process, settings, api, signing, handle, phase,
                   aborted, shown, url, retired>>

-----------------------------------------------------------------------------
(* The settings.                                                             *)

\* Under the lock of the settings, without an await: the patch is validated,
\* the file replaced, and only then memory.
Configure(c) ==
    /\ At(c, "begin") /\ call[c].op = "configure"
    /\ \/ UNCHANGED settings /\ Answer(c)
       \/ /\ call[c].patch # BadPatch
          /\ file' = call[c].patch
          /\ memory' = call[c].patch
          /\ Goes(c, "look")
    /\ UNCHANGED <<calls, process, api, signIn>>

\* The window's port field: refused while a server runs, else a patch.
Port(c) ==
    /\ At(c, "begin") /\ call[c].op = "port" /\ running = NoCaller
    /\ IF server # 0 \/ call[c].patch = BadPatch
       THEN Answer(c)
       ELSE call' = [call EXCEPT ![c].op = "configure"]
    /\ UNCHANGED <<calls, process, settings, api, signIn>>

-----------------------------------------------------------------------------
Works(c) ==
    \/ Connect(c) \/ StatusReads(c) \/ StatusLooks(c)
    \/ StartBegins(c) \/ StartServes(c) \/ StartFails(c)
    \/ StopFindsNone(c) \/ StopBegins(c) \/ Drained(c) \/ StopTimesOut(c)
    \/ LoginRefused(c) \/ LoginBegins(c) \/ LoginMarks(c) \/ LoginSpawns(c)
    \/ CancelBegins(c) \/ CancelWaits(c) \/ CancelResets(c) \/ LogoutRemoves(c)
    \/ Configure(c) \/ Port(c)

Settles(t) == TimesOut(t) \/ TaskReports(t) \/ TaskDies(t)

Next ==
    \/ \E mode \in {"serve", "window", "once"}, op \in Ops \cup {"none"},
          explicit \in BOOLEAN : Boot(mode, op, explicit)
    \/ Crash \/ OnceEnds \/ LoopEnds \/ Quit \/ ExitEnds
    \/ \E c \in Callers : Drop(c) \/ \E op \in Ops : Ask(c, op) \/ Dial(c, op)
    \/ \E c \in Actors : Works(c)
    \/ \E t \in Tasks : HelperPrints(t) \/ HelperSucceeds(t) \/ HelperFails(t)
                        \/ Settles(t)

Spec == Init /\ [][Next]_vars

\* A process that is up goes on with the calls it has and with its sign-in; the
\* timeouts of a stop and of a sign-in expire.  Nobody need come back from the
\* browser, ask, or crash.
Fairness ==
    /\ \A c \in Actors : WF_vars(Works(c))
    /\ \A t \in Tasks : WF_vars(Settles(t))
    /\ WF_vars(OnceEnds \/ LoopEnds \/ ExitEnds)

FairSpec == Spec /\ Fairness

-----------------------------------------------------------------------------
(* Properties.                                                               *)

TypeOK ==
    /\ host \in {"down", "serve", "window", "once"}
    /\ calls \in Nat /\ servers \in Nat /\ born \in Nat
    /\ call \in [Actors -> Call]
    /\ file \in Values /\ memory \in Values
    /\ keyFile \in Nat /\ address \in Nat /\ server \in Nat
    /\ running \in Actors \cup {NoCaller} /\ signing \in Actors \cup {NoCaller}
    /\ handle \in Tasks \cup {0} /\ url \in Tasks \cup {0}
    /\ account \in Tasks \cup {0}
    /\ phase \in [Tasks -> Phases]
    /\ aborted \subseteq Tasks /\ retired \subseteq Tasks
    /\ shown \in {"idle", "pending", "done", "failed"}
    /\ dropped \in BOOLEAN

\* Whoever reads control.json while no start or stop is under way is sent to
\* the server that runs, unless a process that crashed left the file behind.
AddressIsLive ==
    /\ server # 0 => address = server
    /\ Up /\ running = NoCaller /\ address > born => server = address

\* Two sign-ins never compete for the same callback port and credentials: but
\* for one that was told to stop and is ending, there is one at most.
OneSignIn ==
    \A t, u \in Tasks \ aborted : Unfinished(t) /\ Unfinished(u) => t = u

\* A sign-in that is shown as pending is under way, or is about to begin or to
\* be cancelled, as long as no control request was dropped halfway.
PendingIsTrue ==
    shown = "pending" /\ ~dropped =>
        \/ \E t \in Tasks : Unfinished(t)
        \/ \E c \in Actors : call[c].at \in {"spawn", "await", "reset"}

\* After a cancellation was answered, its sign-in installs no credentials.
CancelledNeverSignsIn ==
    [][\A t \in retired : account' = t => account = t]_vars

\* The settings in memory are those that a restart would read.
SettingsAreSaved == Up => memory = file

CallEnds(c) == ~Free(c) ~> Free(c)

\* Every call ends: no caller waits for a lock for ever, although a stop waits
\* for requests that wait for its lock.
CallsEnd == \A c \in Actors : CallEnds(c)

\* Every sign-in ends, also when nobody comes back from the browser.
SignInEnds(t) == Unfinished(t) ~> ~Unfinished(t)
SignInsEnd == \A t \in Tasks : SignInEnds(t)
=============================================================================
