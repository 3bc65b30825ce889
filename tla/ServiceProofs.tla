--------------------------- MODULE ServiceProofs ---------------------------
(* Proofs about Service, for any callers, commands, settings and bounds. *)
EXTENDS Service, TLAPS

-----------------------------------------------------------------------------
(* Calls.                                                                    *)

\* The places at which a call holds no lock and took nothing to end it.
Quiet == {"idle", "dialled", "begin", "later", "remove", "leave", "left",
          "look", "lost"}

\* What a call keeps from one place to the next.
Orderly(r) ==
    /\ r.op \in {"halt", "exit"} => r.via = 0
    /\ r.op = "stop" /\ r.via # 0 => r.at \in {"dialled", "lost"}
    /\ r.at = "dialled" => r.via # 0
    /\ r.at \in {"dialled", "begin"} => r.takes = 0

\* What the locks, the servers and the sign-ins have to do with each other.
\* Relay.running is held over a start and a stop, and nothing else lists or
\* unlists a server ...
RunningIsHeld ==
    /\ \A c \in Actors : running = c <=> call[c].at \in {"bind", "drain"}
    /\ running # NoCaller => server = 0
    /\ \A c \in Actors :
         /\ At(c, "bind") => address <= born
         /\ At(c, "drain") => /\ address = call[c].takes
                              /\ call[c].via = 0
                              /\ call[c].op \in {"stop", "halt", "exit"}
         /\ call[c].op \in {"halt", "exit"} => call[c].via = 0
         /\ call[c].op = "stop" /\ call[c].via # 0 =>
                call[c].at \in {"dialled", "lost"}
         /\ At(c, "dialled") => call[c].via # 0
         /\ call[c].at \in {"dialled", "begin"} => call[c].takes = 0
    /\ address <= servers /\ server <= servers /\ born <= servers

\* ... Relay.login_task over the beginning of a sign-in and the wait for the
\* end of one, and a sign-in that nobody told to stop is the one in the handle.
SigningIsHeld ==
    /\ \A c \in Actors :
         signing = c <=> call[c].at \in {"mark", "spawn", "await"}
    /\ handle # 0 => phase[handle] # "none"
    /\ \A t \in Tasks \ aborted : Unfinished(t) => handle = t
    /\ \A c \in Actors :
         /\ call[c].at \in {"mark", "spawn"} /\ handle # 0 =>
                phase[handle] = "over"
         /\ At(c, "await") =>
                call[c].takes \in Tasks /\ phase[call[c].takes] # "none"
         /\ call[c].at \in {"await", "reset"} =>
                call[c].op \in {"cancel_login", "logout", "exit"}
         /\ At(c, "reset") /\ call[c].takes # 0 =>
                call[c].takes \in Tasks /\ phase[call[c].takes] = "over"
    /\ \A t \in aborted : phase[t] # "none"
    /\ \A t \in retired : phase[t] = "over"
    /\ ~dropped => \A t \in aborted : Unfinished(t) =>
           \E c \in Actors : At(c, "await") /\ call[c].takes = t

\* A process that is down holds nothing.
DownHoldsNothing ==
    ~Up => /\ server = 0 /\ running = NoCaller /\ signing = NoCaller
           /\ handle = 0 /\ shown = "idle"
           /\ \A c \in Actors : call[c].at \in {"idle", "dialled", "lost"}
           /\ \A t \in Tasks : ~Unfinished(t)

\* The inductive invariant: what each lock protects (service.rs) is true at
\* every await.
ServiceInv ==
    /\ TypeOK /\ RunningIsHeld /\ SigningIsHeld /\ DownHoldsNothing
    /\ AddressIsLive /\ PendingIsTrue /\ SettingsAreSaved

LEMMA IdleTyped == Idle \in Call /\ Idle.at = "idle" /\ Orderly(Idle)
  BY DEF Idle, Call, Orderly, AllOps

LEMMA AskedTyped ==
    ASSUME NEW op \in AllOps \cup {"none", "exit"},
           NEW at \in {"idle", "begin", "dialled"}, NEW via \in Nat,
           NEW patch \in Values \cup {BadPatch}
    PROVE  LET r == Asked(op, at, via, patch)
           IN  r \in Call /\ r.at = at /\ r.op = op /\ r.via = via /\ r.takes = 0
  BY DEF Asked, Idle, Call, AllOps

LEMMA OrderlyNow ==
    ASSUME ServiceInv, NEW c \in Actors
    PROVE  Orderly(call[c]) /\ call[c] \in Call
  BY DEF ServiceInv, TypeOK, RunningIsHeld, SigningIsHeld, Orderly, At

\* A process that is down stands at no await.
LEMMA UpNow ==
    ASSUME ServiceInv, NEW c \in Actors,
           call[c].at \notin {"idle", "dialled", "lost"}
    PROVE  Up
  BY DEF ServiceInv, DownHoldsNothing

\* A call that goes from one quiet place to another leaves the rest as it is.
LEMMA QuietStep ==
    ASSUME ServiceInv, NEW c \in Actors, NEW r \in Call,
           call' = [call EXCEPT ![c] = r], calls' \in Nat,
           call[c].at \in Quiet, r.at \in Quiet, Orderly(r),
           Up \/ r.at \in {"idle", "dialled", "lost"},
           file' \in Values, memory' \in Values, Up => memory' = file',
           account' \in Tasks \cup {0},
           UNCHANGED <<process, api, signing, handle, phase, aborted, shown,
                       url, retired>>
    PROVE  ServiceInv'
  <1> USE DEF ServiceInv, TypeOK, process, api, Quiet, At, Up
  <1>1. TypeOK'
    OBVIOUS
  <1>2. \A d \in Actors : call'[d] = IF d = c THEN r ELSE call[d]
    OBVIOUS
  <1>3. RunningIsHeld'
    BY <1>2 DEF RunningIsHeld, Orderly
  <1>4. SigningIsHeld'
    BY <1>2 DEF SigningIsHeld, Unfinished, Orderly
  <1>5. DownHoldsNothing'
    BY <1>2 DEF DownHoldsNothing, Unfinished
  <1>6. AddressIsLive'
    BY DEF AddressIsLive
  <1>7. PendingIsTrue'
    BY <1>2 DEF PendingIsTrue, Unfinished
  <1>8. SettingsAreSaved'
    BY DEF SettingsAreSaved
  <1> QED
    BY <1>1, <1>3, <1>4, <1>5, <1>6, <1>7, <1>8 DEF ServiceInv

-----------------------------------------------------------------------------
(* Steps that hold no lock.                                                  *)

LEMMA LeavesKeeps ==
    ASSUME ServiceInv, Leaves, Up
    PROVE  ServiceInv'
  <1> DEFINE r == Asked("exit", "begin", 0, BadPatch)
  <1>1. r \in Call /\ r.at = "begin" /\ Orderly(r)
    BY AskedTyped DEF Orderly
  <1>2. Main \in Actors /\ call[Main].at = "idle"
    BY DEF Leaves, At, Actors
  <1> QED
    BY <1>1, <1>2, QuietStep DEF Leaves, Quiet, settings, signIn, ServiceInv,
       TypeOK, SettingsAreSaved

LEMMA AskKeeps ==
    ASSUME ServiceInv, NEW c \in Callers, NEW op \in Ops, Ask(c, op)
    PROVE  ServiceInv'
  <1>1. PICK patch \in Patches(op) :
          call' = [call EXCEPT ![c] = Asked(op, "begin", 0, patch)]
    BY DEF Ask
  <1> DEFINE r == Asked(op, "begin", 0, patch)
  <1>2. r \in Call /\ r.at = "begin" /\ Orderly(r)
    BY AskedTyped, OpsAssumption DEF Orderly, Patches, AllOps
  <1>3. c \in Actors /\ call[c].at \in Quiet /\ Up
    BY DEF Ask, Free, Actors, Quiet, Up
  <1>4. calls' \in Nat
    BY DEF Ask, ServiceInv, TypeOK
  <1> HIDE DEF r
  <1> QED
    BY <1>1, <1>2, <1>3, <1>4, QuietStep DEF r, Ask, Quiet, settings, signIn,
       ServiceInv, TypeOK, SettingsAreSaved

LEMMA DialKeeps ==
    ASSUME ServiceInv, NEW c \in Callers, NEW op \in Ops, Dial(c, op)
    PROVE  ServiceInv'
  <1>1. PICK patch \in Patches(op) :
          call' = [call EXCEPT ![c] = Asked(op, "dialled", address, patch)]
    BY DEF Dial
  <1> DEFINE r == Asked(op, "dialled", address, patch)
  <1>2. r \in Call /\ r.at = "dialled" /\ Orderly(r)
    <2>1. /\ op \in AllOps /\ op \notin {"halt", "exit"}
          /\ patch \in Values \cup {BadPatch}
          /\ address \in Nat /\ address # 0
      BY OpsAssumption DEF Patches, AllOps, Dial, ServiceInv, TypeOK
    <2>2. r \in Call /\ r.at = "dialled" /\ r.op = op /\ r.via = address /\ r.takes = 0
      BY <2>1, AskedTyped
    <2> QED
      BY <2>1, <2>2 DEF Orderly
  <1>3. c \in Actors /\ call[c].at \in Quiet
    BY DEF Dial, Free, Actors, Quiet
  <1>4. calls' \in Nat
    BY DEF Dial, ServiceInv, TypeOK
  <1> HIDE DEF r
  <1> QED
    BY <1>1, <1>2, <1>3, <1>4, QuietStep DEF r, Dial, Quiet, settings, signIn,
       ServiceInv, TypeOK, SettingsAreSaved

\* A call that only moves on, from one quiet place to another.
LEMMA MovesOn ==
    ASSUME ServiceInv, NEW c \in Actors, NEW r,
           call' = [call EXCEPT ![c] = r],
           call[c].at \in Quiet, Up \/ r.at \in {"idle", "lost"},
           \/ r = Idle
           \/ \E at \in Quiet \ {"dialled", "begin"} : r = [call[c] EXCEPT !.at = at],
           call[c].op = "stop" => call[c].via = 0 \/ r = Idle,
           calls' = calls,
           file' \in Values, memory' \in Values, Up => memory' = file',
           account' \in Tasks \cup {0},
           UNCHANGED <<process, api, signing, handle, phase, aborted, shown,
                       url, retired>>
    PROVE  ServiceInv'
  <1>1. r \in Call /\ r.at \in Quiet /\ Orderly(r)
    <2>1. CASE r = Idle
      BY <2>1, IdleTyped DEF Quiet
    <2>2. CASE r # Idle
      <3>1. PICK at \in Quiet \ {"dialled", "begin"} : r = [call[c] EXCEPT !.at = at]
        BY <2>2
      <3>2. /\ r \in Call /\ r.at = at /\ r.op = call[c].op
            /\ r.via = call[c].via /\ r.takes = call[c].takes
        BY <3>1, OrderlyNow DEF Call, Quiet
      <3>3. Orderly(call[c])
        BY OrderlyNow
      <3> QED
        BY <2>2, <3>1, <3>2, <3>3 DEF Orderly, Quiet
    <2> QED
      BY <2>1, <2>2
  <1>2. calls' \in Nat
    BY DEF ServiceInv, TypeOK
  <1> QED
    BY <1>1, <1>2, QuietStep

LEMMA ConnectKeeps ==
    ASSUME ServiceInv, NEW c \in Actors, Connect(c)
    PROVE  ServiceInv'
  <1>1. call[c] \in Call /\ Orderly(call[c]) /\ call[c].at = "dialled"
    BY OrderlyNow DEF Connect, At
  <1>2. call[c].via = server => Up
    BY <1>1 DEF ServiceInv, DownHoldsNothing, Orderly
  <1>3. PICK r : /\ call' = [call EXCEPT ![c] = r] /\ r \in Call /\ r.takes = 0
                 /\ \/ r.at = "later" /\ r.op = "halt" /\ r.via = 0 /\ Up
                    \/ /\ r.at = "begin" /\ r.op = call[c].op
                       /\ r.op # "stop" /\ r.via = call[c].via /\ Up
                    \/ r.at = "lost" /\ r.op = call[c].op /\ r.via = call[c].via
    <2>1. CASE call[c].via = server /\ call[c].op = "stop"
      <3> DEFINE r == [call[c] EXCEPT !.op = "halt", !.at = "later", !.via = 0]
      <3>1. call' = [call EXCEPT ![c] = r]
        BY <2>1 DEF Connect
      <3>2. r \in Call /\ r.takes = 0 /\ r.at = "later" /\ r.op = "halt" /\ r.via = 0
        BY <1>1 DEF Call, Orderly
      <3> QED
        BY <1>2, <2>1, <3>1, <3>2
    <2>2. CASE call[c].via = server /\ call[c].op # "stop"
      <3> DEFINE r == [call[c] EXCEPT !.at = "begin"]
      <3>1. call' = [call EXCEPT ![c] = r]
        BY <2>2 DEF Connect, Goes
      <3>2. /\ r \in Call /\ r.takes = 0 /\ r.at = "begin" /\ r.op = call[c].op
            /\ r.via = call[c].via
        BY <1>1 DEF Call, Orderly
      <3> QED
        BY <1>2, <2>2, <3>1, <3>2
    <2>3. CASE call[c].via # server
      <3> DEFINE r == [call[c] EXCEPT !.at = "lost"]
      <3>1. call' = [call EXCEPT ![c] = r]
        BY <2>3 DEF Connect, Goes
      <3>2. /\ r \in Call /\ r.takes = 0 /\ r.at = "lost" /\ r.op = call[c].op
            /\ r.via = call[c].via
        BY <1>1 DEF Call, Orderly
      <3> QED
        BY <2>3, <3>1, <3>2
    <2> QED
      BY <2>1, <2>2, <2>3
  <1>4. Orderly(r) /\ r.at \in Quiet
    BY <1>1, <1>3 DEF Orderly, Quiet
  <1>5. calls' \in Nat
    BY DEF Connect, ServiceInv, TypeOK
  <1> QED
    BY <1>1, <1>3, <1>4, <1>5, QuietStep DEF Connect, Quiet, settings, signIn,
       ServiceInv, TypeOK, SettingsAreSaved

LEMMA StatusReadsKeeps ==
    ASSUME ServiceInv, NEW c \in Actors, StatusReads(c)
    PROVE  ServiceInv'
  <1>1. call' = [call EXCEPT ![c] = [call[c] EXCEPT !.at = "look"]]
    BY DEF StatusReads, Goes
  <1>2. Up /\ call[c].at = "begin" /\ call[c].op = "status"
    BY UpNow DEF StatusReads, At
  <1> QED
    BY <1>1, <1>2, MovesOn DEF StatusReads, Quiet, settings, signIn,
       ServiceInv, TypeOK, SettingsAreSaved

LEMMA StatusLooksKeeps ==
    ASSUME ServiceInv, NEW c \in Actors, StatusLooks(c)
    PROVE  ServiceInv'
  <1>1. Up /\ call[c].at = "look" /\ Idle.at = "idle"
    BY UpNow, IdleTyped DEF StatusLooks, At
  <1> QED
    BY <1>1, MovesOn DEF StatusLooks, Answer, Quiet, settings, signIn,
       ServiceInv, TypeOK, SettingsAreSaved

\* What follows a stop.
LEMMA StoppedMoves ==
    ASSUME ServiceInv, NEW c \in Actors, Stopped(c),
           call[c].op \in {"stop", "halt", "exit"}
    PROVE  \E r : /\ call' = [call EXCEPT ![c] = r]
                  /\ r.at \in {"idle", "look", "left"}
                  /\ \/ r = Idle
                     \/ \E at \in {"look", "left"} : r = [call[c] EXCEPT !.at = at]
  <1>1. call[c] \in Call
    BY OrderlyNow
  <1>2. CASE call[c].op = "halt"
    BY <1>2, IdleTyped DEF Stopped, Answer
  <1>3. CASE call[c].op = "exit"
    BY <1>1, <1>3 DEF Stopped, Goes, Call
  <1>4. CASE call[c].op = "stop"
    BY <1>1, <1>4 DEF Stopped, Goes, Call
  <1> QED
    BY <1>2, <1>3, <1>4

LEMMA StopFindsNoneKeeps ==
    ASSUME ServiceInv, NEW c \in Actors, StopFindsNone(c)
    PROVE  ServiceInv'
  <1>1. /\ call[c].at \in {"begin", "later", "leave"}
        /\ call[c].op \in {"stop", "halt", "exit"}
    BY DEF StopFindsNone, WantsStop, At
  <1>2. PICK r : /\ call' = [call EXCEPT ![c] = r]
                 /\ r.at \in {"idle", "look", "left"}
                 /\ \/ r = Idle
                    \/ \E at \in {"look", "left"} : r = [call[c] EXCEPT !.at = at]
    BY <1>1, StoppedMoves DEF StopFindsNone
  <1>3. Up /\ call[c].at \in Quiet
    BY <1>1, UpNow DEF Quiet
  <1>4. call[c].op = "stop" => call[c].via = 0
    BY <1>1, OrderlyNow DEF Orderly
  <1>5. r = Idle \/ \E at \in Quiet \ {"dialled", "begin"} : r = [call[c] EXCEPT !.at = at]
    BY <1>2 DEF Quiet
  <1> QED
    BY <1>2, <1>3, <1>4, <1>5, MovesOn DEF StopFindsNone, settings, signIn,
       ServiceInv, TypeOK, SettingsAreSaved

LEMMA LoginRefusedKeeps ==
    ASSUME ServiceInv, NEW c \in Actors, LoginRefused(c)
    PROVE  ServiceInv'
  <1>1. Up /\ call[c].at = "begin" /\ Idle.at = "idle"
    BY UpNow, IdleTyped DEF LoginRefused, At
  <1> QED
    BY <1>1, MovesOn DEF LoginRefused, Answer, Quiet, settings, signIn,
       ServiceInv, TypeOK, SettingsAreSaved

LEMMA LogoutRemovesKeeps ==
    ASSUME ServiceInv, NEW c \in Actors, LogoutRemoves(c)
    PROVE  ServiceInv'
  <1>1. Up /\ call[c].at = "remove" /\ Idle.at = "idle"
    BY UpNow, IdleTyped DEF LogoutRemoves, At
  <1>2. CASE account' = 0 /\ Goes(c, "look")
    <2>1. call' = [call EXCEPT ![c] = [call[c] EXCEPT !.at = "look"]]
      BY <1>2 DEF Goes
    <2>2. [call[c] EXCEPT !.at = "look"].at = "look"
      BY OrderlyNow DEF Call
    <2>3. call[c].op = "stop" => call[c].via = 0
      BY <1>1, OrderlyNow DEF Orderly
    <2> QED
      BY <1>1, <1>2, <2>1, <2>2, <2>3, MovesOn DEF LogoutRemoves, Quiet, settings,
         ServiceInv, TypeOK, SettingsAreSaved
  <1>3. CASE UNCHANGED account /\ Answer(c)
    BY <1>1, <1>3, MovesOn DEF LogoutRemoves, Answer, Quiet, settings,
       ServiceInv, TypeOK, SettingsAreSaved
  <1> QED
    BY <1>2, <1>3 DEF LogoutRemoves

LEMMA ConfigureKeeps ==
    ASSUME ServiceInv, NEW c \in Actors, Configure(c)
    PROVE  ServiceInv'
  <1>1. Up /\ call[c].at = "begin" /\ call[c].op = "configure" /\ Idle.at = "idle"
    BY UpNow, IdleTyped DEF Configure, At
  <1>2. CASE UNCHANGED settings /\ Answer(c)
    BY <1>1, <1>2, MovesOn DEF Configure, Answer, Quiet, settings, signIn,
       ServiceInv, TypeOK, SettingsAreSaved
  <1>3. CASE /\ call[c].patch # BadPatch /\ file' = call[c].patch
             /\ memory' = call[c].patch /\ Goes(c, "look")
    <2>1. call' = [call EXCEPT ![c] = [call[c] EXCEPT !.at = "look"]]
      BY <1>3 DEF Goes
    <2>2. call[c].patch \in Values
      BY <1>3, OrderlyNow DEF Call
    <2> QED
      BY <1>1, <1>3, <2>1, <2>2, MovesOn DEF Configure, Quiet, signIn,
         ServiceInv, TypeOK
  <1> QED
    BY <1>2, <1>3 DEF Configure

LEMMA PortKeeps ==
    ASSUME ServiceInv, NEW c \in Actors, Port(c)
    PROVE  ServiceInv'
  <1>1. Up /\ call[c].at = "begin" /\ call[c].op = "port" /\ Idle.at = "idle"
    BY UpNow, IdleTyped DEF Port, At
  <1>2. CASE Answer(c)
    BY <1>1, <1>2, MovesOn DEF Port, Answer, Quiet, settings, signIn,
       ServiceInv, TypeOK, SettingsAreSaved
  <1>3. CASE call' = [call EXCEPT ![c].op = "configure"]
    <2> DEFINE r == [call[c] EXCEPT !.op = "configure"]
    <2>1. call' = [call EXCEPT ![c] = r]
      BY <1>3
    <2>2. r \in Call /\ r.op = "configure" /\ r.at = "begin" /\ r.takes = call[c].takes
      BY <1>1, OrderlyNow DEF Call, AllOps
    <2>3. Orderly(r)
      BY <1>1, <2>2, OrderlyNow DEF Orderly
    <2>4. calls' \in Nat
      BY DEF Port, ServiceInv, TypeOK
    <2> HIDE DEF r
    <2> QED
      BY <1>1, <2>1, <2>2, <2>3, <2>4, QuietStep DEF Port, Quiet, settings, signIn,
         ServiceInv, TypeOK, SettingsAreSaved
  <1> QED
    BY <1>2, <1>3 DEF Port

-----------------------------------------------------------------------------
(* The process begins and ends.                                              *)

LEMMA BootKeeps ==
    ASSUME ServiceInv, NEW mode \in {"serve", "window", "once"},
           NEW op \in Ops \cup {"none"}, NEW explicit \in BOOLEAN,
           Boot(mode, op, explicit)
    PROVE  ServiceInv'
  <1> DEFINE at == IF op = "none" THEN "idle" ELSE "begin"
  <1>1. PICK patch \in Patches(op) : call' = [call EXCEPT ![Main] = Asked(op, at, 0, patch)]
    BY DEF Boot
  <1> DEFINE r == Asked(op, at, 0, patch)
  <1>2. r \in Call /\ r.at \in {"idle", "begin"} /\ Orderly(r) /\ r.takes = 0 /\ r.via = 0
    BY AskedTyped, OpsAssumption DEF Orderly, Patches, AllOps
  <1>3. Main \in Actors
    BY DEF Actors
  <1> HIDE DEF r
  <1>4. /\ call' = [call EXCEPT ![Main] = r] /\ keyFile' \in Nat /\ calls' \in Nat
        /\ host' \in {"serve", "window", "once"} /\ host = "down"
        /\ born' = servers /\ dropped' = FALSE
        /\ memory' = file /\ UNCHANGED <<file, api, signIn>>
    <2>1. call' = [call EXCEPT ![Main] = r]
      BY <1>1 DEF r
    <2>2. keyFile' \in Nat /\ calls' \in Nat
      BY DEF Boot, KeptKey, ServiceInv, TypeOK
    <2> QED
      BY <2>1, <2>2 DEF Boot, ServiceInv, TypeOK, Up
  <1> USE DEF ServiceInv, TypeOK, api, signIn, Up, At, DownHoldsNothing
  <1>5. \A d \in Actors : call'[d] = IF d = Main THEN r ELSE call[d]
    BY <1>3, <1>4
  <1>6. TypeOK'
    BY <1>2, <1>4
  <1>7. RunningIsHeld'
    BY <1>2, <1>4, <1>5 DEF RunningIsHeld, Orderly
  <1>8. SigningIsHeld'
    BY <1>2, <1>4, <1>5 DEF SigningIsHeld, Unfinished, Orderly
  <1>9. AddressIsLive' /\ PendingIsTrue' /\ SettingsAreSaved' /\ DownHoldsNothing'
    BY <1>4 DEF AddressIsLive, PendingIsTrue, SettingsAreSaved, RunningIsHeld
  <1> QED
    BY <1>6, <1>7, <1>8, <1>9

LEMMA EndsKeeps ==
    ASSUME ServiceInv, Ends
    PROVE  ServiceInv'
  <1> USE DEF ServiceInv, TypeOK, Up, At, Ends
  <1>1. \A c \in Actors : /\ call'[c] \in Call /\ Orderly(call'[c])
                          /\ call'[c].at \in {"idle", "dialled", "lost"}
    BY IdleTyped, OrderlyNow
  <1>2. TypeOK'
    <2>1. call' \in [Actors -> Call]
      BY <1>1
    <2>2. phase' \in [Tasks -> Phases]
      BY DEF Phases
    <2> QED
      BY <2>1, <2>2
  <1>3. \A t \in Tasks : /\ phase'[t] \in {"none", "over"}
                         /\ phase[t] # "none" => phase'[t] = "over"
    OBVIOUS
  <1>4. RunningIsHeld'
    BY <1>1, ActorsAssumption DEF RunningIsHeld, Orderly
  <1>5. SigningIsHeld'
    BY <1>1, <1>3, ActorsAssumption DEF SigningIsHeld, Orderly, Unfinished
  <1>6. DownHoldsNothing'
    BY <1>1, <1>3 DEF DownHoldsNothing, Unfinished
  <1>7. AddressIsLive' /\ PendingIsTrue' /\ SettingsAreSaved'
    BY DEF AddressIsLive, PendingIsTrue, SettingsAreSaved
  <1> QED
    BY <1>2, <1>4, <1>5, <1>6, <1>7

-----------------------------------------------------------------------------
(* The API server.                                                           *)

LEMMA StartBeginsKeeps ==
    ASSUME ServiceInv, NEW c \in Actors, StartBegins(c)
    PROVE  ServiceInv'
  <1>1. Up /\ call[c].at = "begin" /\ call[c].op = "start" /\ running = NoCaller
    BY UpNow DEF StartBegins, At
  <1>2. CASE server # 0
    <2>1. call' = [call EXCEPT ![c] = [call[c] EXCEPT !.at = "look"]]
      BY <1>2 DEF StartBegins, Goes
    <2> QED
      BY <1>1, <1>2, <2>1, MovesOn DEF StartBegins, Quiet, settings, signIn, api,
         ServiceInv, TypeOK, SettingsAreSaved
  <1>3. CASE server = 0
    <2> DEFINE r == [call[c] EXCEPT !.at = "bind"]
    <2>1. call' = [call EXCEPT ![c] = r] /\ running' = c
      BY <1>3 DEF StartBegins, Goes
    <2>2. r \in Call /\ r.at = "bind" /\ r.op = "start"
      BY <1>1, OrderlyNow DEF Call
    <2> HIDE DEF r
    <2> USE DEF ServiceInv, TypeOK, process, settings, signIn, At, Up
    <2>3. \A d \in Actors : call'[d] = IF d = c THEN r ELSE call[d]
      BY <2>1
    <2>4. UNCHANGED <<calls, process, settings, address, server, servers, signIn>>
      BY DEF StartBegins
    <2>5. TypeOK'
      BY <2>1, <2>2, <2>4
    <2>6. RunningIsHeld'
      BY <1>1, <1>3, <2>1, <2>2, <2>3, <2>4, ActorsAssumption
      DEF RunningIsHeld, AddressIsLive
    <2>7. SigningIsHeld'
      BY <1>1, <2>2, <2>3, <2>4 DEF SigningIsHeld, Unfinished
    <2>8. DownHoldsNothing' /\ AddressIsLive' /\ SettingsAreSaved'
      BY <1>1, <1>3, <2>1, <2>4, ActorsAssumption
      DEF DownHoldsNothing, AddressIsLive, SettingsAreSaved
    <2>9. PendingIsTrue'
      BY <1>1, <2>2, <2>3, <2>4 DEF PendingIsTrue, Unfinished
    <2> QED
      BY <2>5, <2>6, <2>7, <2>8, <2>9
  <1> QED
    BY <1>2, <1>3

\* Relay.running is given up: by a start that serves or failed, by a stop, or
\* by a dropped request.
LEMMA GivesUpRunning ==
    ASSUME ServiceInv, NEW c \in Actors, NEW r \in Call,
           call[c].at \in {"bind", "drain"},
           call' = [call EXCEPT ![c] = r], running' = NoCaller,
           r.at \in {"idle", "look", "left"}, Orderly(r),
           server' \in Nat, address' \in Nat, servers' \in Nat,
           servers' >= servers, server' <= servers', address' <= servers',
           server' # 0 => address' = server',
           address' > born => server' = address',
           dropped' = dropped \/ dropped' = TRUE,
           UNCHANGED <<calls, host, born, keyFile, settings, signIn>>
    PROVE  ServiceInv'
  <1>0. dropped' \in BOOLEAN /\ (~dropped' => ~dropped)
    BY DEF ServiceInv, TypeOK
  <1> USE DEF ServiceInv, TypeOK, settings, signIn, At, Up
  <1>1. Up /\ running = c
    BY UpNow DEF RunningIsHeld
  <1>2. \A d \in Actors : call'[d] = IF d = c THEN r ELSE call[d]
    OBVIOUS
  <1>3. TypeOK'
    BY <1>0
  <1>4. \A d \in Actors : call[d].at \in {"bind", "drain"} => d = c
    BY <1>1 DEF RunningIsHeld
  <1>5. RunningIsHeld'
    BY <1>2, <1>4, ActorsAssumption DEF RunningIsHeld, Orderly
  <1>6. SigningIsHeld'
    BY <1>0, <1>2 DEF SigningIsHeld, Unfinished, Orderly
  <1>7. DownHoldsNothing' /\ AddressIsLive' /\ SettingsAreSaved'
    BY <1>1 DEF DownHoldsNothing, AddressIsLive, SettingsAreSaved
  <1>8. PendingIsTrue'
    BY <1>0, <1>2 DEF PendingIsTrue, Unfinished
  <1> QED
    BY <1>3, <1>5, <1>6, <1>7, <1>8

LEMMA StartServesKeeps ==
    ASSUME ServiceInv, NEW c \in Actors, StartServes(c)
    PROVE  ServiceInv'
  <1> DEFINE r == [call[c] EXCEPT !.at = "look"]
  <1>1. call' = [call EXCEPT ![c] = r] /\ call[c].at = "bind"
    BY DEF StartServes, Goes, At
  <1>2. r \in Call /\ r.at = "look" /\ Orderly(r)
    BY <1>1, OrderlyNow DEF Call, Orderly
  <1> HIDE DEF r
  <1>3. servers' = servers + 1 /\ server' = servers' /\ address' = servers'
    BY DEF StartServes
  <1>4. /\ server' \in Nat /\ address' \in Nat /\ servers' \in Nat
        /\ servers' >= servers /\ server' <= servers' /\ address' <= servers'
    BY <1>3 DEF ServiceInv, TypeOK
  <1>5. /\ UNCHANGED <<calls, host, born, keyFile, settings, signIn>>
        /\ dropped' = dropped /\ running' = NoCaller
    BY DEF StartServes, process
  <1> QED
    BY <1>1, <1>2, <1>3, <1>4, <1>5, GivesUpRunning

LEMMA StartFailsKeeps ==
    ASSUME ServiceInv, NEW c \in Actors, StartFails(c)
    PROVE  ServiceInv'
  <1>1. PICK r : /\ call' = [call EXCEPT ![c] = r] /\ r \in Call
                 /\ r.at \in {"idle", "left"} /\ Orderly(r)
    <2>1. CASE c = Main /\ host = "serve"
      <3> DEFINE r == [call[c] EXCEPT !.at = "left"]
      <3>1. call' = [call EXCEPT ![c] = r] /\ call[c].at = "bind"
        BY <2>1 DEF StartFails, Goes, At
      <3>2. r \in Call /\ r.at = "left" /\ Orderly(r)
        BY <3>1, OrderlyNow DEF Call, Orderly
      <3> QED
        BY <3>1, <3>2
    <2>2. CASE ~(c = Main /\ host = "serve")
      BY <2>2, IdleTyped DEF StartFails, Answer
    <2> QED
      BY <2>1, <2>2
  <1>2. call[c].at = "bind" /\ running = c /\ server = 0 /\ address <= born
    BY ActorsAssumption DEF StartFails, At, ServiceInv, RunningIsHeld
  <1>3. /\ server' = 0 /\ address' = address /\ address \in Nat
        /\ servers' = servers /\ servers \in Nat /\ born \in Nat
        /\ address <= servers
    BY <1>2 DEF StartFails, ServiceInv, TypeOK, RunningIsHeld
  <1>4. /\ UNCHANGED <<calls, host, born, keyFile, settings, signIn>>
        /\ dropped' = dropped /\ running' = NoCaller
    BY DEF StartFails, process
  <1>5. /\ server' \in Nat /\ address' \in Nat /\ servers' \in Nat
        /\ servers' >= servers /\ server' <= servers' /\ address' <= servers'
        /\ ~(address' > born) /\ ~(server' # 0)
    BY <1>2, <1>3
  <1>6. call[c].at \in {"bind", "drain"} /\ r.at \in {"idle", "look", "left"}
    BY <1>1, <1>2
  <1> QED
    BY <1>1, <1>4, <1>5, <1>6, GivesUpRunning

LEMMA StopBeginsKeeps ==
    ASSUME ServiceInv, NEW c \in Actors, StopBegins(c)
    PROVE  ServiceInv'
  <1> DEFINE r == [call[c] EXCEPT !.at = "drain", !.takes = server]
  <1>1. /\ call[c].at \in {"begin", "later", "leave"}
        /\ call[c].op \in {"stop", "halt", "exit"}
    BY DEF StopBegins, WantsStop, At
  <1>2. /\ r \in Call /\ r.at = "drain" /\ r.via = 0 /\ r.takes = server
        /\ r.op \in {"stop", "halt", "exit"}
    BY <1>1, OrderlyNow DEF Call, Orderly, ServiceInv, TypeOK
  <1>3. call' = [call EXCEPT ![c] = r] /\ running' = c /\ server' = 0
    BY DEF StopBegins
  <1> HIDE DEF r
  <1>4. /\ running = NoCaller /\ server # 0
        /\ UNCHANGED <<calls, process, settings, address, servers, signIn>>
    BY DEF StopBegins
  <1> USE DEF ServiceInv, TypeOK, process, settings, signIn, At, Up
  <1>5. \A d \in Actors : call'[d] = IF d = c THEN r ELSE call[d]
    BY <1>3
  <1>6. Up /\ address = server
    BY <1>1, <1>4, UpNow DEF AddressIsLive
  <1>7. TypeOK'
    BY <1>2, <1>3, <1>4
  <1>8. RunningIsHeld'
    BY <1>2, <1>3, <1>4, <1>5, <1>6, ActorsAssumption DEF RunningIsHeld
  <1>9. SigningIsHeld'
    BY <1>1, <1>2, <1>4, <1>5 DEF SigningIsHeld, Unfinished
  <1>10. DownHoldsNothing' /\ AddressIsLive' /\ SettingsAreSaved'
    BY <1>3, <1>4, <1>6, ActorsAssumption
    DEF DownHoldsNothing, AddressIsLive, SettingsAreSaved
  <1>11. PendingIsTrue'
    BY <1>1, <1>2, <1>4, <1>5 DEF PendingIsTrue, Unfinished
  <1> QED
    BY <1>7, <1>8, <1>9, <1>10, <1>11

LEMMA StopEndsKeeps ==
    ASSUME ServiceInv, NEW c \in Actors, StopEnds(c)
    PROVE  ServiceInv'
  <1> USE DEF ServiceInv, TypeOK, At
  <1>1. /\ call[c].at = "drain" /\ address = call[c].takes /\ server = 0
        /\ call[c].op \in {"stop", "halt", "exit"} /\ call[c].via = 0
    BY ActorsAssumption DEF StopEnds, RunningIsHeld
  <1>2. address' = 0 /\ running' = NoCaller
    BY <1>1 DEF StopEnds, Unlisted
  <1>3. PICK r : /\ call' = [call EXCEPT ![c] = r]
                 /\ r.at \in {"idle", "look", "left"}
                 /\ \/ r = Idle
                    \/ \E at \in {"look", "left"} : r = [call[c] EXCEPT !.at = at]
    BY <1>1, StoppedMoves DEF StopEnds
  <1>4. r \in Call /\ Orderly(r)
    BY <1>1, <1>3, IdleTyped, OrderlyNow DEF Call, Orderly
  <1>5. /\ server' = 0 /\ servers' = servers /\ servers \in Nat /\ born \in Nat
    BY <1>1 DEF StopEnds
  <1>6. /\ UNCHANGED <<calls, host, born, keyFile, settings, signIn>>
        /\ dropped' = dropped
    BY DEF StopEnds, process
  <1>7. /\ server' \in Nat /\ address' \in Nat /\ servers' \in Nat
        /\ servers' >= servers /\ server' <= servers' /\ address' <= servers'
        /\ server' = address' /\ ~(server' # 0)
    BY <1>2, <1>5
  <1>8. call[c].at \in {"bind", "drain"}
    BY <1>1
  <1> HIDE DEF ServiceInv, TypeOK, At
  <1> QED
    BY <1>2, <1>3, <1>4, <1>6, <1>7, <1>8, GivesUpRunning

LEMMA DropKeeps ==
    ASSUME ServiceInv, NEW c \in Callers, Drop(c)
    PROVE  ServiceInv'
  <1>1. /\ c \in Actors /\ call' = [call EXCEPT ![c] = Idle]
        /\ Up /\ call[c].via # 0 /\ dropped' = TRUE
        /\ UNCHANGED <<calls, host, born, keyFile, settings, address, server,
                       servers, handle, phase, aborted, shown, url, account,
                       retired>>
    BY DEF Drop, Answer, Actors
  <1>2. /\ running' = IF running = c THEN NoCaller ELSE running
        /\ signing' = IF signing = c THEN NoCaller ELSE signing
    BY DEF Drop
  <1> USE DEF ServiceInv, TypeOK, settings, At, Up
  <1>3. \A d \in Actors : call'[d] = IF d = c THEN Idle ELSE call[d]
    BY <1>1
  <1>4. TypeOK'
    BY <1>1, <1>2, IdleTyped
  <1>5. call[c].at # "drain"
    BY <1>1 DEF RunningIsHeld
  <1>6. RunningIsHeld'
    BY <1>1, <1>2, <1>3, <1>5, IdleTyped, ActorsAssumption
    DEF RunningIsHeld, Orderly
  <1>7. SigningIsHeld'
    BY <1>1, <1>2, <1>3, IdleTyped, ActorsAssumption
    DEF SigningIsHeld, Unfinished, Orderly
  <1>8. DownHoldsNothing' /\ PendingIsTrue' /\ SettingsAreSaved'
    BY <1>1 DEF DownHoldsNothing, PendingIsTrue, SettingsAreSaved
  <1>9. AddressIsLive'
    BY <1>1, <1>2, <1>5 DEF AddressIsLive, RunningIsHeld
  <1> QED
    BY <1>4, <1>6, <1>7, <1>8, <1>9

-----------------------------------------------------------------------------
(* The sign-in.                                                              *)

\* A step of a call that touches the sign-in alone: what the API server and the
\* settings have to do with each other is as it was.
LEMMA SigningStep ==
    ASSUME ServiceInv, NEW c \in Actors, NEW r \in Call,
           call' = [call EXCEPT ![c] = r], Orderly(r), Up,
           call[c].at \notin {"bind", "drain"}, r.at \notin {"bind", "drain"},
           UNCHANGED <<calls, process, settings, api>>
    PROVE  /\ call' \in [Actors -> Call]
           /\ \A d \in Actors : call'[d] = IF d = c THEN r ELSE call[d]
           /\ RunningIsHeld' /\ DownHoldsNothing' /\ AddressIsLive'
           /\ SettingsAreSaved'
  <1> USE DEF ServiceInv, TypeOK, process, settings, api, At, Up
  <1>1. \A d \in Actors : call'[d] = IF d = c THEN r ELSE call[d]
    OBVIOUS
  <1>2. RunningIsHeld'
    BY <1>1 DEF RunningIsHeld, Orderly
  <1>3. DownHoldsNothing' /\ AddressIsLive' /\ SettingsAreSaved'
    BY DEF DownHoldsNothing, AddressIsLive, SettingsAreSaved
  <1> QED
    BY <1>1, <1>2, <1>3

LEMMA LoginBeginsKeeps ==
    ASSUME ServiceInv, NEW c \in Actors, LoginBegins(c)
    PROVE  ServiceInv'
  <1> DEFINE r == [call[c] EXCEPT !.at = "mark"]
  <1>1. call' = [call EXCEPT ![c] = r] /\ call[c].at = "begin" /\ call[c].op = "login"
    BY DEF LoginBegins, Goes, At
  <1>2. r \in Call /\ r.at = "mark" /\ Orderly(r) /\ Up
    BY <1>1, UpNow, OrderlyNow DEF Call, Orderly
  <1> HIDE DEF r
  <1>3. /\ signing = NoCaller /\ signing' = c /\ url' = 0
        /\ handle # 0 => ~Unfinished(handle)
        /\ UNCHANGED <<calls, process, settings, api, handle, phase, aborted,
                       shown, account, retired>>
    BY DEF LoginBegins
  <1>4. /\ call' \in [Actors -> Call]
        /\ \A d \in Actors : call'[d] = IF d = c THEN r ELSE call[d]
        /\ RunningIsHeld' /\ DownHoldsNothing' /\ AddressIsLive'
        /\ SettingsAreSaved'
    BY <1>1, <1>2, <1>3, SigningStep
  <1> USE DEF ServiceInv, TypeOK, process, settings, api, At
  <1>5. TypeOK'
    BY <1>3, <1>4
  <1>6. SigningIsHeld'
    BY <1>1, <1>2, <1>3, <1>4, ActorsAssumption
    DEF SigningIsHeld, Unfinished, Orderly, Phases
  <1>7. PendingIsTrue'
    BY <1>1, <1>2, <1>3, <1>4 DEF PendingIsTrue, Unfinished
  <1> QED
    BY <1>4, <1>5, <1>6, <1>7

LEMMA LoginMarksKeeps ==
    ASSUME ServiceInv, NEW c \in Actors, LoginMarks(c)
    PROVE  ServiceInv'
  <1> DEFINE r == [call[c] EXCEPT !.at = "spawn"]
  <1>1. call' = [call EXCEPT ![c] = r] /\ call[c].at = "mark"
    BY DEF LoginMarks, Goes, At
  <1>2. r \in Call /\ r.at = "spawn" /\ Orderly(r) /\ Up
    BY <1>1, UpNow, OrderlyNow DEF Call, Orderly
  <1> HIDE DEF r
  <1>3. /\ shown' = "pending"
        /\ UNCHANGED <<calls, process, settings, api, signing, handle, phase,
                       aborted, url, account, retired>>
    BY DEF LoginMarks
  <1>4. /\ call' \in [Actors -> Call]
        /\ \A d \in Actors : call'[d] = IF d = c THEN r ELSE call[d]
        /\ RunningIsHeld' /\ DownHoldsNothing' /\ AddressIsLive'
        /\ SettingsAreSaved'
    BY <1>1, <1>2, <1>3, SigningStep
  <1> USE DEF ServiceInv, TypeOK, process, settings, api, At
  <1>5. TypeOK'
    BY <1>3, <1>4
  <1>6. SigningIsHeld'
    BY <1>1, <1>2, <1>3, <1>4 DEF SigningIsHeld, Unfinished, Orderly
  <1>7. PendingIsTrue'
    BY <1>2, <1>4 DEF PendingIsTrue
  <1> QED
    BY <1>4, <1>5, <1>6, <1>7

LEMMA LoginSpawnsKeeps ==
    ASSUME ServiceInv, NEW c \in Actors, LoginSpawns(c)
    PROVE  ServiceInv'
  <1> DEFINE r == [call[c] EXCEPT !.at = "look"]
  <1>1. call' = [call EXCEPT ![c] = r] /\ call[c].at = "spawn"
    BY DEF LoginSpawns, Goes, At
  <1>2. r \in Call /\ r.at = "look" /\ Orderly(r) /\ Up
    BY <1>1, UpNow, OrderlyNow DEF Call, Orderly
  <1> HIDE DEF r
  <1>3. PICK t \in Tasks : /\ phase[t] = "none" /\ handle' = t
                           /\ phase' = [phase EXCEPT ![t] = "helping"]
    BY DEF LoginSpawns
  <1>4. /\ signing' = NoCaller
        /\ UNCHANGED <<calls, process, settings, api, aborted, shown, url,
                       account, retired>>
    BY DEF LoginSpawns
  <1> USE DEF ServiceInv, TypeOK, process, settings, api, At
  <1>5. /\ call' \in [Actors -> Call]
        /\ \A d \in Actors : call'[d] = IF d = c THEN r ELSE call[d]
        /\ RunningIsHeld' /\ AddressIsLive' /\ SettingsAreSaved'
    BY <1>1, <1>2, <1>4, SigningStep
  <1>6. \A u \in Tasks : phase'[u] = IF u = t THEN "helping" ELSE phase[u]
    BY <1>3
  <1>7. TypeOK'
    BY <1>3, <1>4, <1>5 DEF Phases
  <1>8. t # 0 /\ signing = c /\ \A d \in Actors : call[d].at \in {"mark", "spawn", "await"} => d = c
    BY <1>1, TasksAssumption DEF SigningIsHeld
  <1>9. SigningIsHeld'
    <2>1. \A d \in Actors : signing' = d <=> call'[d].at \in {"mark", "spawn", "await"}
      BY <1>2, <1>4, <1>5, <1>8, ActorsAssumption
    <2>2. \A u \in Tasks \ aborted : (phase'[u] \in {"helping", "settling", "failing"}) => t = u
      BY <1>1, <1>6, TasksAssumption DEF SigningIsHeld, Unfinished
    <2>3. t \notin aborted /\ t \notin retired
      BY <1>3 DEF SigningIsHeld
    <2>4. \A d \in Actors :
            /\ call'[d].at \in {"mark", "spawn"} => d = c /\ FALSE
            /\ call'[d].at \in {"await", "reset"} => call'[d] = call[d]
            /\ Orderly(call'[d])
      BY <1>2, <1>5, <1>8, OrderlyNow
    <2>5. ASSUME NEW d \in Actors, call[d].at \in {"await", "reset"},
                 call[d].takes # 0
          PROVE  call[d].takes # t
      BY <1>3, <2>5 DEF SigningIsHeld
    <2>6. \A d \in Actors :
            /\ call'[d].at = "await" =>
                   call'[d].takes \in Tasks /\ phase'[call'[d].takes] # "none"
            /\ call'[d].at \in {"await", "reset"} =>
                   call'[d].op \in {"cancel_login", "logout", "exit"}
            /\ call'[d].at = "reset" /\ call'[d].takes # 0 =>
                   call'[d].takes \in Tasks /\ phase'[call'[d].takes] = "over"
      BY <1>6, <2>4, <2>5 DEF SigningIsHeld
    <2>7. \A u \in aborted : /\ phase'[u] # "none"
                            /\ phase'[u] = phase[u]
      BY <1>6, <2>3 DEF SigningIsHeld
    <2>8. ~dropped => \A u \in aborted : phase'[u] \in {"helping", "settling", "failing"} =>
            \E d \in Actors : call'[d].at = "await" /\ call'[d].takes = u
      BY <1>1, <1>5, <2>7 DEF SigningIsHeld, Unfinished
    <2>9. \A u \in retired : phase'[u] = "over"
      BY <1>6, <2>3 DEF SigningIsHeld
    <2> QED
      BY <1>3, <1>4, <1>6, <2>1, <2>2, <2>4, <2>6, <2>7, <2>8, <2>9
      DEF SigningIsHeld, Unfinished, Orderly
  <1>10. DownHoldsNothing'
    BY <1>2, <1>4 DEF DownHoldsNothing, Up
  <1>11. PendingIsTrue'
    BY <1>6 DEF PendingIsTrue, Unfinished
  <1> QED
    BY <1>5, <1>7, <1>9, <1>10, <1>11

\* What the sign-in's own steps leave alone.
LEMMA TaskStep ==
    ASSUME ServiceInv, NEW t \in Tasks, Unfinished(t), UNCHANGED Task,
           NEW p \in {"helping", "settling", "failing", "over"},
           phase' = [phase EXCEPT ![t] = p], url' \in Tasks \cup {0},
           account' \in Tasks \cup {0},
           \/ shown' = shown /\ (p = "over" => t \in aborted)
           \/ shown' \in {"done", "failed"}
    PROVE  ServiceInv'
  <1> USE DEF ServiceInv, TypeOK, Task, process, settings, api, At
  <1>1. Up
    BY DEF DownHoldsNothing
  <1>2. \A u \in Tasks : phase'[u] = IF u = t THEN p ELSE phase[u]
    OBVIOUS
  <1>3. TypeOK'
    BY DEF Phases
  <1>4. RunningIsHeld' /\ AddressIsLive' /\ SettingsAreSaved'
    BY DEF RunningIsHeld, AddressIsLive, SettingsAreSaved, Up
  <1>5. phase[t] # "none" /\ phase[t] # "over"
    BY DEF Unfinished
  <1>6. SigningIsHeld'
    BY <1>2, <1>5 DEF SigningIsHeld, Unfinished
  <1>7. DownHoldsNothing'
    BY <1>1 DEF DownHoldsNothing, Up
  <1>8. PendingIsTrue'
    <2>1. SUFFICES ASSUME shown = "pending", shown' = shown, ~dropped,
                          p = "over" => t \in aborted
                   PROVE  \/ \E u \in Tasks : Unfinished(u)'
                          \/ \E c \in Actors : call[c].at \in {"spawn", "await", "reset"}
      BY DEF PendingIsTrue
    <2>2. CASE p = "over"
      BY <2>1, <2>2, <1>5 DEF SigningIsHeld, Unfinished
    <2>3. CASE p # "over"
      BY <1>2, <2>3 DEF Unfinished
    <2> QED
      BY <2>2, <2>3
  <1> QED
    BY <1>3, <1>4, <1>6, <1>7, <1>8

LEMMA HelperKeeps ==
    ASSUME ServiceInv, NEW t \in Tasks,
           HelperPrints(t) \/ HelperSucceeds(t) \/ HelperFails(t)
    PROVE  ServiceInv'
  <1>1. Unfinished(t) /\ phase[t] = "helping" /\ phase \in [Tasks -> Phases]
    BY DEF HelperPrints, HelperSucceeds, HelperFails, Unfinished, ServiceInv,
       TypeOK
  <1>2. CASE HelperPrints(t)
    <2>1. phase' = [phase EXCEPT ![t] = "helping"]
      BY <1>1, <1>2 DEF HelperPrints
    <2> QED
      BY <1>1, <1>2, <2>1, TaskStep DEF HelperPrints, ServiceInv, TypeOK
  <1>3. CASE HelperSucceeds(t)
    BY <1>1, <1>3, TaskStep DEF HelperSucceeds, ServiceInv, TypeOK
  <1>4. CASE HelperFails(t)
    BY <1>1, <1>4, TaskStep DEF HelperFails, ServiceInv, TypeOK
  <1> QED
    BY <1>2, <1>3, <1>4

LEMMA SettlesKeeps ==
    ASSUME ServiceInv, NEW t \in Tasks, Settles(t)
    PROVE  ServiceInv'
  <1>1. CASE TimesOut(t)
    BY <1>1, HelperKeeps DEF TimesOut
  <1>2. CASE TaskReports(t)
    BY <1>2, TaskStep DEF TaskReports, Unfinished, ServiceInv, TypeOK
  <1>3. CASE TaskDies(t)
    BY <1>3, TaskStep DEF TaskDies, ServiceInv, TypeOK
  <1> QED
    BY <1>1, <1>2, <1>3 DEF Settles

LEMMA CancelBeginsKeeps ==
    ASSUME ServiceInv, NEW c \in Actors, CancelBegins(c)
    PROVE  ServiceInv'
  <1>1. /\ call[c].at = "begin" /\ call[c].op \in {"cancel_login", "logout", "exit"}
        /\ call[c].takes = 0 /\ Up /\ signing = NoCaller /\ handle' = 0
        /\ UNCHANGED <<calls, process, settings, api, phase, shown, url, account,
                       retired>>
    BY UpNow, OrderlyNow DEF CancelBegins, WantsCancel, At, Orderly
  <1> USE DEF ServiceInv, TypeOK, At
  <1>2. CASE handle = 0
    <2> DEFINE r == [call[c] EXCEPT !.at = "reset"]
    <2>1. /\ call' = [call EXCEPT ![c] = r] /\ UNCHANGED <<signing, aborted>>
      BY <1>2 DEF CancelBegins, Goes
    <2>2. /\ r \in Call /\ r.at = "reset" /\ Orderly(r) /\ r.takes = 0
          /\ r.op = call[c].op
      BY <1>1, OrderlyNow DEF Call, Orderly
    <2> HIDE DEF r
    <2>3. /\ call' \in [Actors -> Call]
          /\ \A d \in Actors : call'[d] = IF d = c THEN r ELSE call[d]
          /\ RunningIsHeld' /\ DownHoldsNothing' /\ AddressIsLive'
          /\ SettingsAreSaved'
      BY <1>1, <2>1, <2>2, SigningStep
    <2> USE DEF process, settings, api
    <2>4. TypeOK'
      BY <1>1, <2>1, <2>3
    <2>5. SigningIsHeld'
      BY <1>1, <1>2, <2>1, <2>2, <2>3 DEF SigningIsHeld, Unfinished, Orderly
    <2>6. PendingIsTrue'
      BY <2>2, <2>3 DEF PendingIsTrue
    <2> QED
      BY <2>3, <2>4, <2>5, <2>6
  <1>3. CASE handle # 0
    <2> DEFINE r == [call[c] EXCEPT !.at = "await", !.takes = handle]
    <2>1. /\ call' = [call EXCEPT ![c] = r] /\ signing' = c
          /\ aborted' = aborted \cup {handle}
      BY <1>3 DEF CancelBegins
    <2>2. /\ r \in Call /\ r.at = "await" /\ Orderly(r) /\ r.takes = handle
          /\ r.op = call[c].op
      BY <1>1, TasksAssumption, OrderlyNow DEF Call, Orderly
    <2> HIDE DEF r
    <2>3. /\ call' \in [Actors -> Call]
          /\ \A d \in Actors : call'[d] = IF d = c THEN r ELSE call[d]
          /\ RunningIsHeld' /\ DownHoldsNothing' /\ AddressIsLive'
          /\ SettingsAreSaved'
      BY <1>1, <2>1, <2>2, SigningStep
    <2> USE DEF process, settings, api
    <2>4. TypeOK'
      BY <1>1, <1>3, <2>1, <2>3
    <2>5. SigningIsHeld'
      BY <1>1, <1>3, <2>1, <2>2, <2>3, ActorsAssumption
      DEF SigningIsHeld, Unfinished, Orderly
    <2>6. PendingIsTrue'
      BY <2>2, <2>3 DEF PendingIsTrue
    <2> QED
      BY <2>3, <2>4, <2>5, <2>6
  <1> QED
    BY <1>2, <1>3

LEMMA CancelWaitsKeeps ==
    ASSUME ServiceInv, NEW c \in Actors, CancelWaits(c)
    PROVE  ServiceInv'
  <1> DEFINE r == [call[c] EXCEPT !.at = "reset"]
  <1>1. call' = [call EXCEPT ![c] = r] /\ call[c].at = "await" /\ ~Unfinished(call[c].takes)
    BY DEF CancelWaits, Goes, At
  <1>2. /\ r \in Call /\ r.at = "reset" /\ Orderly(r) /\ Up
        /\ r.takes = call[c].takes /\ r.op = call[c].op
    BY <1>1, UpNow, OrderlyNow DEF Call, Orderly
  <1> HIDE DEF r
  <1>3. /\ signing' = NoCaller
        /\ UNCHANGED <<calls, process, settings, api, handle, phase, aborted,
                       shown, url, account, retired>>
    BY DEF CancelWaits
  <1>4. /\ call' \in [Actors -> Call]
        /\ \A d \in Actors : call'[d] = IF d = c THEN r ELSE call[d]
        /\ RunningIsHeld' /\ DownHoldsNothing' /\ AddressIsLive'
        /\ SettingsAreSaved'
    BY <1>1, <1>2, <1>3, SigningStep
  <1> USE DEF ServiceInv, TypeOK, process, settings, api, At
  <1>5. TypeOK'
    BY <1>3, <1>4
  <1>6. phase[call[c].takes] = "over" /\ call[c].takes \in Tasks
    BY <1>1 DEF SigningIsHeld, Unfinished, Phases
  <1>7. SigningIsHeld'
    BY <1>1, <1>2, <1>3, <1>4, <1>6, ActorsAssumption
    DEF SigningIsHeld, Unfinished, Orderly
  <1>8. PendingIsTrue'
    BY <1>2, <1>4 DEF PendingIsTrue
  <1> QED
    BY <1>4, <1>5, <1>7, <1>8

LEMMA CancelResetsKeeps ==
    ASSUME ServiceInv, NEW c \in Actors, CancelResets(c)
    PROVE  ServiceInv'
  <1> DEFINE place == AfterCancel(call[c].op)
             r == [call[c] EXCEPT !.takes = 0, !.at = place]
  <1>1. call' = [call EXCEPT ![c] = r] /\ call[c].at = "reset"
    BY DEF CancelResets, At
  <1>2. place \in {"look", "remove", "leave"}
    BY <1>1 DEF AfterCancel, ServiceInv, SigningIsHeld
  <1> HIDE DEF place
  <1>3. r \in Call /\ r.at = place /\ Orderly(r) /\ r.takes = 0 /\ Up
    BY <1>1, <1>2, UpNow, OrderlyNow DEF Call, Orderly
  <1> HIDE DEF r
  <1>4. /\ shown' = "idle" /\ url' = 0
        /\ retired' = retired \cup ({call[c].takes} \ {0})
        /\ UNCHANGED <<calls, process, settings, api, signing, handle, phase,
                       aborted, account>>
    BY DEF CancelResets
  <1>5. /\ call' \in [Actors -> Call]
        /\ \A d \in Actors : call'[d] = IF d = c THEN r ELSE call[d]
        /\ RunningIsHeld' /\ DownHoldsNothing' /\ AddressIsLive'
        /\ SettingsAreSaved'
    BY <1>1, <1>2, <1>3, <1>4, SigningStep
  <1> USE DEF ServiceInv, TypeOK, process, settings, api, At
  <1>6. \A t \in {call[c].takes} \ {0} : t \in Tasks /\ phase[t] = "over"
    BY <1>1 DEF SigningIsHeld
  <1>7. TypeOK'
    BY <1>4, <1>5, <1>6
  <1>8. SigningIsHeld'
    BY <1>1, <1>2, <1>3, <1>4, <1>5, <1>6 DEF SigningIsHeld, Unfinished, Orderly
  <1>9. PendingIsTrue'
    BY <1>4 DEF PendingIsTrue
  <1> QED
    BY <1>5, <1>7, <1>8, <1>9

-----------------------------------------------------------------------------
(* The theorems.                                                             *)

LEMMA InitEstablishes == Init => ServiceInv
  <1> SUFFICES ASSUME Init PROVE ServiceInv
    OBVIOUS
  <1> USE DEF Init, At
  <1>1. \A c \in Actors : /\ call[c] = Idle /\ call[c] \in Call
                          /\ call[c].at = "idle" /\ Orderly(call[c])
    BY IdleTyped
  <1>2. TypeOK
    BY <1>1 DEF TypeOK, Phases
  <1>3. RunningIsHeld /\ SigningIsHeld
    BY <1>1, ActorsAssumption DEF RunningIsHeld, SigningIsHeld, Orderly, Unfinished
  <1>4. DownHoldsNothing /\ AddressIsLive /\ PendingIsTrue /\ SettingsAreSaved
    BY <1>1 DEF DownHoldsNothing, AddressIsLive, PendingIsTrue, SettingsAreSaved,
       Unfinished, Up
  <1> QED
    BY <1>2, <1>3, <1>4 DEF ServiceInv

LEMMA StutterKeeps ==
    ASSUME ServiceInv, UNCHANGED vars
    PROVE  ServiceInv'
  BY DEF vars, ServiceInv, TypeOK, RunningIsHeld, SigningIsHeld,
     DownHoldsNothing, AddressIsLive, PendingIsTrue, SettingsAreSaved,
     Unfinished, Up, At

LEMMA NextKeeps == ServiceInv /\ [Next]_vars => ServiceInv'
  <1> SUFFICES ASSUME ServiceInv, [Next]_vars PROVE ServiceInv'
    OBVIOUS
  <1>1. ASSUME NEW mode \in {"serve", "window", "once"},
               NEW op \in Ops \cup {"none"}, NEW explicit \in BOOLEAN,
               Boot(mode, op, explicit)
        PROVE  ServiceInv'
    BY <1>1, BootKeeps
  <1>2. CASE Crash \/ OnceEnds \/ ExitEnds
    BY <1>2, EndsKeeps DEF Crash, OnceEnds, ExitEnds
  <1>3. CASE LoopEnds \/ Quit
    BY <1>3, LeavesKeeps DEF LoopEnds, Quit, Up
  <1>4. ASSUME NEW c \in Callers, Drop(c) \/ \E op \in Ops : Ask(c, op) \/ Dial(c, op)
        PROVE  ServiceInv'
    BY <1>4, DropKeeps, AskKeeps, DialKeeps
  <1>5. ASSUME NEW c \in Actors, Works(c)
        PROVE  ServiceInv'
    <2>1. CASE Connect(c) \/ StatusReads(c) \/ StatusLooks(c)
      BY <2>1, ConnectKeeps, StatusReadsKeeps, StatusLooksKeeps
    <2>2. CASE StartBegins(c) \/ StartServes(c) \/ StartFails(c)
      BY <2>2, StartBeginsKeeps, StartServesKeeps, StartFailsKeeps
    <2>3. CASE StopFindsNone(c) \/ StopBegins(c) \/ Drained(c) \/ StopTimesOut(c)
      BY <2>3, StopFindsNoneKeeps, StopBeginsKeeps, StopEndsKeeps
      DEF Drained, StopTimesOut
    <2>4. CASE LoginRefused(c) \/ LoginBegins(c) \/ LoginMarks(c) \/ LoginSpawns(c)
      BY <2>4, LoginRefusedKeeps, LoginBeginsKeeps, LoginMarksKeeps,
         LoginSpawnsKeeps
    <2>5. CASE CancelBegins(c) \/ CancelWaits(c) \/ CancelResets(c) \/ LogoutRemoves(c)
      BY <2>5, CancelBeginsKeeps, CancelWaitsKeeps, CancelResetsKeeps,
         LogoutRemovesKeeps
    <2>6. CASE Configure(c) \/ Port(c)
      BY <2>6, ConfigureKeeps, PortKeeps
    <2> QED
      BY <1>5, <2>1, <2>2, <2>3, <2>4, <2>5, <2>6 DEF Works
  <1>6. ASSUME NEW t \in Tasks,
               \/ HelperPrints(t) \/ HelperSucceeds(t) \/ HelperFails(t)
               \/ Settles(t)
        PROVE  ServiceInv'
    BY <1>6, HelperKeeps, SettlesKeeps
  <1>7. CASE UNCHANGED vars
    BY <1>7, StutterKeeps
  <1> QED
    BY <1>1, <1>2, <1>3, <1>4, <1>5, <1>6, <1>7 DEF Next

\* What each lock of the service protects is true at every await: the inductive
\* invariant (service.rs, Relay.running and Relay.login_task).
THEOREM ServiceInvariant == Spec => []ServiceInv
  <1>1. Init => ServiceInv
    BY InitEstablishes
  <1>2. ServiceInv /\ [Next]_vars => ServiceInv'
    BY NextKeeps
  <1> QED
    BY <1>1, <1>2, PTL DEF Spec

\* Whoever reads control.json is sent to the server that runs, unless a process
\* that crashed left the file behind (service.rs, start and stop).
THEOREM AddressOfTheServer == Spec => []AddressIsLive
  <1>1. ServiceInv => AddressIsLive
    BY DEF ServiceInv
  <1> QED
    BY <1>1, ServiceInvariant, PTL

\* Two sign-ins never compete (service.rs, begin_login and cancel_login).
THEOREM OneSignInAtATime == Spec => []OneSignIn
  <1>1. ServiceInv => OneSignIn
    BY DEF ServiceInv, SigningIsHeld, OneSignIn
  <1> QED
    BY <1>1, ServiceInvariant, PTL

\* A sign-in shown as pending is under way (service.rs, login_state).
THEOREM PendingSignIns == Spec => []PendingIsTrue
  <1>1. ServiceInv => PendingIsTrue
    BY DEF ServiceInv
  <1> QED
    BY <1>1, ServiceInvariant, PTL

\* A sign-in whose cancellation was answered installs no credentials
\* (service.rs, cancel_login awaits the task it aborted).
THEOREM CancelledSignIns == Spec => CancelledNeverSignsIn
  <1> DEFINE Kept == \A t \in retired : account' = t => account = t
  <1>1. ServiceInv /\ [Next]_vars => [Kept]_vars
    <2> SUFFICES ASSUME ServiceInv, Next, NEW t \in retired, account' = t,
                        account # t
                 PROVE  FALSE
      BY DEF vars
    <2>1. phase[t] = "over" /\ t \in Tasks /\ t # 0
      BY TasksAssumption DEF ServiceInv, TypeOK, SigningIsHeld
    <2>2. PICK u \in Tasks : HelperSucceeds(u)
      BY <2>1 DEF Next, Boot, Crash, OnceEnds, ExitEnds, Ends, LoopEnds, Quit,
         Leaves, Drop, Ask, Dial, Works, Connect, StatusReads, StatusLooks,
         StartBegins, StartServes, StartFails, StopFindsNone, StopBegins,
         Drained, StopTimesOut, StopEnds, LoginRefused, LoginBegins, LoginMarks,
         LoginSpawns, CancelBegins, CancelWaits, CancelResets, LogoutRemoves,
         Configure, Port, HelperPrints, HelperFails, Settles, TimesOut,
         TaskReports, TaskDies, signIn
    <2> QED
      BY <2>1, <2>2 DEF HelperSucceeds
  <1>2. []ServiceInv /\ [][Next]_vars => [][Kept]_vars
    BY <1>1, PTL
  <1> QED
    BY <1>2, ServiceInvariant, PTL DEF Spec, CancelledNeverSignsIn

=============================================================================
