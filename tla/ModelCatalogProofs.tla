------------------------- MODULE ModelCatalogProofs -------------------------
(* Proofs about ModelCatalog, for any readers, slots, times and bounds. *)
EXTENDS ModelCatalog, TLAPS

\* No entry is an answer of a slot.
LEMMA NoEntryIsNone ==
    /\ NoEntry \notin Entries
    /\ NoEntry.slot = NoSlot
  BY SlotsAssumption DEF NoEntry, Entries

\* Relabelling an answer keeps everything else about it.
LEMMA Relabelled ==
    ASSUME NEW e \in Entries, NEW superseded \in BOOLEAN
    PROVE  /\ [e EXCEPT !.superseded = superseded] \in Entries
           /\ [e EXCEPT !.superseded = superseded].slot = e.slot
           /\ [e EXCEPT !.superseded = superseded].grant = e.grant
           /\ [e EXCEPT !.superseded = superseded].superseded = superseded
           /\ [e EXCEPT !.superseded = superseded] # NoEntry
  BY NoEntryIsNone DEF Entries

\* "The order is immaterial" (apply_pending): a credential change only removes
\* its own slot's answer, and a switch only relabels whatever answer is left.
THEOREM OrderIsImmaterial ==
    ASSUME NEW changed \in SUBSET Slots, NEW selected \in Slots \cup {NoSlot},
           NEW state \in [entry : Entries \cup {NoEntry},
                          attempt : Nat \cup {Never}]
    PROVE  ApplySwitch(selected, ApplyCredentials(changed, state))
             = ApplyCredentials(changed, ApplySwitch(selected, state))
  <1> USE SlotsAssumption, NoEntryIsNone DEF ApplySwitch, ApplyCredentials
  <1>1. CASE changed = {}
    BY <1>1, Zenon
  <1>2. CASE changed # {} /\ selected = NoSlot
    BY <1>2
  <1>3. CASE changed # {} /\ selected # NoSlot /\ state.entry = NoEntry
    BY <1>3
  <1>4. CASE changed # {} /\ selected # NoSlot /\ state.entry # NoEntry
    <2> DEFINE superseded == state.entry.slot # selected
               relabelled == [state.entry EXCEPT !.superseded = superseded]
    <2>1. state.entry \in Entries
      BY <1>4
    <2>2. relabelled \in Entries /\ relabelled.slot = state.entry.slot
          /\ relabelled # NoEntry
      <3>1. superseded \in BOOLEAN
        OBVIOUS
      <3> HIDE DEF superseded
      <3> QED
        BY <2>1, <3>1, Relabelled
    <2>3. \E attempt : ApplySwitch(selected, state)
                         = [entry |-> relabelled, attempt |-> attempt]
      BY <1>4, Zenon
    <2> HIDE DEF relabelled
    <2>4. CASE state.entry.slot \in changed
      <3>1. ApplyCredentials(changed, state)
              = [entry |-> NoEntry, attempt |-> Never]
        BY <1>4, <2>4
      <3>2. ApplySwitch(selected, [entry |-> NoEntry, attempt |-> Never])
              = [entry |-> NoEntry, attempt |-> Never]
        BY <1>4
      <3>3. ApplyCredentials(changed, ApplySwitch(selected, state))
              = [entry |-> NoEntry, attempt |-> Never]
        BY <1>4, <2>2, <2>3, <2>4 DEF ApplyCredentials
      <3> QED
        BY <3>1, <3>2, <3>3
    <2>5. CASE state.entry.slot \notin changed
      <3>1. ApplyCredentials(changed, state)
              = [entry |-> state.entry, attempt |-> Never]
        BY <1>4, <2>5
      <3>2. ApplySwitch(selected, [entry |-> state.entry, attempt |-> Never])
              = [entry |-> relabelled, attempt |-> Never]
        BY <1>4 DEF relabelled
      <3>3. ApplyCredentials(changed, ApplySwitch(selected, state))
              = [entry |-> relabelled, attempt |-> Never]
        BY <1>4, <2>2, <2>3, <2>5
      <3> QED
        BY <3>1, <3>2, <3>3
    <2> QED
      BY <2>4, <2>5
  <1> QED
    BY <1>1, <1>2, <1>3, <1>4

-----------------------------------------------------------------------------
(* The state the next reader will find.                                      *)

\* What is left of an entry once the credentials of `changed` are gone and the
\* operator has selected `selected`.
Left(e, changed, selected) ==
    IF e.slot \in changed \/ e = NoEntry THEN NoEntry
    ELSE IF selected = NoSlot THEN e
    ELSE [e EXCEPT !.superseded = e.slot # selected]

\* When the cooldown counts from after the same.
LeftAttempt(e, attempt, changed, selected) ==
    IF \/ changed # {}
       \/ selected # NoSlot /\ (e = NoEntry \/ e.slot # selected)
    THEN Never ELSE attempt

\* What a reader applies, field by field.
LEMMA AppliedFields ==
    ASSUME NEW e \in Entries \cup {NoEntry}, NEW attempt,
           NEW changed \in SUBSET Slots, NEW selected
    PROVE  LET old == [entry |-> e, attempt |-> attempt]
               applied == ApplySwitch(selected, ApplyCredentials(changed, old))
           IN  /\ applied.entry = Left(e, changed, selected)
               /\ applied.attempt = LeftAttempt(e, attempt, changed, selected)
  <1> DEFINE old == [entry |-> e, attempt |-> attempt]
             kept == ApplyCredentials(changed, old)
  <1>1. e.slot \in Slots <=> e # NoEntry
    BY SlotsAssumption, NoEntryIsNone DEF Entries
  <1>2. kept.entry = IF e.slot \in changed THEN NoEntry ELSE e
    BY DEF ApplyCredentials
  <1>3. kept.attempt = IF changed # {} THEN Never ELSE attempt
    BY DEF ApplyCredentials
  <1>4. kept = [entry |-> kept.entry, attempt |-> kept.attempt]
    BY DEF ApplyCredentials
  <1>5. NoEntry.slot \notin changed
    BY SlotsAssumption, NoEntryIsNone
  <1> HIDE DEF kept
  <1>6. ApplySwitch(selected, kept).entry = Left(e, changed, selected)
    BY <1>1, <1>2, <1>5 DEF ApplySwitch, Left
  <1>7. ApplySwitch(selected, kept).attempt
          = LeftAttempt(e, attempt, changed, selected)
    BY <1>1, <1>2, <1>3, <1>4, <1>5 DEF ApplySwitch, LeftAttempt
  <1> QED
    BY <1>6, <1>7 DEF kept

\* What is left of an entry is typed and names its slot and its credentials.
LEMMA LeftTyped ==
    ASSUME NEW e \in Entries \cup {NoEntry},
           NEW changed \in SUBSET Slots, NEW selected
    PROVE  /\ Left(e, changed, selected) \in Entries \cup {NoEntry}
           /\ Left(e, changed, selected) # NoEntry =>
                /\ e # NoEntry
                /\ Left(e, changed, selected).slot = e.slot
                /\ Left(e, changed, selected).grant = e.grant
                /\ e.slot \notin changed
                /\ Left(e, changed, selected).superseded
                     = IF selected = NoSlot THEN e.superseded
                       ELSE e.slot # selected
  <1> DEFINE superseded == e.slot # selected
  <1>1. superseded \in BOOLEAN
    OBVIOUS
  <1>2. CASE e.slot \in changed \/ e = NoEntry
    BY <1>2 DEF Left
  <1>3. CASE e.slot \notin changed /\ e # NoEntry /\ selected = NoSlot
    BY <1>3 DEF Left
  <1>4. CASE e.slot \notin changed /\ e # NoEntry /\ selected # NoSlot
    <2>1. Left(e, changed, selected) = [e EXCEPT !.superseded = superseded]
      BY <1>4, Zenon DEF Left
    <2>2. e \in Entries
      BY <1>4
    <2> HIDE DEF superseded
    <2>3. /\ Left(e, changed, selected) \in Entries
          /\ Left(e, changed, selected).slot = e.slot
          /\ Left(e, changed, selected).grant = e.grant
          /\ Left(e, changed, selected).superseded = superseded
      BY <2>1, <2>2, <1>1, Relabelled
    <2> QED
      BY <2>3, <1>4 DEF superseded
  <1> QED
    BY <1>2, <1>3, <1>4

\* Current, field by field.
LEMMA CurrentFields ==
    ASSUME TypeOK
    PROVE  /\ Current.entry = Left(entry, pendingCredentials, pendingSwitch)
           /\ Current.attempt = LeftAttempt(entry, lastAttempt,
                                            pendingCredentials, pendingSwitch)
  BY AppliedFields DEF Current, TypeOK

\* The same in the next state.
LEMMA CurrentFieldsNext ==
    ASSUME TypeOK'
    PROVE  /\ Current'.entry = Left(entry', pendingCredentials', pendingSwitch')
           /\ Current'.attempt = LeftAttempt(entry', lastAttempt',
                                             pendingCredentials', pendingSwitch')
  BY AppliedFields DEF Current, TypeOK

-----------------------------------------------------------------------------
(* Types.                                                                    *)

\* Whatever entry a reader is shown, its state is typed.
LEMMA AnswerTyped ==
    ASSUME TypeOK, NEW r \in Readers, NEW e \in Entries \cup {NoEntry}
    PROVE  Answer(r, e) \in Reader
  <1>1. SourceOf(e) \in Sources
    BY DEF SourceOf, Sources
  <1>2. e.slot \in Slots \cup {NoSlot}
    BY NoEntryIsNone DEF Entries
  <1>3. reader[r].ask \in Questions
    BY DEF TypeOK, Reader
  <1> QED
    BY <1>1, <1>2, <1>3 DEF Answer, Idle, Reader

\* A reader that has its turn keeps the types.
LEMMA EnterKeepsType ==
    ASSUME TypeOK, NEW r \in Readers, Enter(r)
    PROVE  TypeOK'
  <1>1. /\ entry' \in Entries \cup {NoEntry}
        /\ Current.attempt \in Nat \cup {Never}
    BY LeftTyped, CurrentFields DEF TypeOK, Enter, LeftAttempt
  <1>2. Answer(r, entry') \in Reader
    BY <1>1, AnswerTyped
  <1>3. [reader[r] EXCEPT !.pc = "leasing"] \in Reader
    BY DEF TypeOK, Reader
  <1>4. reader' \in [Readers -> Reader]
    BY <1>2, <1>3 DEF Enter, Become, TypeOK
  <1>5. /\ lastAttempt' \in Nat \cup {Never}
        /\ inner' \in Readers \cup {NoReader}
        /\ asked' \in Nat \cup {Never} /\ reported' \in BOOLEAN
    BY <1>1 DEF Enter, TypeOK, history
  <1> QED
    BY <1>1, <1>4, <1>5 DEF TypeOK, Enter, router

\* Every step keeps the types.
LEMMA NextKeepsType ==
    ASSUME TypeOK, RetiredIsPending, [Next]_vars
    PROVE  TypeOK'
  <1> USE DEF pending, router, history
  <1>1. ASSUME NEW r \in Readers, NEW ask \in {"snapshot", "known", "status"},
               Ask(r, ask)
        PROVE  TypeOK'
    <2>1. [Idle EXCEPT !.pc = "waiting", !.ask = ask] \in Reader
      BY DEF Idle, Reader, Questions, Sources
    <2> QED
      BY <1>1, <2>1 DEF TypeOK, Ask, Become
  <1>2. ASSUME NEW r \in Readers, Lease(r)
        PROVE  TypeOK'
    <2>1. PICK s \in Slots :
            Become(r, [reader[r] EXCEPT !.pc = "fetching", !.slot = s,
                                        !.grant = held[s]])
      BY <1>2 DEF Lease
    <2>2. [reader[r] EXCEPT !.pc = "fetching", !.slot = s, !.grant = held[s]]
            \in Reader
      BY DEF TypeOK, Reader
    <2> QED
      BY <1>2, <2>1, <2>2 DEF TypeOK, Lease, Become
  <1>3. ASSUME NEW r \in Readers, FetchSucceeds(r)
        PROVE  TypeOK'
    <2>1. entry' \in Entries
      BY <1>3 DEF TypeOK, FetchSucceeds, Entries, Reader, RetiredIsPending
    <2>2. Answer(r, entry') \in Reader
      BY <2>1, AnswerTyped
    <2> QED
      BY <1>3, <2>1, <2>2 DEF TypeOK, FetchSucceeds, Become
  <1>4. ASSUME NEW r \in Readers, FetchFails(r)
        PROVE  TypeOK'
    <2>1. Answer(r, entry) \in Reader
      BY AnswerTyped DEF TypeOK
    <2> QED
      BY <1>4, <2>1 DEF TypeOK, FetchFails, Become
  <1>5. ASSUME NEW r \in Readers, Miss(r)
        PROVE  TypeOK'
    <2>1. [Idle EXCEPT !.pc = "waiting", !.ask = "forced"] \in Reader
      BY DEF Idle, Reader, Questions, Sources
    <2> QED
      BY <1>5, <2>1 DEF TypeOK, Miss, Become
  <1>6. ASSUME NEW r \in Readers, Finish(r) \/ Drop(r)
        PROVE  TypeOK'
    <2>1. Idle \in Reader
      BY DEF Idle, Reader, Questions, Sources
    <2> QED
      BY <1>6, <2>1 DEF TypeOK, Finish, Drop, Become
  <1>7. ASSUME NEW s \in Slots, Switch(s) \/ SignIn(s) \/ SignOut(s)
        PROVE  TypeOK'
    <2>1. reported' \in BOOLEAN /\ UNCHANGED <<clock, entry, lastAttempt, inner,
                                              reader, asked>>
      BY <1>7 DEF Switch, SignIn, SignOut, Report
    <2>2. held' \in [Slots -> Nat] /\ grants' \in Nat
      BY <1>7 DEF TypeOK, Switch, SignIn, SignOut
    <2>3. pendingSwitch' \in Slots \cup {NoSlot} /\ pendingCredentials' \subseteq Slots
      BY <1>7 DEF TypeOK, Switch, SignIn, SignOut, Report
    <2> QED
      BY <2>1, <2>2, <2>3 DEF TypeOK
  <1>8. ASSUME Tick
        PROVE  TypeOK'
    BY <1>8 DEF TypeOK, Tick
  <1>9. CASE UNCHANGED vars
    BY <1>9 DEF TypeOK, vars
  <1> QED
    BY <1>1, <1>2, <1>3, <1>4, <1>5, <1>6, <1>7, <1>8, <1>9, EnterKeepsType
       DEF Next, Step

-----------------------------------------------------------------------------
(* Retired credentials are on record.                                        *)

\* A step of one reader that changes neither the credentials nor what is
\* pending keeps RetiredIsPending if it does so for that reader.
LEMMA ReaderStep ==
    ASSUME TypeOK, RetiredIsPending, NEW r \in Readers, NEW state,
           Become(r, state),
           UNCHANGED <<held, entry, pendingCredentials>>,
           inner' \in {inner, NoReader, r},
           inner # r /\ inner # NoReader => inner' = inner,
           state.pc \in {"leasing", "fetching"} <=> inner' = r,
           state.pc = "fetching" => /\ state.slot \in Slots
                                    /\ state.grant = held[state.slot]
    PROVE  RetiredIsPending'
  <1>1. ASSUME NEW q \in Readers
        PROVE  /\ reader'[q].pc \in {"leasing", "fetching"} <=> inner' = q
               /\ reader'[q].pc = "fetching" =>
                    /\ reader'[q].slot \in Slots
                    /\ \/ reader'[q].grant = held'[reader'[q].slot]
                       \/ reader'[q].slot \in pendingCredentials'
    <2>1. CASE q = r
      BY <2>1 DEF Become, TypeOK
    <2>2. CASE q # r
      <3>1. reader'[q] = reader[q]
        BY <2>2 DEF Become, TypeOK
      <3>2. inner' = q <=> inner = q
        BY <2>2, ReadersAssumption
      <3> QED
        BY <3>1, <3>2 DEF RetiredIsPending
    <2> QED
      BY <2>1, <2>2
  <1> QED
    BY <1>1 DEF RetiredIsPending

\* Every step of the catalog keeps what credentials changed on record.
LEMMA NextKeepsRetired ==
    ASSUME TypeOK, RetiredIsPending, [Next]_vars
    PROVE  RetiredIsPending'
  <1> USE DEF pending, router, history
  <1>1. ASSUME NEW r \in Readers, NEW ask, Ask(r, ask)
        PROVE  RetiredIsPending'
    BY <1>1, ReaderStep DEF Ask, Idle, RetiredIsPending
  <1>2. ASSUME NEW r \in Readers, Enter(r)
        PROVE  RetiredIsPending'
    <2>1. entry' = Left(entry, pendingCredentials, pendingSwitch)
      BY <1>2, CurrentFields DEF Enter
    <2>2. entry' # NoEntry => entry'.grant = held'[entry'.slot]
      <3>1. /\ entry \in Entries \cup {NoEntry} /\ pendingCredentials \in SUBSET Slots
            /\ held' = held
        BY <1>2 DEF Enter, TypeOK
      <3>2. entry' # NoEntry =>
                /\ entry # NoEntry /\ entry.slot \notin pendingCredentials
                /\ entry'.slot = entry.slot /\ entry'.grant = entry.grant
        BY <2>1, <3>1, LeftTyped
      <3> QED
        BY <3>1, <3>2 DEF RetiredIsPending
    <2>3. /\ inner = NoReader
          /\ \A q \in Readers : reader[q].pc \notin {"leasing", "fetching"}
      BY <1>2, ReadersAssumption DEF Enter, RetiredIsPending
    <2>4. \/ inner' = r /\ reader' = [reader EXCEPT ![r].pc = "leasing"]
          \/ /\ inner' = NoReader
             /\ \E e : reader' = [reader EXCEPT ![r] = Answer(r, e)]
      <3>1. reader[r] \in Reader
        BY DEF TypeOK
      <3> QED
        BY <1>2, <2>3, <3>1 DEF Enter, Become, TypeOK
    <2>5. ASSUME NEW q \in Readers
          PROVE  /\ reader'[q].pc \in {"leasing", "fetching"} <=> inner' = q
                 /\ reader'[q].pc # "fetching"
      <3>1. reader \in [Readers -> Reader]
        BY DEF TypeOK
      <3>2. CASE inner' = r /\ reader' = [reader EXCEPT ![r].pc = "leasing"]
        BY <2>3, <3>1, <3>2 DEF Reader
      <3>3. CASE /\ inner' = NoReader
                 /\ \E e : reader' = [reader EXCEPT ![r] = Answer(r, e)]
        BY <2>3, <3>1, <3>3, ReadersAssumption DEF Answer, Idle
      <3> QED
        BY <2>4, <3>2, <3>3
    <2> QED
      BY <2>2, <2>5 DEF RetiredIsPending
  <1>3. ASSUME NEW r \in Readers, Lease(r)
        PROVE  RetiredIsPending'
    <2>1. PICK s \in Slots :
            Become(r, [reader[r] EXCEPT !.pc = "fetching", !.slot = s,
                                        !.grant = held[s]])
      BY <1>3 DEF Lease
    <2> DEFINE state == [reader[r] EXCEPT !.pc = "fetching", !.slot = s,
                                          !.grant = held[s]]
    <2>2. state.pc = "fetching" /\ state.slot = s /\ state.grant = held[s]
      BY DEF TypeOK, Reader
    <2> HIDE DEF state
    <2> QED
      BY <1>3, <2>1, <2>2, ReaderStep DEF Lease, RetiredIsPending, state
  <1>4. ASSUME NEW r \in Readers, FetchSucceeds(r)
        PROVE  RetiredIsPending'
    <2>1. /\ inner = r
          /\ \A q \in Readers : q # r => reader[q].pc \notin {"leasing", "fetching"}
      BY <1>4 DEF FetchSucceeds, RetiredIsPending
    <2>2. \/ entry'.grant = held'[entry'.slot]
          \/ entry'.slot \in pendingCredentials'
      BY <1>4 DEF FetchSucceeds, RetiredIsPending
    <2>3. ASSUME NEW q \in Readers
          PROVE  reader'[q].pc \notin {"leasing", "fetching"} /\ inner' # q
      BY <1>4, <2>1, ReadersAssumption
         DEF FetchSucceeds, Become, TypeOK, Answer, Idle
    <2> QED
      BY <2>2, <2>3 DEF RetiredIsPending
  <1>5. ASSUME NEW r \in Readers, FetchFails(r)
        PROVE  RetiredIsPending'
    <2>1. Answer(r, entry).pc = "answered"
      BY DEF Answer, Idle
    <2>2. inner = r
      BY <1>5 DEF FetchFails, RetiredIsPending
    <2> QED
      BY <1>5, <2>1, <2>2, ReaderStep, ReadersAssumption DEF FetchFails
  <1>6. ASSUME NEW r \in Readers, Miss(r) \/ Finish(r)
        PROVE  RetiredIsPending'
    BY <1>6, ReaderStep DEF Miss, Finish, Idle, RetiredIsPending
  <1>7. ASSUME NEW r \in Readers, Drop(r)
        PROVE  RetiredIsPending'
    BY <1>7, ReaderStep, ReadersAssumption DEF Drop, Idle
  <1>8. ASSUME NEW s \in Slots, Switch(s)
        PROVE  RetiredIsPending'
    BY <1>8 DEF Switch, RetiredIsPending
  <1>9. ASSUME NEW s \in Slots, SignIn(s) \/ SignOut(s)
        PROVE  RetiredIsPending'
    <2>1. /\ pendingCredentials' = pendingCredentials \cup {s}
          /\ UNCHANGED <<entry, inner, reader>>
          /\ \A o \in Slots : o # s => held'[o] = held[o]
      BY <1>9 DEF SignIn, SignOut, Report, TypeOK
    <2>2. entry # NoEntry => entry.slot \in Slots
      BY DEF TypeOK, Entries
    <2> QED
      BY <2>1, <2>2 DEF RetiredIsPending
  <1>10. CASE Tick \/ UNCHANGED vars
    BY <1>10 DEF Tick, vars, RetiredIsPending
  <1> QED
    BY <1>1, <1>2, <1>3, <1>4, <1>5, <1>6, <1>7, <1>8, <1>9, <1>10
       DEF Next, Step

-----------------------------------------------------------------------------
(* The cooldown, and what lifts it.                                          *)

\* A retired or superseded answer leaves no cooldown behind.
LEMMA RetiringLifts ==
    ASSUME NEW e \in Entries \cup {NoEntry}, NEW attempt,
           NEW changed \in SUBSET Slots, NEW selected,
           selected = NoSlot => e # NoEntry /\ ~e.superseded,
           \/ Left(e, changed, selected) = NoEntry
           \/ Left(e, changed, selected).superseded
    PROVE  LeftAttempt(e, attempt, changed, selected) = Never
  <1>1. CASE Left(e, changed, selected) # NoEntry
    BY <1>1, LeftTyped DEF LeftAttempt
  <1>2. CASE e = NoEntry
    BY <1>2 DEF LeftAttempt
  <1>3. CASE e \in Entries /\ e.slot \notin changed
    <2>1. Left(e, changed, selected) # NoEntry
      <3> DEFINE superseded == e.slot # selected
      <3>1. superseded \in BOOLEAN
        OBVIOUS
      <3>2. Left(e, changed, selected) \in {e, [e EXCEPT !.superseded = superseded]}
        BY <1>3, NoEntryIsNone DEF Left
      <3> HIDE DEF superseded
      <3> QED
        BY <1>3, <3>1, <3>2, Relabelled, NoEntryIsNone
    <2> QED
      BY <1>1, <2>1
  <1>4. CASE e.slot \in changed
    BY <1>4 DEF LeftAttempt
  <1> QED
    BY <1>2, <1>3, <1>4

\* Every step of the catalog keeps the account of what lifts the cooldown.
LEMMA NextKeepsCooldown ==
    ASSUME TypeOK, TypeOK', RetiredIsPending, CooldownLiftedByReports,
           [Next]_vars
    PROVE  CooldownLiftedByReports'
  <1> USE DEF pending, router, history
  <1>1. ASSUME UNCHANGED <<entry, lastAttempt, pending, history>>
        PROVE  CooldownLiftedByReports'
    <2>1. Current' = Current
      BY <1>1 DEF Current
    <2> QED
      BY <1>1, <2>1 DEF CooldownLiftedByReports
  <1>2. ASSUME NEW r \in Readers, Enter(r)
        PROVE  CooldownLiftedByReports'
    <2>1. /\ entry' = Current.entry
          /\ pendingSwitch' = NoSlot /\ pendingCredentials' = {}
      BY <1>2 DEF Enter
    <2>2. Current'.entry = Current.entry /\ Current'.attempt = lastAttempt'
      BY <2>1, CurrentFieldsNext DEF Left, LeftAttempt
    <2>3. CASE Due(reader[r].ask, Current)
      BY <1>2, <2>1, <2>2, <2>3 DEF Enter, CooldownLiftedByReports
    <2>4. CASE ~Due(reader[r].ask, Current)
      <3>1. /\ lastAttempt' = Current.attempt
            /\ UNCHANGED <<asked, reported>>
        BY <1>2, <2>4 DEF Enter
      <3>2. Current.attempt \in {lastAttempt, Never}
        BY CurrentFields DEF LeftAttempt
      <3>3. /\ Current.attempt # lastAttempt =>
                 pendingSwitch # NoSlot \/ pendingCredentials # {}
        BY CurrentFields DEF LeftAttempt
      <3> QED
        BY <2>1, <2>2, <3>1, <3>2, <3>3 DEF CooldownLiftedByReports
    <2> QED
      BY <2>3, <2>4
  <1>3. ASSUME NEW r \in Readers, FetchSucceeds(r)
        PROVE  CooldownLiftedByReports'
    <2>1. /\ entry'.superseded = FALSE /\ entry'.slot \in Slots
          /\ UNCHANGED <<lastAttempt, pendingSwitch, pendingCredentials, asked,
                         reported>>
      BY <1>3 DEF FetchSucceeds, RetiredIsPending
    <2>2. entry' \in Entries \cup {NoEntry} /\ entry' # NoEntry
      BY <2>1, NoEntryIsNone, SlotsAssumption DEF TypeOK
    <2>3. pendingCredentials \in SUBSET Slots
      BY DEF TypeOK
    <2>4. ASSUME \/ Left(entry', pendingCredentials, pendingSwitch) = NoEntry
                 \/ Left(entry', pendingCredentials, pendingSwitch).superseded
          PROVE  LeftAttempt(entry', lastAttempt, pendingCredentials,
                             pendingSwitch) = Never
      BY <2>1, <2>2, <2>3, <2>4, RetiringLifts
    <2> QED
      BY <2>1, <2>4, CurrentFieldsNext DEF CooldownLiftedByReports
  <1>4. ASSUME NEW s \in Slots, Switch(s)
        PROVE  CooldownLiftedByReports'
    <2>1. /\ pendingSwitch' = s /\ reported' = TRUE
          /\ UNCHANGED <<entry, lastAttempt, pendingCredentials, asked>>
      BY <1>4 DEF Switch
    <2>2. ASSUME Left(entry, pendingCredentials, s) = NoEntry
                 \/ Left(entry, pendingCredentials, s).superseded
          PROVE  LeftAttempt(entry, lastAttempt, pendingCredentials, s) = Never
      <3>1. entry \in Entries \cup {NoEntry} /\ pendingCredentials \in SUBSET Slots
        BY DEF TypeOK
      <3> QED
        BY <2>2, <3>1, SlotsAssumption, RetiringLifts
    <2> QED
      BY <2>1, <2>2, CurrentFieldsNext DEF CooldownLiftedByReports
  <1>5. ASSUME NEW s \in Slots, SignIn(s) \/ SignOut(s)
        PROVE  CooldownLiftedByReports'
    <2>1. /\ pendingCredentials' # {} /\ reported' = TRUE
          /\ UNCHANGED <<lastAttempt, asked>>
      BY <1>5 DEF SignIn, SignOut, Report
    <2>2. Current'.attempt = Never
      BY <2>1, CurrentFieldsNext DEF LeftAttempt
    <2> QED
      BY <2>1, <2>2 DEF CooldownLiftedByReports
  <1> QED
    BY <1>1, <1>2, <1>3, <1>4, <1>5
       DEF Next, Step, Ask, Lease, FetchFails, Miss, Finish, Drop, Tick, vars

-----------------------------------------------------------------------------
(* What holds of every behaviour.                                            *)

\* The variables start typed.
LEMMA CatalogTypeAtInit ==
    ASSUME Init
    PROVE  TypeOK
  <1>1. Idle \in Reader
    BY DEF Idle, Reader, Questions, Sources
  <1>2. reader \in [Readers -> Reader] /\ held \in [Slots -> Nat]
    BY <1>1 DEF Init
  <1>3. reported \in BOOLEAN
    BY DEF Init
  <1> QED
    BY <1>2, <1>3 DEF Init, TypeOK, Never

\* The inductive invariant.
THEOREM CatalogInvariant == Spec => []CatalogInv
  <1>1. Init => CatalogInv
    <2> SUFFICES ASSUME Init PROVE CatalogInv
      OBVIOUS
    <2>1. TypeOK
      BY CatalogTypeAtInit
    <2>2. RetiredIsPending
      BY ReadersAssumption DEF Init, RetiredIsPending, Idle
    <2>3. /\ ~reported /\ pendingSwitch = NoSlot /\ pendingCredentials = {}
          /\ lastAttempt = asked /\ asked = Never
      BY DEF Init
    <2>4. CooldownLiftedByReports
      BY <2>3, Zenon DEF CooldownLiftedByReports
    <2> QED
      BY <2>1, <2>2, <2>4 DEF CatalogInv
  <1>2. CatalogInv /\ [Next]_vars => CatalogInv'
    BY NextKeepsType, NextKeepsRetired, NextKeepsCooldown DEF CatalogInv
  <1> QED
    BY <1>1, <1>2, PTL DEF Spec

\* Every variable keeps its type.
THEOREM CatalogTypeCorrect == Spec => []TypeOK
  <1>1. CatalogInv => TypeOK
    BY DEF CatalogInv
  <1> QED
    BY <1>1, CatalogInvariant, PTL

\* The list the next reader is shown was fetched with credentials that the slot
\* it names still holds.
THEOREM RetiredListsAreGone == Spec => []NoRetiredList
  <1>1. CatalogInv => NoRetiredList
    <2> SUFFICES ASSUME CatalogInv, Current.entry # NoEntry
                 PROVE  Current.entry.grant = held[Current.entry.slot]
      BY DEF NoRetiredList
    <2>1. Current.entry = Left(entry, pendingCredentials, pendingSwitch)
      BY CurrentFields DEF CatalogInv
    <2> QED
      BY <2>1, LeftTyped DEF CatalogInv, TypeOK, RetiredIsPending
  <1> QED
    BY <1>1, CatalogInvariant, PTL

\* Only the reader's own turn takes it from waiting to its answer.
LEMMA OnlyEnterAnswers ==
    ASSUME CatalogInv, Next, NEW r \in Readers,
           reader[r].pc = "waiting", reader'[r].pc \in {"leasing", "answered"}
    PROVE  Enter(r)
  <1> USE DEF CatalogInv, TypeOK, Become
  <1>1. ASSUME NEW q \in Readers, NEW ask, Ask(q, ask)
        PROVE  FALSE
    BY <1>1 DEF Ask, Idle
  <1>2. ASSUME NEW q \in Readers, Lease(q)
        PROVE  FALSE
    BY <1>2 DEF Lease
  <1>3. ASSUME NEW q \in Readers, FetchSucceeds(q) \/ FetchFails(q)
        PROVE  FALSE
    BY <1>3 DEF FetchSucceeds, FetchFails
  <1>4. ASSUME NEW q \in Readers, Miss(q) \/ Finish(q) \/ Drop(q)
        PROVE  FALSE
    BY <1>4 DEF Miss, Finish, Drop, Idle
  <1>5. ASSUME NEW q \in Readers, Enter(q)
        PROVE  q = r
    BY <1>5 DEF Enter
  <1>6. ASSUME reader' = reader
        PROVE  FALSE
    BY <1>6
  <1> QED
    BY <1>1, <1>2, <1>3, <1>4, <1>5, <1>6
       DEF Next, Step, Switch, SignIn, SignOut, Report, Tick

\* The backend is asked again only after the cooldown or after a report.
THEOREM BackendIsSpared == Spec => RateLimited
  <1> DEFINE A == \A r \in Readers :
                    (reader[r].pc = "waiting" /\ reader'[r].pc = "leasing") =>
                      asked = Never \/ clock - asked >= RetryCooldown \/ reported
  <1>1. CatalogInv /\ [Next]_vars => [A]_vars
    <2> SUFFICES ASSUME CatalogInv, Next, NEW r \in Readers,
                        reader[r].pc = "waiting", reader'[r].pc = "leasing",
                        ~reported
                 PROVE  asked = Never \/ clock - asked >= RetryCooldown
      OBVIOUS
    <2>1. Enter(r)
      BY OnlyEnterAnswers
    <2>2. ~Cooling(Current.attempt)
      BY <2>1 DEF Enter, Due, Become, Answer, Idle, CatalogInv, TypeOK
    <2>3. pendingSwitch = NoSlot /\ pendingCredentials = {}
      BY DEF CatalogInv, CooldownLiftedByReports
    <2>4. Current.attempt = lastAttempt
      BY <2>3, CurrentFields DEF LeftAttempt, CatalogInv
    <2>5. lastAttempt = asked
      BY DEF CatalogInv, CooldownLiftedByReports
    <2> QED
      BY <2>2, <2>4, <2>5, TimesAssumption DEF Cooling, CatalogInv, TypeOK, Never
  <1> QED
    BY <1>1, CatalogInvariant, PTL DEF Spec, RateLimited

\* A report that leaves no answer of the selected slot makes the next snapshot
\* ask.
THEOREM ReportsAreHeeded == Spec => ReportsAskAtOnce
  <1> DEFINE A == \A r \in Readers :
                    (/\ reader[r].pc = "waiting" /\ reader'[r].pc = "answered"
                     /\ reader[r].ask # "status" /\ Discovery /\ reported)
                    => entry' # NoEntry /\ ~entry'.superseded
  <1>1. CatalogInv /\ [Next]_vars => [A]_vars
    <2> SUFFICES ASSUME CatalogInv, Next, NEW r \in Readers,
                        reader[r].pc = "waiting", reader'[r].pc = "answered",
                        reader[r].ask # "status", Discovery, reported,
                        entry' = NoEntry \/ entry'.superseded
                 PROVE  FALSE
      OBVIOUS
    <2>1. Enter(r)
      BY OnlyEnterAnswers
    <2>2. entry' = Current.entry
      BY <2>1 DEF Enter
    <2>3. Current.attempt = Never
      BY <2>2 DEF CatalogInv, CooldownLiftedByReports
    <2>4. Due(reader[r].ask, Current)
      BY <2>2, <2>3 DEF Due, Cooling, Fresh
    <2>5. reader'[r].pc = "leasing"
      BY <2>1, <2>4 DEF Enter, Become, CatalogInv, TypeOK, Reader
    <2> QED
      BY <2>5
  <1> QED
    BY <1>1, CatalogInvariant, PTL DEF Spec, ReportsAskAtOnce

-----------------------------------------------------------------------------
(* The catalog implements its promise.                                       *)

\* What a reader sees of an entry.
Seen(e) == [slot |-> e.slot, grant |-> e.grant, superseded |-> e.superseded]

\* Only the absence of an entry is seen as no answer.
LEMMA SeenNothing ==
    /\ Seen(NoEntry) = Promise!NoAnswer
    /\ \A e \in Entries : Seen(e) # Promise!NoAnswer
  BY SlotsAssumption DEF Seen, NoEntry, Entries, Promise!NoAnswer

\* A switch relabels what is seen.
LEMMA SwitchSeen ==
    ASSUME NEW e \in Entries \cup {NoEntry}, NEW changed \in SUBSET Slots,
           NEW before \in Slots \cup {NoSlot}, NEW s \in Slots,
           NEW old, old = Seen(Left(e, changed, before)),
           NEW label \in BOOLEAN, label <=> (old.slot # s)
    PROVE  Seen(Left(e, changed, s))
             = IF old = Promise!NoAnswer THEN Promise!NoAnswer
               ELSE [old EXCEPT !.superseded = label]
  <1> DEFINE was == Left(e, changed, before)
             is == Left(e, changed, s)
             other == e.slot # s
  <1>1. CASE e.slot \in changed \/ e = NoEntry
    <2>1. was = NoEntry /\ is = NoEntry
      BY <1>1 DEF Left
    <2> HIDE DEF was, is
    <2>2. old = Promise!NoAnswer
      BY <2>1, SeenNothing DEF was
    <2> QED
      BY <2>1, <2>2, SeenNothing DEF is
  <1>2. CASE e.slot \notin changed /\ e # NoEntry
    <2>1. /\ was # NoEntry /\ was \in Entries
          /\ was.slot = e.slot /\ was.grant = e.grant
      <3>1. was # NoEntry
        BY <1>2, NoEntryIsNone, Relabelled DEF Left
      <3> QED
        BY <3>1, LeftTyped
    <2>2. /\ is.slot = e.slot /\ is.grant = e.grant /\ is.superseded = other
      <3>1. is = [e EXCEPT !.superseded = other]
        BY <1>2, SlotsAssumption, Zenon DEF Left
      <3>2. other \in BOOLEAN /\ e \in Entries
        BY <1>2
      <3> HIDE DEF is, other
      <3> QED
        BY <3>1, <3>2, Relabelled
    <2> HIDE DEF was, is
    <2>3. /\ old = [slot |-> was.slot, grant |-> was.grant,
                    superseded |-> was.superseded]
          /\ old # Promise!NoAnswer
      BY <2>1, SeenNothing DEF was, Seen
    <2>4. is.superseded = label
      <3>1. other = (old.slot # s)
        BY <2>1, <2>3
      <3> HIDE DEF other
      <3> QED
        BY <2>2, <3>1, Zenon
    <2>5. Seen(is) = [old EXCEPT !.superseded = label]
      BY <2>1, <2>2, <2>3, <2>4 DEF Seen
    <2> QED
      BY <2>3, <2>5 DEF is
  <1> QED
    BY <1>1, <1>2

\* A credential change retires what is seen of its slot.
LEMMA ChangeSeen ==
    ASSUME NEW e \in Entries \cup {NoEntry}, NEW changed \in SUBSET Slots,
           NEW selected \in Slots \cup {NoSlot}, NEW s \in Slots
    PROVE  LET old == Seen(Left(e, changed, selected)) IN
           Seen(Left(e, changed \cup {s}, selected))
             = IF old.slot = s THEN Promise!NoAnswer ELSE old
  <1> DEFINE was == Left(e, changed, selected)
  <1>1. Seen(was).slot = was.slot
    BY DEF Seen
  <1>2. CASE e.slot \in changed \/ e = NoEntry
    <2>1. was = NoEntry /\ Left(e, changed \cup {s}, selected) = NoEntry
      BY <1>2 DEF Left
    <2> QED
      BY <2>1, <1>1, SeenNothing, NoEntryIsNone, SlotsAssumption
  <1>3. CASE e.slot \notin changed /\ e # NoEntry
    <2>1. was.slot = e.slot
      <3>1. was # NoEntry
        BY <1>3, Relabelled, NoEntryIsNone DEF Left
      <3> QED
        BY <3>1, LeftTyped
    <2>2. CASE e.slot = s
      <3>1. Left(e, changed \cup {s}, selected) = NoEntry
        BY <2>2 DEF Left
      <3> QED
        BY <2>1, <2>2, <3>1, <1>1, SeenNothing
    <2>3. CASE e.slot # s
      <3>1. Left(e, changed \cup {s}, selected) = was
        <4>1. e.slot \in changed \cup {s} <=> e.slot \in changed
          BY <2>3
        <4> QED
          BY <4>1, Zenon DEF Left
      <3> QED
        BY <2>1, <2>3, <3>1, <1>1
    <2> QED
      BY <2>2, <2>3
  <1> QED
    BY <1>2, <1>3

\* What a fetch brings is judged by what happened since it began.
LEMMA ReceivedSeen ==
    ASSUME NEW s \in Slots, NEW grant \in Nat, NEW now \in Nat,
           NEW changed \in SUBSET Slots, NEW selected \in Slots \cup {NoSlot},
           NEW e, e = [slot |-> s, grant |-> grant, fetched |-> now,
                       superseded |-> FALSE],
           NEW label \in BOOLEAN, label <=> (selected \notin {NoSlot, s})
    PROVE  Seen(Left(e, changed, selected))
             = IF s \in changed THEN Promise!NoAnswer
               ELSE [slot |-> s, grant |-> grant, superseded |-> label]
  <1> DEFINE left == Left(e, changed, selected)
  <1>1. e \in Entries /\ e.slot = s /\ e.grant = grant /\ e.superseded = FALSE
    BY DEF Entries
  <1>2. e # NoEntry
    BY <1>1, NoEntryIsNone
  <1>3. CASE s \in changed
    <2>1. left = NoEntry
      BY <1>1, <1>3 DEF Left
    <2> HIDE DEF left
    <2>2. Seen(left) = Promise!NoAnswer
      BY <2>1, SeenNothing
    <2> QED
      BY <1>3, <2>2 DEF left
  <1>4. CASE s \notin changed
    <2>1. left # NoEntry
      BY <1>1, <1>2, <1>4, Relabelled DEF Left
    <2>2. left.slot = e.slot /\ left.grant = e.grant
      BY <1>1, <2>1, LeftTyped
    <2>3. left.superseded = label
      <3>1. CASE selected = NoSlot
        <4>1. left = e
          BY <1>1, <1>4, <3>1 DEF Left
        <4> HIDE DEF left
        <4> QED
          BY <1>1, <3>1, <4>1
      <3>2. CASE selected # NoSlot
        <4> DEFINE other == e.slot # selected
        <4>1. left = [e EXCEPT !.superseded = other]
          BY <1>1, <1>2, <1>4, <3>2, Zenon DEF Left
        <4>2. other \in BOOLEAN /\ (other <=> label)
          BY <1>1, <3>2
        <4> HIDE DEF left, other
        <4> QED
          BY <1>1, <4>1, <4>2, Relabelled
      <3> QED
        BY <3>1, <3>2
    <2> HIDE DEF left
    <2>4. Seen(left) = [slot |-> s, grant |-> grant, superseded |-> label]
      BY <1>1, <2>2, <2>3 DEF Seen
    <2> QED
      BY <1>4, <2>4 DEF left
  <1> QED
    BY <1>3, <1>4

\* What the promise is about, now and in the next state.
LEMMA PromisedAnswer ==
    /\ TypeOK => [slot |-> Current.entry.slot, grant |-> Current.entry.grant,
                  superseded |-> Current.entry.superseded]
                   = Seen(Left(entry, pendingCredentials, pendingSwitch))
    /\ TypeOK' => [slot |-> Current'.entry.slot, grant |-> Current'.entry.grant,
                   superseded |-> Current'.entry.superseded]
                    = Seen(Left(entry', pendingCredentials', pendingSwitch'))
  BY CurrentFields, CurrentFieldsNext DEF Seen

\* A step that leaves the entry, what is pending and the lock alone is none of
\* the promise's.
LEMMA Stutters ==
    ASSUME TypeOK, TypeOK', inner' # NoReader <=> inner # NoReader,
           UNCHANGED <<held, entry, pendingSwitch, pendingCredentials>>
    PROVE  UNCHANGED Promise!vars
  <1>1. Asking' <=> Asking
    BY DEF Asking
  <1> QED
    BY <1>1, PromisedAnswer, Zenon DEF Promise!vars

\* A reader that gives the lock up with the entry as it was gives the question
\* up.
LEMMA GivesUp ==
    ASSUME TypeOK, TypeOK', inner # NoReader, inner' = NoReader,
           UNCHANGED <<held, entry, pendingSwitch, pendingCredentials>>
    PROVE  Promise!GiveUp
  BY PromisedAnswer DEF Promise!GiveUp, Promise!Stop, Asking

\* Every step of the catalog is a step of its promise, or none.
LEMMA StepKeepsPromise ==
    ASSUME CatalogInv, CatalogInv', [Next]_vars
    PROVE  [Promise!Next]_(Promise!vars)
  <1> USE DEF pending, router, history
  <1>0. /\ TypeOK /\ TypeOK' /\ RetiredIsPending
    BY DEF CatalogInv
  <1>1. ASSUME NEW r \in Readers, NEW ask,
               \/ Ask(r, ask) \/ Lease(r) \/ Miss(r) \/ Finish(r)
        PROVE  UNCHANGED Promise!vars
    BY <1>0, <1>1, Stutters DEF Ask, Lease, Miss, Finish
  <1>2. ASSUME NEW r \in Readers, Enter(r)
        PROVE  Promise!Ask \/ UNCHANGED Promise!vars
    <2>1. /\ inner = NoReader /\ inner' \in {NoReader, r}
          /\ pendingSwitch' = NoSlot /\ pendingCredentials' = {}
          /\ UNCHANGED held
      BY <1>2 DEF Enter
    <2>2. entry' = Left(entry, pendingCredentials, pendingSwitch)
      BY <1>0, <1>2, CurrentFields DEF Enter
    <2>3. Left(entry', {}, NoSlot) = entry'
      BY DEF Left
    <2>4. CASE inner' = r
      BY <1>0, <2>1, <2>2, <2>3, <2>4, PromisedAnswer, ReadersAssumption
         DEF Promise!Ask, Asking
    <2>5. CASE inner' = NoReader
      BY <1>0, <2>1, <2>2, <2>3, <2>5, PromisedAnswer DEF Promise!vars, Asking
    <2> QED
      BY <2>1, <2>4, <2>5
  <1>3. ASSUME NEW r \in Readers, FetchSucceeds(r)
        PROVE  \E s \in Slots : Promise!Receive(s)
    <2> DEFINE s == reader[r].slot
               label == pendingSwitch \notin {NoSlot, s}
    <2>1. /\ inner = r /\ s \in Slots
          /\ s \notin pendingCredentials => reader[r].grant = held[s]
      BY <1>0, <1>3 DEF FetchSucceeds, RetiredIsPending
    <2>2. Asking /\ ~Asking'
      BY <1>3, <2>1, ReadersAssumption DEF FetchSucceeds, Asking
    <2>3. reader[r].grant \in Nat /\ clock \in Nat
          /\ pendingCredentials \in SUBSET Slots
          /\ pendingSwitch \in Slots \cup {NoSlot}
      BY <1>0 DEF TypeOK, Reader
    <2>4. UNCHANGED <<held, pendingSwitch, pendingCredentials>>
      BY <1>3 DEF FetchSucceeds
    <2>5. Seen(Left(entry', pendingCredentials', pendingSwitch'))
            = IF s \in pendingCredentials THEN Promise!NoAnswer
              ELSE [slot |-> s, grant |-> held[s], superseded |-> label]
      <3>1. entry' = [slot |-> s, grant |-> reader[r].grant, fetched |-> clock,
                      superseded |-> FALSE]
        BY <1>3 DEF FetchSucceeds
      <3>2. Seen(Left(entry', pendingCredentials, pendingSwitch))
              = IF s \in pendingCredentials THEN Promise!NoAnswer
                ELSE [slot |-> s, grant |-> reader[r].grant,
                      superseded |-> label]
        <4>1. label \in BOOLEAN
          OBVIOUS
        <4>2. label <=> (pendingSwitch \notin {NoSlot, s})
          OBVIOUS
        <4> HIDE DEF label, s
        <4> QED
          BY <2>1, <2>3, <3>1, <4>1, <4>2, ReceivedSeen
      <3> HIDE DEF label, s
      <3> QED
        BY <2>1, <2>4, <3>2
    <2>6. Promise!Stop
      BY <2>2, <2>4 DEF Promise!Stop, Asking
    <2>7. Promise!Receive(s)
      BY <1>0, <2>2, <2>5, <2>6, PromisedAnswer, Zenon DEF Promise!Receive
    <2> QED
      BY <2>1, <2>7
  <1>4. ASSUME NEW r \in Readers, FetchFails(r)
        PROVE  Promise!GiveUp
    BY <1>0, <1>4, GivesUp, ReadersAssumption DEF FetchFails, RetiredIsPending
  <1>5. ASSUME NEW r \in Readers, Drop(r)
        PROVE  Promise!GiveUp \/ UNCHANGED Promise!vars
    <2>1. CASE inner = r
      BY <1>0, <1>5, <2>1, GivesUp, ReadersAssumption DEF Drop
    <2>2. CASE inner # r
      BY <1>0, <1>5, <2>2, Stutters DEF Drop
    <2> QED
      BY <2>1, <2>2
  <1>6. ASSUME NEW s \in Slots, Switch(s)
        PROVE  Promise!Switch(s)
    <2>1. /\ pendingSwitch' = s
          /\ UNCHANGED <<held, entry, pendingCredentials, inner>>
      BY <1>6 DEF Switch
    <2>2. Asking' <=> Asking
      BY <2>1 DEF Asking
    <2> DEFINE old == Seen(Left(entry, pendingCredentials, pendingSwitch))
               label == old.slot # s
    <2>3. Seen(Left(entry', pendingCredentials', pendingSwitch'))
            = IF old = Promise!NoAnswer THEN Promise!NoAnswer
              ELSE [old EXCEPT !.superseded = label]
      <3>1. /\ entry \in Entries \cup {NoEntry}
            /\ pendingCredentials \in SUBSET Slots
            /\ pendingSwitch \in Slots \cup {NoSlot}
        BY <1>0 DEF TypeOK
      <3>2. label \in BOOLEAN /\ (label <=> (old.slot # s))
        OBVIOUS
      <3>3. old = Seen(Left(entry, pendingCredentials, pendingSwitch))
        OBVIOUS
      <3> HIDE DEF old, label
      <3> QED
        BY <2>1, <3>1, <3>2, <3>3, SwitchSeen
    <2> QED
      BY <1>0, <2>1, <2>2, <2>3, PromisedAnswer, Zenon DEF Promise!Switch
  <1>7. ASSUME NEW s \in Slots, SignIn(s) \/ SignOut(s)
        PROVE  Promise!ChangeCredentials(s)
    <2>1. /\ pendingCredentials' = pendingCredentials \cup {s}
          /\ UNCHANGED <<entry, pendingSwitch, inner>>
      BY <1>7 DEF SignIn, SignOut, Report
    <2>2. held' = [held EXCEPT ![s] = held'[s]] /\ held'[s] \in Nat
      BY <1>0, <1>7 DEF SignIn, SignOut, TypeOK
    <2>3. Asking' <=> Asking
      BY <2>1 DEF Asking
    <2> DEFINE old == Seen(Left(entry, pendingCredentials, pendingSwitch))
    <2>4. Seen(Left(entry', pendingCredentials', pendingSwitch'))
            = IF old.slot = s THEN Promise!NoAnswer ELSE old
      <3>1. /\ entry \in Entries \cup {NoEntry}
            /\ pendingCredentials \in SUBSET Slots
            /\ pendingSwitch \in Slots \cup {NoSlot}
        BY <1>0 DEF TypeOK
      <3> QED
        BY <2>1, <3>1, ChangeSeen, Zenon
    <2> QED
      BY <1>0, <2>1, <2>2, <2>3, <2>4, PromisedAnswer, Zenon
         DEF Promise!ChangeCredentials
  <1>8. ASSUME Tick \/ UNCHANGED vars
        PROVE  UNCHANGED Promise!vars
    BY <1>0, <1>8, Stutters DEF Tick, vars
  <1> QED
    BY <1>1, <1>2, <1>3, <1>4, <1>5, <1>6, <1>7, <1>8, Zenon
       DEF Next, Step, Promise!Next

\* Reports take effect, as far as any reader can tell, the moment they are made.
THEOREM ImplementsPromise == Spec => KeepsPromise
  <1>1. Init => Promise!Init
    <2> SUFFICES ASSUME Init PROVE Promise!Init
      OBVIOUS
    <2>1. TypeOK
      BY CatalogTypeAtInit
    <2>2. Left(entry, pendingCredentials, pendingSwitch) = NoEntry
      BY DEF Init, Left
    <2>3. ~Asking
      BY DEF Init, Asking
    <2>4. held \in [Slots -> Nat]
      BY <2>1 DEF TypeOK
    <2> QED
      BY <2>1, <2>2, <2>3, <2>4, PromisedAnswer, SeenNothing DEF Promise!Init
  <1>2. CatalogInv /\ CatalogInv' /\ [Next]_vars => [Promise!Next]_(Promise!vars)
    BY StepKeepsPromise
  <1> QED
    BY <1>1, <1>2, CatalogInvariant, PTL DEF Spec, KeepsPromise, Promise!Spec
=============================================================================
