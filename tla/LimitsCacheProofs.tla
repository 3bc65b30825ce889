------------------------- MODULE LimitsCacheProofs -------------------------
(* Proofs about LimitsCache, for any polls, slots, accounts and times. *)
EXTENDS LimitsCache, TLAPS

-----------------------------------------------------------------------------
LEMMA RecordsTyped ==
    /\ NoDocument \in Document /\ Idle \in Poll /\ Idle.pc = "idle"
    /\ [Idle EXCEPT !.pc = "failed"] \in Poll
    /\ [Idle EXCEPT !.pc = "failed"].pc = "failed"
  BY DEF NoDocument, Document, Idle, Poll

LEMMA LeasedTyped ==
    ASSUME LimitsInv, NEW s \in Slots, Configured(s), NEW kind \in {"get", "slot"},
           NEW moved \in BOOLEAN
    PROVE  LET r == Leased(s, kind, moved)
           IN  /\ r \in Poll /\ r.pc = "leased" /\ r.slot = s
               /\ r.account \in Accounts /\ r.asked = clock
               /\ r.epoch = epoch[s]
  BY RecordsTyped DEF Leased, Idle, Poll, LimitsInv, TypeOK, Configured

LEMMA WithDocumentTyped ==
    ASSUME LimitsInv, NEW p \in Polls, NEW doc \in Document
    PROVE  LET r == WithDocument(p, doc)
           IN  /\ r \in Poll /\ r.pc \in {"exhausted", "answered"}
               /\ r.slot = poll[p].slot /\ r.account = poll[p].account
               /\ r.asked = poll[p].asked /\ r.epoch = poll[p].epoch
               /\ r.doc = doc
  <1> DEFINE turns == /\ poll[p].kind = "get" /\ ~poll[p].moved
                      /\ doc.full /\ \E s, t \in ConfiguredSlots : s # t
             pc == IF turns THEN "exhausted" ELSE "answered"
  <1>1. WithDocument(p, doc) = [poll[p] EXCEPT !.doc = doc, !.pc = pc]
    BY DEF WithDocument
  <1>2. pc \in {"exhausted", "answered"} /\ poll[p] \in Poll
    BY DEF LimitsInv, TypeOK
  <1> HIDE DEF pc
  <1> QED
    BY <1>1, <1>2 DEF Poll

\* A poll that is idle, answered, failed or newly leased asks nothing of the
\* cache: the lock is given up if it was held.
LEMMA PollMoves ==
    ASSUME LimitsInv, NEW p \in Polls, NEW r \in Poll, Become(p, r),
           lock' = Freed(p),
           \/ r.pc \in {"idle", "failed"}
           \/ /\ r.pc = "leased" /\ r.slot \in Slots /\ r.account \in Accounts
              /\ r.asked <= clock /\ r.epoch <= epoch[r.slot]
           \/ /\ r.pc = "answered"
              /\ r.doc.account = r.account /\ r.asked < r.doc.fetched + CacheTtl
              /\ r.epoch <= r.doc.epoch,
           active' \in Slots,
           UNCHANGED <<clock, changes, held, due, spent, cache, epoch>>
    PROVE  LimitsInv'
  <1> USE DEF LimitsInv, TypeOK, Become, Freed
  <1>1. \A q \in Polls : poll'[q] = IF q = p THEN r ELSE poll[q]
    OBVIOUS
  <1>2. TypeOK'
    OBVIOUS
  <1>3. InvalidationSticks'
    BY DEF InvalidationSticks
  <1>4. AnswersAreCurrent'
    BY <1>1 DEF AnswersAreCurrent
  <1>5. \A q \in Polls : lock' = q <=> poll'[q].pc = "fetching"
    BY <1>1, NamesAssumption
  <1>6. \A q \in Polls :
          /\ poll'[q].pc \in {"leased", "fetching", "exhausted"} =>
                /\ poll'[q].slot \in Slots /\ poll'[q].account \in Accounts
                /\ poll'[q].asked <= clock'
                /\ poll'[q].epoch <= epoch'[poll'[q].slot]
          /\ poll'[q].pc = "fetching" =>
                /\ poll'[q].epoch = epoch'[poll'[q].slot]
                /\ ~Fresh(poll[q].slot, poll[q].account)'
    BY <1>1 DEF Fresh
  <1> QED
    BY <1>2, <1>3, <1>4, <1>5, <1>6

LEMMA AskKeeps ==
    ASSUME LimitsInv, NEW p \in Polls, Ask(p)
    PROVE  LimitsInv'
  <1>1. PICK s \in Slots : /\ Configured(s) /\ Become(p, Leased(s, "get", FALSE))
                           /\ active' = s
    BY DEF Ask
  <1> DEFINE r == Leased(s, "get", FALSE)
  <1>2. /\ r \in Poll /\ r.pc = "leased" /\ r.slot = s /\ r.account \in Accounts
        /\ r.asked = clock /\ r.epoch = epoch[s]
    BY <1>1, LeasedTyped
  <1> HIDE DEF r
  <1>3. active' \in Slots
    BY <1>1
  <1>4. lock' = Freed(p) /\ UNCHANGED <<clock, changes, held, due, spent, cache, epoch>>
    BY DEF Ask, Free, store, Freed, LimitsInv
  <1>5. r.asked <= clock /\ r.epoch <= epoch[r.slot]
    BY <1>2 DEF LimitsInv, TypeOK
  <1> QED
    BY <1>1, <1>2, <1>3, <1>4, <1>5, PollMoves DEF r

LEMMA AskSlotKeeps ==
    ASSUME LimitsInv, NEW p \in Polls, NEW s \in Slots, AskSlot(p, s)
    PROVE  LimitsInv'
  <1> DEFINE r == Leased(s, "slot", FALSE)
  <1>1. /\ r \in Poll /\ r.pc = "leased" /\ r.slot = s /\ r.account \in Accounts
        /\ r.asked = clock /\ r.epoch = epoch[s]
    BY LeasedTyped DEF AskSlot
  <1>2. Become(p, r)
    BY DEF AskSlot
  <1> HIDE DEF r
  <1>3. lock' = Freed(p) /\ UNCHANGED <<clock, changes, held, due, spent, cache, epoch>>
    BY DEF AskSlot, Free, store, Freed, LimitsInv, router
  <1>4. active' \in Slots
    BY DEF AskSlot, router, LimitsInv, TypeOK
  <1>5. r.asked <= clock /\ r.epoch <= epoch[r.slot]
    BY <1>1 DEF LimitsInv, TypeOK
  <1> QED
    BY <1>1, <1>2, <1>3, <1>4, <1>5, PollMoves

LEMMA FailoverKeeps ==
    ASSUME LimitsInv, NEW p \in Polls, Failover(p)
    PROVE  LimitsInv'
  <1>1. PICK s \in Slots : /\ Configured(s) /\ Become(p, Leased(s, "get", TRUE))
                           /\ active' = s
    BY DEF Failover, LimitsInv, TypeOK
  <1> DEFINE r == Leased(s, "get", TRUE)
  <1>2. /\ r \in Poll /\ r.pc = "leased" /\ r.slot = s /\ r.account \in Accounts
        /\ r.asked = clock /\ r.epoch = epoch[s]
    BY <1>1, LeasedTyped
  <1> HIDE DEF r
  <1>3. active' \in Slots
    BY <1>1
  <1>4. lock' = Freed(p) /\ UNCHANGED <<clock, changes, held, due, spent, cache, epoch>>
    BY DEF Failover, Free, store, Freed, LimitsInv
  <1>5. r.asked <= clock /\ r.epoch <= epoch[r.slot]
    BY <1>2 DEF LimitsInv, TypeOK
  <1> QED
    BY <1>1, <1>2, <1>3, <1>4, <1>5, PollMoves DEF r

LEMMA StaysKeeps ==
    ASSUME LimitsInv, NEW p \in Polls, Stays(p)
    PROVE  LimitsInv'
  <1> DEFINE r == [poll[p] EXCEPT !.pc = "answered"]
  <1>1. /\ r \in Poll /\ r.pc = "answered" /\ r.doc = poll[p].doc
        /\ r.account = poll[p].account /\ r.asked = poll[p].asked
        /\ r.epoch = poll[p].epoch
    BY DEF LimitsInv, TypeOK, Poll
  <1>2. Become(p, r) /\ poll[p].pc = "exhausted"
    BY DEF Stays
  <1> HIDE DEF r
  <1>3. /\ r.doc.account = r.account /\ r.asked < r.doc.fetched + CacheTtl
        /\ r.epoch <= r.doc.epoch
    BY <1>1, <1>2 DEF LimitsInv, AnswersAreCurrent
  <1>4. lock' = Freed(p) /\ UNCHANGED <<clock, changes, held, due, spent, cache, epoch>>
    BY <1>2 DEF Stays, store, Freed, LimitsInv, router
  <1>5. active' \in Slots
    BY DEF Stays, router, LimitsInv, TypeOK
  <1> QED
    BY <1>1, <1>2, <1>3, <1>4, <1>5, PollMoves

LEMMA EndsKeeps ==
    ASSUME LimitsInv, NEW p \in Polls, FetchFails(p) \/ Drop(p)
    PROVE  LimitsInv'
  <1>1. PICK r \in Poll : Become(p, r) /\ r.pc \in {"idle", "failed"}
    BY RecordsTyped DEF FetchFails, Drop
  <1>2. lock' = Freed(p) /\ UNCHANGED <<clock, changes, held, due, spent, cache, epoch>>
    BY DEF FetchFails, Drop, router
  <1>3. active' \in Slots
    BY DEF FetchFails, Drop, router, LimitsInv, TypeOK
  <1> QED
    BY <1>1, <1>2, <1>3, PollMoves

LEMMA FetchKeeps ==
    ASSUME LimitsInv, NEW p \in Polls, Fetch(p)
    PROVE  LimitsInv'
  <1> DEFINE r == [poll[p] EXCEPT !.pc = "fetching", !.epoch = epoch[poll[p].slot]]
  <1> USE DEF LimitsInv, TypeOK
  <1>1. /\ poll[p].pc = "leased" /\ lock = NoPoll /\ lock' = p
        /\ poll' = [poll EXCEPT ![p] = r]
        /\ ~Fresh(poll[p].slot, poll[p].account)
        /\ UNCHANGED <<clock, changes, active, held, due, spent, cache, epoch>>
    BY DEF Fetch, Become, router
  <1>2. /\ r \in Poll /\ r.pc = "fetching" /\ r.slot = poll[p].slot
        /\ r.account = poll[p].account /\ r.asked = poll[p].asked
        /\ r.epoch = epoch[poll[p].slot]
    BY <1>1 DEF Poll
  <1> HIDE DEF r
  <1>3. \A q \in Polls : poll'[q] = IF q = p THEN r ELSE poll[q]
    BY <1>1
  <1>4. TypeOK' /\ InvalidationSticks'
    BY <1>1, <1>2 DEF InvalidationSticks
  <1>5. AnswersAreCurrent'
    BY <1>2, <1>3 DEF AnswersAreCurrent
  <1>6. \A q \in Polls :
          /\ lock' = q <=> poll'[q].pc = "fetching"
          /\ poll'[q].pc \in {"leased", "fetching", "exhausted"} =>
                /\ poll'[q].slot \in Slots /\ poll'[q].account \in Accounts
                /\ poll'[q].asked <= clock'
                /\ poll'[q].epoch <= epoch'[poll'[q].slot]
          /\ poll'[q].pc = "fetching" =>
                /\ poll'[q].epoch = epoch'[poll'[q].slot]
                /\ ~Fresh(poll[q].slot, poll[q].account)'
    BY <1>1, <1>2, <1>3, NamesAssumption DEF Fresh
  <1> QED
    BY <1>1, <1>4, <1>5, <1>6

LEMMA HitKeeps ==
    ASSUME LimitsInv, NEW p \in Polls, Hit(p)
    PROVE  LimitsInv'
  <1> DEFINE doc == cache[poll[p].slot]
             r == WithDocument(p, doc)
  <1> USE DEF LimitsInv, TypeOK
  <1>1. /\ poll[p].pc = "leased" /\ poll[p].slot \in Slots
        /\ poll[p].account \in Accounts /\ Fresh(poll[p].slot, poll[p].account)
        /\ poll' = [poll EXCEPT ![p] = r]
        /\ UNCHANGED <<clock, changes, active, held, due, spent, cache,
                       lock, epoch>>
    BY DEF Hit, Become, router, store
  <1>2. doc \in Document
    BY <1>1
  <1>3. /\ r \in Poll /\ r.pc \in {"exhausted", "answered"}
        /\ r.slot = poll[p].slot /\ r.account = poll[p].account
        /\ r.asked = poll[p].asked /\ r.epoch = poll[p].epoch /\ r.doc = doc
    BY <1>2, WithDocumentTyped
  <1>4. /\ doc.account = poll[p].account /\ clock < doc.fetched + CacheTtl
        /\ doc.epoch = epoch[poll[p].slot]
    <2>1. doc.account = poll[p].account /\ clock - doc.fetched < CacheTtl
      BY <1>1 DEF Fresh
    <2>2. doc # NoDocument
      BY <1>1, <2>1, NamesAssumption DEF NoDocument
    <2>3. doc.fetched \in Nat
      BY <1>2 DEF Document
    <2> QED
      BY <1>1, <2>1, <2>2, <2>3, TimesAssumption DEF InvalidationSticks
  <1> HIDE DEF r, doc
  <1>5. \A q \in Polls : poll'[q] = IF q = p THEN r ELSE poll[q]
    BY <1>1
  <1>6. TypeOK' /\ InvalidationSticks'
    BY <1>1, <1>3 DEF InvalidationSticks
  <1>7. AnswersAreCurrent'
    <2>1. r.asked < doc.fetched + CacheTtl
      BY <1>1, <1>2, <1>3, <1>4, TimesAssumption DEF Document, Poll
    <2> QED
      BY <1>1, <1>3, <1>4, <1>5, <2>1 DEF AnswersAreCurrent
  <1>8. \A q \in Polls :
          /\ lock' = q <=> poll'[q].pc = "fetching"
          /\ poll'[q].pc \in {"leased", "fetching", "exhausted"} =>
                /\ poll'[q].slot \in Slots /\ poll'[q].account \in Accounts
                /\ poll'[q].asked <= clock'
                /\ poll'[q].epoch <= epoch'[poll'[q].slot]
          /\ poll'[q].pc = "fetching" =>
                /\ poll'[q].epoch = epoch'[poll'[q].slot]
                /\ ~Fresh(poll[q].slot, poll[q].account)'
    BY <1>1, <1>3, <1>5 DEF Fresh
  <1> QED
    BY <1>1, <1>6, <1>7, <1>8

LEMMA FetchedKeeps ==
    ASSUME LimitsInv, NEW p \in Polls, Fetched(p)
    PROVE  LimitsInv'
  <1> DEFINE doc == [account |-> poll[p].account,
                     full |-> poll[p].account \in spent,
                     fetched |-> clock, epoch |-> poll[p].epoch]
             r == WithDocument(p, doc)
  <1> USE DEF LimitsInv, TypeOK
  <1>1. /\ poll[p].pc = "fetching" /\ poll[p].slot \in Slots
        /\ poll[p].account \in Accounts /\ lock = p /\ lock' = NoPoll
        /\ poll' = [poll EXCEPT ![p] = r]
        /\ cache' = [cache EXCEPT ![poll[p].slot] = doc]
        /\ UNCHANGED <<clock, changes, active, held, due, spent, epoch>>
    BY DEF Fetched, Become, router, Freed
  <1>2. /\ doc \in Document /\ doc.account = poll[p].account
        /\ doc.fetched = clock /\ doc.epoch = epoch[poll[p].slot]
    BY <1>1 DEF Document, Poll
  <1>3. /\ r \in Poll /\ r.pc \in {"exhausted", "answered"}
        /\ r.slot = poll[p].slot /\ r.account = poll[p].account
        /\ r.asked = poll[p].asked /\ r.epoch = poll[p].epoch /\ r.doc = doc
    BY <1>2, WithDocumentTyped
  <1> HIDE DEF r, doc
  <1>4. /\ \A q \in Polls : poll'[q] = IF q = p THEN r ELSE poll[q]
        /\ \A s \in Slots : cache'[s] = IF s = poll[p].slot THEN doc ELSE cache[s]
    BY <1>1
  <1>5. TypeOK' /\ InvalidationSticks'
    BY <1>1, <1>2, <1>3, <1>4 DEF InvalidationSticks
  <1>6. AnswersAreCurrent'
    <2>1. r.asked < doc.fetched + CacheTtl
      BY <1>1, <1>2, <1>3, TimesAssumption DEF Poll
    <2> QED
      BY <1>1, <1>2, <1>3, <1>4, <2>1 DEF AnswersAreCurrent
  <1>7. \A q \in Polls :
          /\ lock' = q <=> poll'[q].pc = "fetching"
          /\ poll'[q].pc \in {"leased", "fetching", "exhausted"} =>
                /\ poll'[q].slot \in Slots /\ poll'[q].account \in Accounts
                /\ poll'[q].asked <= clock'
                /\ poll'[q].epoch <= epoch'[poll'[q].slot]
          /\ poll'[q].pc # "fetching"
    BY <1>1, <1>3, <1>4, NamesAssumption
  <1> QED
    BY <1>1, <1>2, <1>4, <1>5, <1>6, <1>7

\* What goes on around the polls leaves them alone.
LEMMA OthersKeep ==
    ASSUME LimitsInv,
           \/ Tick
           \/ \E s \in Slots : Invalidate(s) \/ Switch(s)
           \/ \E s \in Slots, account \in Accounts \cup {NoAccount} : SignIn(s, account)
           \/ \E account \in Accounts : Turns(account)
    PROVE  LimitsInv'
  <1> USE DEF LimitsInv, TypeOK
  <1>1. CASE Tick
    <2>1. clock' = clock + 1 /\ UNCHANGED <<changes, router, spent, store, poll, epoch>>
      BY <1>1 DEF Tick
    <2>2. \A d \in Document : d.fetched \in Nat
      BY DEF Document
    <2> QED
      BY <2>1, <2>2, TimesAssumption
      DEF router, store, InvalidationSticks, AnswersAreCurrent, Fresh, Poll
  <1>2. ASSUME NEW s \in Slots, Invalidate(s) PROVE LimitsInv'
    <2>1. /\ lock = NoPoll /\ cache' = [cache EXCEPT ![s] = NoDocument]
          /\ due' = due \ {s} /\ epoch' = [epoch EXCEPT ![s] = @ + 1]
          /\ UNCHANGED <<clock, changes, active, held, spent, lock, poll>>
      BY <1>2 DEF Invalidate
    <2>2. TypeOK' /\ InvalidationSticks' /\ AnswersAreCurrent'
      BY <2>1, RecordsTyped DEF InvalidationSticks, AnswersAreCurrent
    <2>3. \A p \in Polls : poll[p].pc # "fetching" /\ poll[p].epoch \in Nat
      BY <2>1, NamesAssumption DEF Poll
    <2>4. NoDocument.fetched = 0
      BY DEF NoDocument
    <2> QED
      BY <2>1, <2>2, <2>3, <2>4
  <1>3. ASSUME NEW s \in Slots, Switch(s) PROVE LimitsInv'
    BY <1>3 DEF Switch, Changes, store, InvalidationSticks, AnswersAreCurrent, Fresh
  <1>4. ASSUME NEW s \in Slots, NEW account \in Accounts \cup {NoAccount},
               SignIn(s, account)
        PROVE  LimitsInv'
    BY <1>4 DEF SignIn, Changes, store, InvalidationSticks, AnswersAreCurrent, Fresh
  <1>5. ASSUME NEW account \in Accounts, Turns(account) PROVE LimitsInv'
    BY <1>5 DEF Turns, Changes, store, router, InvalidationSticks,
       AnswersAreCurrent, Fresh
  <1> QED
    BY <1>1, <1>2, <1>3, <1>4, <1>5

-----------------------------------------------------------------------------
(* The theorems.                                                             *)

LEMMA InitEstablishes == Init => LimitsInv
  <1> SUFFICES ASSUME Init PROVE LimitsInv
    OBVIOUS
  <1>1. TypeOK
    BY RecordsTyped DEF Init, TypeOK
  <1>2. \A p \in Polls : poll[p] = Idle /\ poll[p].pc = "idle"
    BY RecordsTyped DEF Init
  <1>3. NoDocument.fetched = 0
    BY DEF NoDocument
  <1> QED
    BY <1>1, <1>2, <1>3, NamesAssumption
    DEF Init, LimitsInv, InvalidationSticks, AnswersAreCurrent

LEMMA NextKeeps == LimitsInv /\ [Next]_vars => LimitsInv'
  <1> SUFFICES ASSUME LimitsInv, [Next]_vars PROVE LimitsInv'
    OBVIOUS
  <1>1. ASSUME NEW p \in Polls,
               \/ Ask(p) \/ Works(p) \/ Drop(p)
               \/ \E s \in Slots : AskSlot(p, s)
        PROVE  LimitsInv'
    BY <1>1, AskKeeps, AskSlotKeeps, HitKeeps, FetchKeeps, FetchedKeeps,
       EndsKeeps, FailoverKeeps, StaysKeeps DEF Works
  <1>2. CASE UNCHANGED vars
    BY <1>2 DEF vars, LimitsInv, TypeOK, InvalidationSticks, AnswersAreCurrent,
       Fresh
  <1> QED
    BY <1>1, <1>2, OthersKeep DEF Next

\* The inductive invariant of the cache and its lock (limits.rs).
THEOREM LimitsInvariant == Spec => []LimitsInv
  <1>1. Init => LimitsInv
    BY InitEstablishes
  <1>2. LimitsInv /\ [Next]_vars => LimitsInv'
    BY NextKeeps
  <1> QED
    BY <1>1, <1>2, PTL DEF Spec

\* What a poll answers or fails over for is current (limits.rs, get_for_account).
THEOREM CurrentAnswers == Spec => []AnswersAreCurrent
  <1>1. LimitsInv => AnswersAreCurrent
    BY DEF LimitsInv
  <1> QED
    BY <1>1, LimitsInvariant, PTL

\* No document from before an invalidation is kept (limits.rs, invalidate).
THEOREM StickyInvalidation == Spec => []InvalidationSticks
  <1>1. LimitsInv => InvalidationSticks
    BY DEF LimitsInv
  <1> QED
    BY <1>1, LimitsInvariant, PTL

\* A burst of polls is one request to the vendor (limits.rs, the lock is held
\* over the fetch).
THEOREM OneFetchPerBurst == Spec => BurstIsOneFetch
  <1>1. LimitsInv /\ [Next]_vars => [KeepsFresh]_vars
    <2> SUFFICES ASSUME LimitsInv, Next, NEW s \in Slots,
                        cache'[s] # cache[s], cache[s] # NoDocument,
                        cache'[s] # NoDocument,
                        cache'[s].account = cache[s].account
                 PROVE  clock >= cache[s].fetched + CacheTtl
      BY DEF KeepsFresh
    <2>1. ASSUME NEW u \in Slots, Invalidate(u) PROVE FALSE
      BY <2>1 DEF Invalidate, LimitsInv, TypeOK
    <2>2. PICK p \in Polls : Fetched(p)
      BY <2>1 DEF Next, Ask, AskSlot, Works, Hit, Fetch, FetchFails, Failover, Stays,
         Drop, Switch, SignIn, Turns, Tick, store
    <2>3. /\ s = poll[p].slot /\ cache'[s].account = poll[p].account
          /\ poll[p].pc = "fetching"
      BY <2>2 DEF Fetched, LimitsInv, TypeOK
    <2>4. ~(clock - cache[s].fetched < CacheTtl) /\ cache[s].fetched \in Nat
      BY <2>3 DEF LimitsInv, TypeOK, Fresh, Document
    <2> QED
      BY <2>4, TimesAssumption DEF LimitsInv, TypeOK
  <1>2. []LimitsInv /\ [][Next]_vars => [][KeepsFresh]_vars
    BY <1>1, PTL
  <1> QED
    BY <1>2, LimitsInvariant, PTL DEF Spec, BurstIsOneFetch
=============================================================================
