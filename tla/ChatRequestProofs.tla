------------------------- MODULE ChatRequestProofs -------------------------
(* Proofs about ChatRequest, for any requests, catalogs and settings. *)
EXTENDS ChatRequest, FiniteSetTheorems, WellFoundedInduction, TLAPS

\* The inductive invariant: what has been on offer all the time is on offer now,
\* and a request that was not found so far asks for something else.
SearchInv ==
    /\ always \subseteq Slugs(catalog)
    /\ stage \in {"refreshed", "unknown"} => asked.model \notin always
    /\ reply = "model_not_found" =>
           stage = "refused" /\ asked.model \notin always

LEMMA SearchBegins == Init => SearchInv
  BY DEF Init, SearchInv

LEMMA SearchStep ==
    ASSUME SearchInv, [Next]_vars
    PROVE  SearchInv'
  <1> USE DEF SearchInv, World, Goes, Refuse
  <1>1. CASE Arrive
    BY <1>1 DEF Arrive
  <1>2. CASE Name
    BY <1>2 DEF Name
  <1>3. CASE Look
    BY <1>3 DEF Look, Known
  <1>4. CASE Refresh
    BY <1>4 DEF Refresh, Known
  <1>5. CASE NotFound
    BY <1>5 DEF NotFound
  <1>6. CASE Check
    BY <1>6 DEF Check
  <1>7. CASE Change
    BY <1>7 DEF Change
  <1>8. CASE UNCHANGED vars
    BY <1>8 DEF vars
  <1> QED
    BY <1>1, <1>2, <1>3, <1>4, <1>5, <1>6, <1>7, <1>8 DEF Next

LEMMA SearchFinds == SearchInv => KnownModelsAreServed
  BY DEF SearchInv, KnownModelsAreServed

\* Each read of the catalog finds what was on offer ever since the request came,
\* whatever was changed in between (lib.rs, chat_completions_handler).
THEOREM SearchInvariant == Spec => []SearchInv
  BY SearchBegins, SearchStep, PTL DEF Spec

\* A model that was on offer all the time is not refused as unknown, however long
\* the catalog and however often it changes between the handler's reads (lib.rs).
THEOREM ModelsOnOfferAreFound == Spec => []KnownModelsAreServed
  BY SearchInvariant, SearchFinds, PTL

-----------------------------------------------------------------------------
(* Efforts.                                                                  *)

LEMMA LadderRungs ==
    /\ Len(Ladder) = 8
    /\ \A l : OnLadder(l) => Rung(l) \in 1..8 /\ Ladder[Rung(l)] = l
  <1>1. Len(Ladder) = 8 /\ DOMAIN Ladder = 1..8
    BY DEF Ladder
  <1>2. ASSUME NEW l, OnLadder(l)
        PROVE  Rung(l) \in 1..8 /\ Ladder[Rung(l)] = l
    <2>1. \E i \in 1..8 : Ladder[i] = l
      BY <1>1, <1>2 DEF OnLadder, ToSet
    <2> QED
      BY <1>1, <2>1 DEF Rung
  <1> QED
    BY <1>1, <1>2

\* Each set of rungs has a lowest and a highest one.
LEMMA Extremes ==
    ASSUME NEW rungs \in SUBSET (1..8), rungs # {}
    PROVE  Lowest(rungs) \in rungs /\ Highest(rungs) \in rungs
  <1>1. \E r \in rungs : \A q \in rungs : r <= q
    <2> SUFFICES ASSUME \A r \in rungs : \E q \in rungs : q < r
                 PROVE  FALSE
      OBVIOUS
    <2>1. 1 \notin rungs
      OBVIOUS
    <2>2. 2 \notin rungs
      BY <2>1
    <2>3. 3 \notin rungs
      BY <2>1, <2>2
    <2>4. 4 \notin rungs
      BY <2>1, <2>2, <2>3
    <2>5. 5 \notin rungs
      BY <2>1, <2>2, <2>3, <2>4
    <2>6. 6 \notin rungs
      BY <2>1, <2>2, <2>3, <2>4, <2>5
    <2>7. 7 \notin rungs
      BY <2>1, <2>2, <2>3, <2>4, <2>5, <2>6
    <2>8. 8 \notin rungs
      BY <2>1, <2>2, <2>3, <2>4, <2>5, <2>6, <2>7
    <2>9. PICK r \in rungs : r \in 1..8
      OBVIOUS
    <2>10. r \in {1, 2, 3, 4, 5, 6, 7, 8}
      BY <2>9
    <2> QED
      BY <2>1, <2>2, <2>3, <2>4, <2>5, <2>6, <2>7, <2>8, <2>9, <2>10
  <1>2. \E r \in rungs : \A q \in rungs : q <= r
    <2> SUFFICES ASSUME \A r \in rungs : \E q \in rungs : r < q
                 PROVE  FALSE
      OBVIOUS
    <2>1. 8 \notin rungs
      OBVIOUS
    <2>2. 7 \notin rungs
      BY <2>1
    <2>3. 6 \notin rungs
      BY <2>1, <2>2
    <2>4. 5 \notin rungs
      BY <2>1, <2>2, <2>3
    <2>5. 4 \notin rungs
      BY <2>1, <2>2, <2>3, <2>4
    <2>6. 3 \notin rungs
      BY <2>1, <2>2, <2>3, <2>4, <2>5
    <2>7. 2 \notin rungs
      BY <2>1, <2>2, <2>3, <2>4, <2>5, <2>6
    <2>8. 1 \notin rungs
      BY <2>1, <2>2, <2>3, <2>4, <2>5, <2>6, <2>7
    <2>9. PICK r \in rungs : r \in 1..8
      OBVIOUS
    <2>10. r \in {1, 2, 3, 4, 5, 6, 7, 8}
      BY <2>9
    <2> QED
      BY <2>1, <2>2, <2>3, <2>4, <2>5, <2>6, <2>7, <2>8, <2>9, <2>10
  <1> QED
    BY <1>1, <1>2 DEF Lowest, Highest

\* What an effort is clamped to is one of the model's, if any of these is known.
LEMMA ClampedIsSupported ==
    ASSUME NEW effort, effort # NoEffort, NEW model,
           \E l \in ToSet(model.efforts) : OnLadder(l)
    PROVE  ClampEffort(effort, model) \in ToSet(model.efforts)
  <1> DEFINE levels == ToSet(model.efforts)
             rungs == {Rung(l) : l \in {m \in levels : OnLadder(m)}}
             above == {r \in rungs : r >= Rung(effort)}
  <1>1. /\ rungs \in SUBSET (1..8) /\ rungs # {}
        /\ \A r \in rungs : Ladder[r] \in levels
    BY LadderRungs
  <1>2. Lowest(rungs) \in rungs /\ Highest(rungs) \in rungs
    BY <1>1, Extremes
  <1>3. Nearest(effort, rungs) \in rungs
    <2>1. CASE above = {}
      BY <1>2, <2>1 DEF Nearest
    <2>2. CASE above # {}
      <3>1. above \in SUBSET (1..8) /\ above \subseteq rungs
        BY <1>1
      <3>2. Lowest(above) \in above
        BY <2>2, <3>1, Extremes
      <3> QED
        BY <2>2, <3>1, <3>2 DEF Nearest
    <2> QED
      BY <2>1, <2>2
  <1>4. levels # {}
    OBVIOUS
  <1> HIDE DEF levels, rungs
  <1>5. ClampEffort(effort, model) =
          IF effort \in levels THEN effort
          ELSE IF ~OnLadder(effort) /\ model.default \in levels THEN model.default
          ELSE IF OnLadder(effort) THEN Ladder[Nearest(effort, rungs)]
          ELSE Ladder[Lowest(rungs)]
    BY <1>1, <1>4 DEF ClampEffort, levels, rungs
  <1>6. ClampEffort(effort, model) \in levels
    BY <1>1, <1>2, <1>3, <1>5
  <1> QED
    BY <1>6 DEF levels

\* The inductive invariant.
EffortInv == catalog \in Catalogs /\ IsRequest(asked) /\ EffortIsSupported

\* The effort that was fitted to the catalog is one that its model takes.
LEMMA RequestStays ==
    ASSUME NEW r, IsRequest(r), NEW f \in {"model", "effort"}, NEW v
    PROVE  LET q == [r EXCEPT ![f] = v] IN
           /\ IsRequest(q) /\ q[f] = v
           /\ \A x \in DOMAIN r \ {f} : q[x] = r[x]
           /\ ImageParts(q) = ImageParts(r) /\ Searches(q) = Searches(r)
           /\ \A p : At(q, p) = At(r, p)
  <1> DEFINE q == [r EXCEPT ![f] = v]
  <1>1. /\ DOMAIN q = DOMAIN r /\ q = [x \in DOMAIN q |-> q[x]] /\ q[f] = v
        /\ \A x \in DOMAIN r \ {f} : q[x] = r[x]
    BY DEF IsRequest
  <1>2. q.key = r.key /\ q.json = r.json /\ q.tools = r.tools /\ q.messages = r.messages
    BY <1>1 DEF IsRequest
  <1> HIDE DEF q
  <1>3. /\ ImageParts(q) = ImageParts(r) /\ Searches(q) = Searches(r)
        /\ \A p : At(q, p) = At(r, p)
    BY <1>2 DEF ImageParts, Places, At, Searches
  <1>4. IsRequest(q)
    BY <1>1, <1>2, <1>3 DEF IsRequest
  <1> QED
    BY <1>1, <1>3, <1>4 DEF q

LEMMA FittedIsSupported ==
    ASSUME IsRequest(asked), asked' = Fitted(catalog), seen' = catalog,
           NoEffort \notin ToSet(Ladder),
           \A i \in 1..Len(catalog) : NoEffort \notin ToSet(catalog[i].efforts)
    PROVE  IsRequest(asked') /\ EffortIsSupported'
  <1>1. CASE Wanted = NoEffort \/ ~Known(asked.model, catalog)
    <2>1. asked' = asked
      BY <1>1 DEF Fitted
    <2> QED
      BY <1>1, <2>1 DEF EffortIsSupported, Effort, Wanted, OnLadder
  <1>2. CASE Wanted # NoEffort /\ Known(asked.model, catalog)
    <2> DEFINE entry == Entry(asked.model, catalog)
               fitted == ClampEffort(Wanted, entry)
    <2>1. asked' = [asked EXCEPT !.effort = fitted]
      BY <1>2 DEF Fitted
    <2> HIDE DEF fitted
    <2>2. IsRequest(asked') /\ asked'.model = asked.model /\ asked'.effort = fitted
      BY <2>1, RequestStays
    <2>3. NoEffort \notin ToSet(entry.efforts)
      BY <1>2 DEF Known, Slugs, Entry
    <2> HIDE DEF entry
    <2>4. (\E l \in ToSet(entry.efforts) : OnLadder(l)) => fitted \in ToSet(entry.efforts)
      BY <1>2, ClampedIsSupported DEF fitted
    <2>5. ASSUME \E l \in ToSet(entry.efforts) : OnLadder(l), Effort' # NoEffort
          PROVE  Effort' \in ToSet(entry.efforts)
      <3>1. fitted # NoEffort
        BY <2>3, <2>4, <2>5
      <3>2. Wanted' = fitted
        BY <2>2, <3>1 DEF Wanted
      <3> QED
        BY <2>4, <2>5, <3>2 DEF Effort
    <2>6. Entry(asked'.model, seen') = entry
      BY <2>2 DEF entry
    <2> QED
      BY <2>2, <2>5, <2>6 DEF EffortIsSupported
  <1> QED
    BY <1>1, <1>2

LEMMA EffortBegins ==
    ASSUME \A r \in ChatRequests : IsRequest(r)
    PROVE  Init => EffortInv
  BY DEF Init, EffortInv, EffortIsSupported

LEMMA EffortStep ==
    ASSUME NoEffortIsNone, EffortInv, [Next]_vars
    PROVE  EffortInv'
  <1> USE DEF World, Goes, Refuse
  <1>1. CASE Arrive \/ Look \/ Refresh
    BY <1>1 DEF Arrive, Look, Refresh, EffortInv, EffortIsSupported
  <1>2. CASE Name
    <2>1. IsRequest(asked')
      BY <1>2, RequestStays DEF Name, EffortInv
    <2> QED
      BY <1>2, <2>1 DEF Name, EffortInv, EffortIsSupported
  <1>3. CASE NotFound
    BY <1>3 DEF NotFound, EffortInv, EffortIsSupported
  <1>4. CASE Check
    BY <1>4, FittedIsSupported DEF Check, EffortInv, NoEffortIsNone
  <1>5. CASE Change
    BY <1>5 DEF Change, EffortInv, EffortIsSupported
  <1>6. CASE UNCHANGED vars
    BY <1>6 DEF vars, EffortInv, EffortIsSupported, Effort, Wanted
  <1> QED
    BY <1>1, <1>2, <1>3, <1>4, <1>5, <1>6 DEF Next

\* A model that is still in the catalog is sent an effort it takes, whatever the
\* client or the operator asked for and whatever the catalog lists (catalog.rs,
\* clamp_effort).
THEOREM EffortsAreSupported ==
    ASSUME \A r \in ChatRequests : IsRequest(r), NoEffortIsNone
    PROVE  Spec => []EffortIsSupported
  <1>1. EffortInv => EffortIsSupported
    BY DEF EffortInv
  <1> QED
    BY <1>1, EffortBegins, EffortStep, PTL DEF Spec

-----------------------------------------------------------------------------
(* Counting.                                                                 *)

\* Every set of naturals has a least element.
LEMMA LeastNat ==
    ASSUME NEW S \in SUBSET Nat, S # {}
    PROVE  \E m \in S : \A n \in S : m <= n
  <1> DEFINE less == OpToRel(<, Nat)
  <1>1. IsWellFoundedOn(less, Nat)
    BY NatLessThanWellFounded
  <1>2. less = {ss \in Nat \X Nat : ss[1] < ss[2]}
    BY DEF OpToRel
  <1> HIDE DEF less
  <1>3. PICK m \in S : \A n \in S : <<n, m>> \notin less
    BY <1>1, WFMin
  <1>4. ASSUME NEW n \in S
        PROVE  m <= n
    <2>1. n < m => <<n, m>> \in {ss \in Nat \X Nat : ss[1] < ss[2]}
      OBVIOUS
    <2> QED
      BY <1>2, <1>3, <2>1
  <1> QED
    BY <1>4

\* One of finitely many places is behind all others.
LEMMA LastPlace ==
    ASSUME NEW S \in SUBSET (Nat \X Nat), IsFiniteSet(S), S # {}
    PROVE  \E p \in S : \A q \in S : ~Before(p, q)
  <1> DEFINE behind == [p \in S |-> {q \in S : Before(p, q)}]
             counts == {Cardinality(behind[p]) : p \in S}
  <1>1. \A p \in S : behind[p] \in SUBSET S
    OBVIOUS
  <1>2. \A p \in S : IsFiniteSet(behind[p]) /\ Cardinality(behind[p]) \in Nat
    BY <1>1, FS_Subset, FS_CardinalityType
  <1>3. counts \in SUBSET Nat /\ counts # {}
    BY <1>2
  <1>4. PICK p \in S : \A q \in S : Cardinality(behind[p]) <= Cardinality(behind[q])
    <2>1. PICK m \in counts : \A n \in counts : m <= n
      BY <1>3, LeastNat
    <2> HIDE DEF behind
    <2> QED
      BY <2>1
  <1>5. ASSUME NEW q \in S, Before(p, q)
        PROVE  FALSE
    <2>1. q \in behind[p] /\ q \notin behind[q]
      BY <1>5 DEF Before
    <2>2. behind[q] \in SUBSET behind[p]
      BY <1>5 DEF Before
    <2> HIDE DEF behind
    <2>3. behind[p] = behind[q]
      BY <1>2, <1>4, <2>2, FS_Subset
    <2> QED
      BY <2>1, <2>3
  <1> QED
    BY <1>5

LEMMA PlacesAreFinite ==
    ASSUME NEW r, IsRequest(r)
    PROVE  IsFiniteSet(ImageParts(r)) /\ ImageParts(r) \in SUBSET (Nat \X Nat)
  <1> DEFINE n == Len(r.messages)
             row == [i \in 1..n |-> {i} \X (1..Len(PartsOf(r.messages[i])))]
             rows == {row[i] : i \in 1..n}
  <1>1. n \in Nat /\ \A i \in 1..n : Len(PartsOf(r.messages[i])) \in Nat
    BY DEF IsRequest
  <1>2. Places(r) = UNION rows
    BY DEF Places
  <1>3. \A i \in 1..n : IsFiniteSet(row[i]) /\ row[i] \in SUBSET (Nat \X Nat)
    <2> TAKE i \in 1..n
    <2>1. IsFiniteSet({i})
      BY FS_Singleton
    <2>2. IsFiniteSet(1..Len(PartsOf(r.messages[i])))
      BY <1>1, FS_Interval
    <2>3. IsFiniteSet({i} \X (1..Len(PartsOf(r.messages[i]))))
      BY <2>1, <2>2, FS_Product
    <2> QED
      BY <1>1, <2>3
  <1>4. IsFiniteSet(rows)
    <2>1. IsFiniteSet(1..n)
      BY <1>1, FS_Interval
    <2> HIDE DEF row
    <2>2. row \in [1..n -> rows]
      <3>1. DOMAIN row = 1..n /\ row = [i \in 1..n |-> row[i]]
        BY DEF row
      <3> QED
        BY <3>1
    <2>3. row \in Surjection(1..n, rows)
      BY <2>2 DEF Surjection
    <2> QED
      BY <2>1, <2>3, FS_Surjection
  <1> HIDE DEF n, row
  <1>5. IsFiniteSet(UNION rows) /\ UNION rows \in SUBSET (Nat \X Nat)
    BY <1>3, <1>4, FS_UNION
  <1>6. ImageParts(r) \in SUBSET Places(r)
    BY DEF ImageParts
  <1> QED
    BY <1>2, <1>5, <1>6, FS_Subset

\* The last image is the first that a request with too many is refused for.
LEMMA ImagesAreCounted ==
    ASSUME NEW r, IsRequest(r), ContentIsValid(r), MaxImages \in Nat
    PROVE  Cardinality(ImageParts(r)) <= MaxImages
  <1>1. IsFiniteSet(ImageParts(r)) /\ ImageParts(r) \in SUBSET (Nat \X Nat)
    BY PlacesAreFinite
  <1>2. CASE ImageParts(r) = {}
    BY <1>2, FS_EmptySet
  <1>3. CASE ImageParts(r) # {}
    <2>1. PICK p \in ImageParts(r) : \A q \in ImageParts(r) : ~Before(p, q)
      BY <1>1, <1>3, LastPlace
    <2>2. {q \in ImageParts(r) : ~Before(p, q)} = ImageParts(r)
      BY <2>1
    <2>3. ~FaultyImage(r, p)
      BY DEF ContentIsValid
    <2>4. Rank(r, p) \in Nat /\ Rank(r, p) = Cardinality(ImageParts(r))
      BY <1>1, <2>2, FS_CardinalityType DEF Rank
    <2> QED
      BY <2>3, <2>4 DEF FaultyImage
  <1> QED
    BY <1>2, <1>3

\* A second search is refused for the first.
LEMMA SearchesAreCounted ==
    ASSUME NEW r, IsRequest(r), ContentIsValid(r)
    PROVE  Cardinality(Searches(r)) <= 1
  <1>1. \A i, j \in Searches(r) : i = j
    <2> SUFFICES ASSUME NEW i \in Searches(r), NEW j \in Searches(r), j < i
                 PROVE  FALSE
      BY DEF Searches, IsRequest
    <2>1. i \in 1..Len(r.tools) /\ r.tools[i].type = "web_search"
      BY DEF Searches
    <2>2. ~FaultyTool(r, i)
      BY <2>1 DEF ContentIsValid
    <2> QED
      BY <2>1, <2>2 DEF FaultyTool
  <1>2. CASE Searches(r) = {}
    BY <1>2, FS_EmptySet
  <1>3. CASE Searches(r) # {}
    <2>1. PICK i : Searches(r) = {i}
      BY <1>1, <1>3
    <2> QED
      BY <2>1, FS_Singleton
  <1> QED
    BY <1>2, <1>3

\* The inductive invariant: beyond its arrival a request has its key and its form,
\* and what is forwarded has valid content.
BoundsInv ==
    /\ IsRequest(asked)
    /\ stage \notin {"arrived", "refused"} =>
           asked.key \in {"unset", "right"} /\ asked.json = "ok"
    /\ stage = "forwarded" => ContentIsValid(asked)

LEMMA BoundsBegin ==
    ASSUME \A r \in ChatRequests : IsRequest(r)
    PROVE  Init => BoundsInv
  BY DEF Init, BoundsInv

LEMMA BoundsStep ==
    ASSUME BoundsInv, [Next]_vars
    PROVE  BoundsInv'
  <1> USE DEF World, Goes, Refuse, BoundsInv
  <1>1. CASE Arrive
    BY <1>1 DEF Arrive, IsRequest
  <1>2. CASE Name
    <2>1. PICK v : asked' \in {asked, [asked EXCEPT !.model = v]}
      BY <1>2 DEF Name
    <2>2. IsRequest(asked') /\ asked'.key = asked.key /\ asked'.json = asked.json
      BY <2>1, RequestStays DEF IsRequest
    <2> QED
      BY <1>2, <2>2 DEF Name
  <1>3. CASE Look \/ Refresh
    BY <1>3 DEF Look, Refresh
  <1>4. CASE NotFound
    BY <1>4 DEF NotFound
  <1>5. CASE Check
    <2>1. PICK v : asked' \in {asked, [asked EXCEPT !.effort = v]}
      BY <1>5 DEF Check, Fitted
    <2>2. IsRequest(asked') /\ asked'.key = asked.key /\ asked'.json = asked.json
      BY <2>1, RequestStays DEF IsRequest
    <2> QED
      BY <1>5, <2>2 DEF Check
  <1>6. CASE Change
    BY <1>6 DEF Change
  <1>7. CASE UNCHANGED vars
    BY <1>7 DEF vars
  <1> QED
    BY <1>1, <1>2, <1>3, <1>4, <1>5, <1>6, <1>7 DEF Next

LEMMA BoundsHold ==
    ASSUME MaxImages \in Nat, MaxDataBytes \in Nat, BoundsInv
    PROVE  ForwardedIsWithinBounds
  <1> SUFFICES ASSUME stage = "forwarded"
               PROVE  /\ asked.key \in {"unset", "right"} /\ asked.json = "ok"
                      /\ Cardinality(ImageParts(asked)) <= MaxImages
                      /\ Cardinality(Searches(asked)) <= 1
                      /\ \A p \in ImageParts(asked) :
                           LET url == At(asked, p).url IN
                           /\ asked.messages[p[1]].role = "user"
                           /\ url.scheme = "data" => Decoded(url) \in 1..MaxDataBytes
    BY DEF ForwardedIsWithinBounds
  <1>1. /\ IsRequest(asked) /\ ContentIsValid(asked)
        /\ asked.key \in {"unset", "right"} /\ asked.json = "ok"
    BY DEF BoundsInv
  <1>2. ASSUME NEW p \in ImageParts(asked)
        PROVE  LET url == At(asked, p).url IN
               /\ asked.messages[p[1]].role = "user"
               /\ url.scheme = "data" => Decoded(url) \in 1..MaxDataBytes
    <2> DEFINE url == At(asked, p).url
    <2>1. asked.messages[p[1]].role = "user" /\ ValidUrl(url)
      BY <1>1 DEF ContentIsValid, FaultyImage
    <2>2. url.scheme = "data" =>
             /\ url.encoded \in Nat /\ url.padding \in 0..2
             /\ url.decodes => url.encoded % 4 = 0
      BY <1>1 DEF IsRequest
    <2> HIDE DEF url
    <2>3. ASSUME url.scheme = "data"
          PROVE  Decoded(url) \in 1..MaxDataBytes
      <3>1. url.encoded > 0 /\ url.decodes /\ Decoded(url) <= MaxDataBytes
        BY <2>1, <2>3 DEF ValidUrl, ValidDataUrl
      <3>2. url.encoded \div 4 \in Nat /\ url.encoded \div 4 >= 1
        BY <2>2, <2>3, <3>1
      <3> QED
        BY <2>2, <2>3, <3>1, <3>2 DEF Decoded
    <2> QED
      BY <2>1, <2>3 DEF url
  <1> QED
    BY <1>1, <1>2, ImagesAreCounted, SearchesAreCounted

\* However many messages, images and tools a request has: what is forwarded has
\* passed the key and the parser, and keeps to the bounds that are counted over all
\* of it (models.rs, validate_content).
THEOREM BoundsAreKept ==
    ASSUME \A r \in ChatRequests : IsRequest(r),
           MaxImages \in Nat, MaxDataBytes \in Nat
    PROVE  Spec => []ForwardedIsWithinBounds
  BY BoundsBegin, BoundsStep, BoundsHold, PTL DEF Spec
=============================================================================
