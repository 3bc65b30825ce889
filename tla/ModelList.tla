----------------------------- MODULE ModelList -----------------------------
(***************************************************************************)
(* From the vendor's catalog document, or the built-in list, and the       *)
(* operator's extra models to the list that /v1/models shows and requests  *)
(* are checked against (src/core/catalog.rs).                              *)
(*                                                                         *)
(* A slug is its text without the spaces around it; of some, nothing is    *)
(* left.                                                                   *)
(***************************************************************************)
EXTENDS Integers, SequencesExt

CONSTANTS
    Documents, \* the `models` arrays of the vendor: sequences of items
    Extras,    \* the values of RELAY_EXTRA_MODELS: sequences of slugs
    Fallback,  \* FALLBACK_MODELS
    Absent,    \* a field that is missing, or of the wrong type
    MaxInt     \* the greatest priority, i64::MAX

VARIABLES
    entry,    \* the models of the vendor's last answer, or <<>>
    document, \* history: the document they were parsed from
    extra,    \* the operator's models
    shown,    \* the models that were served last
    from      \* history: the document behind these

vars == <<entry, document, extra, shown, from>>

Slugs(models) == {models[i].slug : i \in DOMAIN models}

\* CatalogModel::bare
Bare(slug, priority) ==
    [slug |-> slug, listed |-> TRUE, priority |-> priority, tiers |-> Absent]

-----------------------------------------------------------------------------
(* The document.                                                             *)

\* The first item of each slug that has one.
Usable(items) ==
    {i \in DOMAIN items :
        /\ items[i].slug \notin {Absent, ""}
        /\ \A j \in 1..(i - 1) : items[j].slug # items[i].slug}

\* service_tiers: malformed ones are left out, and if that leaves none nothing is
\* said of tiers, whereas the vendor's own empty list is kept.
ServiceTiers(tiers) ==
    IF tiers = Absent THEN Absent
    ELSE LET good == SelectSeq(tiers, LAMBDA t : t # Absent)
         IN  IF good = <<>> /\ tiers # <<>> THEN Absent ELSE good

Parsed(item) ==
    [slug |-> item.slug,
     listed |-> item.visibility \in {Absent, "list"},
     priority |-> IF item.priority = Absent THEN MaxInt ELSE item.priority,
     tiers |-> ServiceTiers(item.tiers)]

\* Mutant of Earlier: the last comes first among equals.
EarlierFromTheEnd(items, i, j) ==
    \/ Parsed(items[i]).priority < Parsed(items[j]).priority
    \/ Parsed(items[i]).priority = Parsed(items[j]).priority /\ i > j

\* By priority, and in the order of the document among equals.
Earlier(items, i, j) ==
    \/ Parsed(items[i]).priority < Parsed(items[j]).priority
    \/ Parsed(items[i]).priority = Parsed(items[j]).priority /\ i < j

\* parse_catalog: each item behind the ones that come earlier; <<>> stands for its
\* error.
ParseCatalog(items) ==
    LET usable == Usable(items)
        Place(i) == Cardinality({j \in usable : j = i \/ Earlier(items, j, i)})
    IN  [n \in 1..Cardinality(usable) |->
             Parsed(items[CHOOSE i \in usable : Place(i) = n])]

-----------------------------------------------------------------------------
(* The extra models.                                                         *)

\* parse_extra_models: trimmed, without empty ones and repetitions.
ParseExtraModels(slugs) ==
    LET Out[n \in 0..Len(slugs)] ==
            IF n = 0 THEN <<>>
            ELSE IF slugs[n] = "" \/ Contains(Out[n - 1], slugs[n]) THEN Out[n - 1]
            ELSE Append(Out[n - 1], slugs[n])
    IN  Out[Len(slugs)]

\* A sum of priorities, in 64 bits.
Next64(priority) == IF priority = MaxInt THEN -MaxInt - 1 ELSE priority + 1

Highest(models) ==
    IF models = <<>> THEN 0
    ELSE CHOOSE p \in {models[i].priority : i \in DOMAIN models} :
             \A i \in DOMAIN models : models[i].priority <= p

\* with_extras: those that the list does not have by then, after the rest.
WithExtras(models, slugs) ==
    LET Joined[n \in 0..Len(slugs)] ==
            IF n = 0 THEN [models |-> models, next |-> Next64(Highest(models))]
            ELSE LET before == Joined[n - 1] IN
                 IF slugs[n] \in Slugs(before.models) THEN before
                 ELSE [models |-> Append(before.models, Bare(slugs[n], before.next)),
                       next |-> Next64(before.next)]
    IN  Joined[Len(slugs)].models

FallbackModels == [n \in DOMAIN Fallback |-> Bare(Fallback[n], n - 1)]

\* model_list_from
Advertised(models) == SelectSeq(models, LAMBDA m : m.listed)

-----------------------------------------------------------------------------
Init ==
    /\ entry = <<>> /\ document = <<>> /\ shown = <<>> /\ from = <<>>
    /\ \E slugs \in Extras : extra = ParseExtraModels(slugs)

\* A refresh: a document without a usable item is an error and changes nothing.
Fetch ==
    /\ \E items \in Documents :
         LET models == ParseCatalog(items) IN
         models # <<>> /\ entry' = models /\ document' = items
    /\ UNCHANGED <<extra, shown, from>>

\* The answer is retired with the credentials that fetched it.
Retire ==
    /\ entry # <<>>
    /\ entry' = <<>> /\ document' = <<>>
    /\ UNCHANGED <<extra, shown, from>>

Serve ==
    /\ shown' = WithExtras(IF entry = <<>> THEN FallbackModels ELSE entry, extra)
    /\ from' = document
    /\ UNCHANGED <<entry, document, extra>>

Next == Fetch \/ Retire \/ Serve

Spec == Init /\ [][Next]_vars

-----------------------------------------------------------------------------
(* Properties.                                                               *)

\* What is served has each model of the vendor and of the operator once, the
\* vendor's first, in the order of their priorities and among equals in that of
\* the document, also where a model without a priority has the greatest there is.
ServedInOrder ==
    shown # <<>> =>
        LET Places(i) == {k \in DOMAIN from : from[k].slug = shown[i].slug}
            First(i) == CHOOSE k \in Places(i) : \A l \in Places(i) : k <= l
            vendors == {i \in DOMAIN shown : Places(i) # {}}
        IN  /\ \A i, j \in DOMAIN shown : shown[i].slug = shown[j].slug => i = j
            /\ Slugs(from) \ {Absent, ""} \subseteq Slugs(shown)
            /\ ToSet(extra) \subseteq Slugs(shown)
            /\ \A i \in vendors, j \in DOMAIN shown :
                 /\ j \notin vendors => i < j
                 /\ j \in vendors /\ i < j =>
                      \/ shown[i].priority < shown[j].priority
                      \/ shown[i].priority = shown[j].priority /\ First(i) < First(j)

\* "Slugs always accepted and advertised on top of whatever the catalog says (a
\* slug the backend hides ...)": an extra model is among those that are shown.
ExtrasAreAdvertised ==
    shown # <<>> => ToSet(extra) \subseteq Slugs(Advertised(shown))
=============================================================================
