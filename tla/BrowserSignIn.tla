--------------------------- MODULE BrowserSignIn ---------------------------
(***************************************************************************)
(* A sign-in in the browser and the credential file it leaves.  A helper   *)
(* process (src/login/login_with_chatgpt.py) waits on a port of the        *)
(* loopback for the browser to come back, and writes an auth.json into a   *)
(* directory of its own; the relay (src/login/lib.rs) checks that file and *)
(* installs it over the one of the slot, which leases read and refreshes   *)
(* rewrite.  How these steps interleave with the other operations of the   *)
(* router is in AccountRouter; here it is what the file holds.             *)
(***************************************************************************)
EXTENDS Integers, Sequences

CONSTANTS
    Candidates, \* the interpreters to probe, in order
    Working,    \* those that answer the probe
    PythonSettings, \* the values RELAY_PYTHON may have, Absent too
    Grants,     \* what the vendor may give for a code
    TokenAnswers, \* what it may give for a refresh token
    OldFiles,   \* auth.json files of earlier versions or of other programs
    Absent,
    MaxAge,     \* the calendar of refreshes: 28 days
    Skew,       \* the hour before the end of an access token
    MaxTime     \* bound on the clock

VARIABLES
    clock,
    port,       \* another process listens on the helper's port
    helper,     \* none, listening, closing or exited
    code,       \* the exit code it has, or will have
    staged,     \* the auth.json in its directory
    login,      \* idle, running, or staged: checked and to be installed
    file,       \* the auth.json of the slot
    author,     \* history: who wrote it: old, signIn, or refresh
    refreshing  \* the credentials that a lease is refreshing

vars == <<clock, port, helper, code, staged, login, file, author, refreshing>>

Opaque == -1    \* the exp of an access token that is no JWT

\* Tokens and account ids are "", "blank" (only spaces) or some text.
HasText(t) == t \notin {"", "blank", Absent}

\* python_interpreter: a configured one is probed alone.
Interpreters(setting) ==
    SelectSeq(IF setting # Absent THEN <<setting>> ELSE Candidates,
              LAMBDA p : p \in Working)

-----------------------------------------------------------------------------
(* The file: an API key, and tokens.  Its id token is raw, as the vendor     *)
(* gave it; or it is fields, the trace of a defect of an earlier version; or *)
(* it is opaque, and nothing can be read from it.  One that is short has not *)
(* three parts, and is not accepted.                                         *)

File == [key : BOOLEAN, tokens : BOOLEAN, id : {"raw", "fields", "opaque"},
         plan : STRING \cup {Absent}, access : [text : STRING, exp : Int],
         refresh : STRING, account : STRING \cup {Absent}, since : Int \cup {Absent}]

\* What the vendor gives for a code, and for a refresh token.
Grant == [id : {"raw", "opaque", "short"}, plan : STRING, named : STRING,
          accessNamed : STRING, access : STRING, refresh : STRING, life : Int]
Answer == [id : {"raw", "opaque"}, plan : STRING \cup {Absent},
           access : STRING \cup {Absent}, life : Int, refresh : STRING \cup {Absent}]

Readable(doc) == doc # Absent /\ (doc.tokens => doc.id \in {"raw", "fields"})

\* is_plan_that_should_use_api_key
Metered(plan) == plan \notin {"free", "plus", "pro", "team"}

\* load_auth: an API key is used where no tokens are, or the plan is metered.
IsSubscription(doc) == doc.key => doc.tokens /\ ~Metered(doc.plan)

\* access_token_expiring, jwt_expires_at
Expiring(access, now) == access.exp # Opaque /\ access.exp <= now + Skew

\* get_token_data
Stale(doc, now) == doc.since < now - MaxAge \/ Expiring(doc.access, now)

\* lease_slot, before the tokens are looked at.
Loads(doc) ==
    /\ Readable(doc) /\ IsSubscription(doc)
    /\ doc.tokens /\ doc.since # Absent

\* What lease_slot demands of the tokens it hands out.
Complete(doc) == HasText(doc.access.text) /\ HasText(doc.account)

\* Mutant of Written: the fields of the id token are written in its place.
WrittenAsFields(doc) == [doc EXCEPT !.id = "fields"]

\* write_auth_json: the id token is written as the vendor gave it.
Written(doc) == [doc EXCEPT !.id = "raw"]

-----------------------------------------------------------------------------
Init ==
    /\ clock = 0 /\ port \in BOOLEAN
    /\ helper = "none" /\ code = 1 /\ staged = Absent /\ login = "idle"
    /\ file \in OldFiles /\ author = "old"
    /\ refreshing = Absent

signIn == <<helper, code, staged, login>>
store == <<file, author, refreshing>>

\* staged_chatgpt_login, login_with_chatgpt and main of the helper: an
\* interpreter is found, the helper starts, and its port is free or not.
Begin ==
    /\ login = "idle"
    /\ \E setting \in PythonSettings : Interpreters(setting) # <<>>
    /\ login' = "running"
    /\ IF port THEN helper' = "exited" /\ code' = 13
               ELSE helper' = "listening" /\ code' = 1
    /\ UNCHANGED <<clock, port, staged, store>>

\* The account: of the id token, or else of the access token.
AccountOf(grant) ==
    IF grant.id = "raw" /\ grant.named # "" THEN grant.named ELSE grant.accessNamed

\* _exchange_code: an id token in three parts, tokens that are not empty.
Accepted(grant) ==
    /\ grant.id # "short"
    /\ "" \notin {AccountOf(grant), grant.access, grant.refresh}

\* The end that an access token which lives so long names for itself.
EndOf(life) == IF life = Opaque THEN Opaque ELSE clock + life

\* _write_auth_file
Bundle(grant) ==
    [key |-> FALSE, tokens |-> TRUE, id |-> grant.id,
     plan |-> IF grant.id = "raw" THEN grant.plan ELSE Absent,
     access |-> [text |-> grant.access,
                 exp |-> EndOf(grant.life)],
     refresh |-> grant.refresh, account |-> AccountOf(grant), since |-> clock]

\* The browser comes back with the state of this sign-in and a code; any other
\* request is refused and changes nothing.  A failure ends the helper, with the
\* exit code of a callback before it.
Callback ==
    /\ helper \in {"listening", "closing"}
    /\ \/ \E grant \in Grants :
            /\ Accepted(grant)
            /\ staged' = Bundle(grant) /\ code' = 0
            /\ UNCHANGED helper
       \/ helper' = "closing" /\ UNCHANGED <<staged, code>>
    /\ UNCHANGED <<clock, port, login, store>>

\* The browser shows the page of success, and the helper ends.
Success ==
    /\ helper = "listening" /\ code = 0
    /\ helper' = "closing"
    /\ UNCHANGED <<clock, port, staged, code, login, store>>

Exit ==
    /\ helper = "closing"
    /\ helper' = "exited"
    /\ UNCHANGED <<clock, port, staged, code, login, store>>

Over == helper' = "none" /\ login' = "idle" /\ staged' = Absent /\ UNCHANGED code

\* The end of login_with_chatgpt and of staged_chatgpt_login.
Collect ==
    /\ login = "running" /\ helper = "exited"
    /\ IF code = 0 /\ Readable(staged) /\ staged.tokens
       THEN login' = "staged" /\ helper' = "none" /\ UNCHANGED <<staged, code>>
       ELSE Over
    /\ UNCHANGED <<clock, port, store>>

\* The sign-in is cancelled, or its time is up: the child is killed and the
\* directory removed.
GiveUp ==
    /\ login # "idle"
    /\ Over
    /\ UNCHANGED <<clock, port, store>>

\* install_staged_login, under the lock of refreshes; the write may fail.
Install ==
    /\ login = "staged" /\ refreshing = Absent
    /\ \/ /\ Complete(staged) /\ HasText(staged.refresh)
          /\ file' = Written(staged) /\ author' = "signIn"
       \/ UNCHANGED <<file, author>>
    /\ Over
    /\ UNCHANGED <<clock, port, refreshing>>

\* logout
Remove ==
    /\ refreshing = Absent
    /\ file' = Absent /\ author' = "old"
    /\ UNCHANGED <<clock, port, signIn, refreshing>>

\* lease_slot and get_token_data: credentials that are stale are refreshed first;
\* others are handed out as they lie there, which changes nothing.
Lease ==
    /\ refreshing = Absent /\ Loads(file) /\ Stale(file, clock)
    /\ refreshing' = file
    /\ UNCHANGED <<clock, port, signIn, file, author>>

\* update_tokens: what the answer leaves out stays as it was.
Updated(doc, answer) ==
    Written([doc EXCEPT !.plan = answer.plan, !.since = clock,
                        !.access = IF answer.access = Absent THEN @
                                   ELSE [text |-> answer.access, exp |-> EndOf(answer.life)],
                        !.refresh = IF answer.refresh = Absent THEN @
                                    ELSE answer.refresh])

\* The refresh answers, or fails: a refusal, the timeout, or an id token that
\* cannot be read, which leaves the file as it was.
Refreshed ==
    /\ refreshing # Absent
    /\ \E answer \in TokenAnswers :
         IF answer.id = "raw"
         THEN /\ file' = Updated(file, answer)
              /\ author' = IF author = "signIn" THEN author ELSE "refresh"
         ELSE UNCHANGED <<file, author>>
    /\ refreshing' = Absent
    /\ UNCHANGED <<clock, port, signIn>>

Tick ==
    /\ clock < MaxTime
    /\ clock' = clock + 1
    /\ UNCHANGED <<port, signIn, store>>

Next == \/ Begin \/ Callback \/ Success \/ Exit \/ Collect \/ GiveUp \/ Install
        \/ Remove \/ Lease \/ Refreshed \/ Tick

Spec == Init /\ [][Next]_vars

-----------------------------------------------------------------------------
(* Properties.                                                               *)

\* A sign-in leaves a file that every later lease can use, whatever refreshes
\* rewrite it: it is read again, as a subscription, and holds the tokens, the
\* account and the raw id token.  What a refresh writes is never the form that
\* only the repair in deserialize_id_token reads.
SignedInMeansUsable ==
    /\ author = "signIn" => Loads(file) /\ Complete(file) /\ HasText(file.refresh)
    /\ author # "old" => file.id = "raw"
=============================================================================
