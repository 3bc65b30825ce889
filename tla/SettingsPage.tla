---------------------------- MODULE SettingsPage ----------------------------
(***************************************************************************)
(* The settings in the window (desktop/ui/app.js).  What is typed into a   *)
(* field is a draft; half a second later, or on leaving the field, it is   *)
(* committed to a queue of saves that go to the service one by one.        *)
(* Meanwhile the page asks for the status every second and a half, and     *)
(* whatever answer it gets, to a poll, a save or an action, it renders.    *)
(* Buttons first flush what was typed.                                     *)
(*                                                                         *)
(* The answers of several requests may arrive in any order.                *)
(***************************************************************************)
EXTENDS Naturals, SequencesExt

CONSTANTS
    Inputs,    \* the fields to type into, in the order of the document
    Texts,     \* what may be typed,
    Faulty,    \* what the browser's validation rejects of it
    Clicks,    \* clicks on the buttons of actions
    Polls,     \* requests for the status that may be under way
    NoText,    \* no draft, or nothing that was typed
    MaxEdits   \* bound on what is typed

VARIABLES
    saved,    \* settings.json, as the service has it
    rendered, \* `state`: the settings of the status that was rendered last
    field,    \* what each field shows
    focus,    \* the field that has the focus, as a set
    draft,    \* `drafts`
    timers,   \* the fields whose timer runs
    queue,    \* saveQueue; settingsPending is its length
    reply,    \* the answer to the save at its head
    ended,    \* the saves that have left the queue
    busy,
    click,    \* what has become of each click (history: and the texts it `wants` to
              \* be saved, those that were typed last when it was made)
    poll,     \* what has become of each poll
    edits,
    typed,    \* history: what was last typed into each field
    refused,  \* history: the fields a save of which was refused
    astray    \* history: the fields whose last text may be lost. Its commit was dropped,
              \* although the service had another text: the rendered status was out of
              \* date. Or an older save of the same text took its draft.

fields == <<field, focus, draft, timers>>
saving == <<queue, reply, ended>>
history == <<edits, typed, refused, astray>>
vars == <<saved, rendered, fields, saving, busy, click, poll, history>>

Names == ToSet(Inputs)
Nothing == [f \in Names |-> NoText]
Pending == queue # <<>>

\* A request is new, asked, or answered with a status.
NoReply == [at |-> "new", status |-> Nothing]
Answered(status) == [at |-> "answered", status |-> status]

Init ==
    /\ \E text \in Texts \ Faulty : saved = [f \in Names |-> text]
    /\ rendered = saved /\ field = saved
    /\ focus = {} /\ draft = Nothing /\ timers = {}
    /\ queue = <<>> /\ reply = NoReply /\ ended = 0
    /\ busy = FALSE
    /\ click = [c \in Clicks |-> [at |-> "new", awaits |-> 0, wants |-> Nothing,
                                  status |-> Nothing]]
    /\ poll = [p \in Polls |-> NoReply]
    /\ edits = 0
    /\ typed = Nothing /\ refused = {} /\ astray = {}

\* render, syncSettings: a field with a draft, or with the focus, is left alone.
Render(status, drafts) ==
    /\ rendered' = status
    /\ field' = [f \in Names |-> IF drafts[f] # NoText \/ f \in focus THEN field[f]
                                 ELSE status[f]]

-----------------------------------------------------------------------------
(* Typing.                                                                   *)

\* The listener of "input".
Type(f, text) ==
    /\ edits < MaxEdits /\ edits' = edits + 1
    /\ focus \subseteq {f} /\ focus' = {f}
    /\ field' = [field EXCEPT ![f] = text]
    /\ draft' = [draft EXCEPT ![f] = text]
    /\ timers' = timers \cup {f}
    /\ typed' = [typed EXCEPT ![f] = text]
    /\ astray' = astray \ {f}
    /\ click' = [c \in Clicks |-> [click[c] EXCEPT !.wants[f] = NoText]]
    /\ UNCHANGED <<saved, rendered, saving, busy, poll, refused>>

\* Mutant of IsSaved: saves that are on their way are not minded.
IsShownSaved(f, pending) == rendered[f] = field[f]

\* What the field shows is what is saved, and nothing is on its way to change that.
IsSaved(f, pending) == rendered[f] = field[f] /\ ~pending

\* commitInput, of the draft, the queue and the history of being astray.
Committed(r, f) ==
    IF field[f] \in Faulty THEN r
    ELSE IF IsSaved(f, r.queue # <<>>)
    THEN [r EXCEPT !.draft[f] = NoText,
                   !.astray = IF saved[f] = field[f] THEN @ ELSE @ \cup {f}]
    ELSE [r EXCEPT !.draft[f] = field[f],
                   !.queue = Append(@, [field |-> f, text |-> field[f]])]

\* It is called for the fields of a set in the order of the document.
Commits(fs) ==
    LET R[i \in 0..Len(Inputs)] ==
            IF i = 0 THEN [draft |-> draft, queue |-> queue, astray |-> astray]
            ELSE IF Inputs[i] \in fs THEN Committed(R[i - 1], Inputs[i])
            ELSE R[i - 1]
    IN  R[Len(Inputs)]

Commit(fs) ==
    /\ draft' = Commits(fs).draft /\ queue' = Commits(fs).queue
    /\ astray' = Commits(fs).astray
    /\ timers' = timers \ fs

\* Half a second has passed since the last key.
TimerFires(f) ==
    /\ f \in timers
    /\ Commit({f})
    /\ UNCHANGED <<saved, rendered, field, focus, reply, ended, busy, click, poll,
                   edits, typed, refused>>

\* The field is left, with an event "change".
Leave(f) ==
    /\ f \in focus
    /\ focus' = {}
    /\ Commit({f})
    /\ UNCHANGED <<saved, rendered, field, reply, ended, busy, click, poll, edits,
                   typed, refused>>

-----------------------------------------------------------------------------
(* Saving.                                                                   *)

\* Relay::configure, for the save at the head: it is written, or refused.
Configure ==
    LET save == Head(queue) IN
    /\ Pending /\ reply.at = "new"
    /\ \/ /\ saved' = [saved EXCEPT ![save.field] = save.text]
          /\ reply' = Answered(saved')
          /\ UNCHANGED refused
       \/ /\ reply' = [NoReply EXCEPT !.at = "refused"]
          /\ refused' = refused \cup {save.field}
          /\ UNCHANGED saved
    /\ UNCHANGED <<rendered, fields, queue, ended, busy, click, poll, edits,
                   typed, astray>>

\* The draft of a field that was saved goes, unless something else was typed since.
Kept(save) == [draft EXCEPT ![save.field] = IF @ = save.text THEN NoText ELSE @]

\* The rest of saveSetting.
SaveEnds ==
    /\ Pending /\ reply.at # "new"
    /\ IF reply.at = "refused"
       THEN Render(rendered, draft) /\ UNCHANGED draft
       ELSE draft' = Kept(Head(queue)) /\ Render(reply.status, draft')
    /\ astray' = astray \cup {f \in Names : /\ draft'[f] # draft[f]
                                           /\ \/ f \in timers
                                              \/ \E i \in 2..Len(queue) : queue[i].field = f}
    /\ queue' = Tail(queue) /\ reply' = NoReply /\ ended' = ended + 1
    /\ UNCHANGED <<saved, focus, timers, busy, click, poll, edits, typed, refused>>

-----------------------------------------------------------------------------
(* Polls and actions.                                                        *)

\* refresh
Refresh(p) ==
    /\ poll[p].at = "new" /\ ~busy /\ ~Pending
    /\ poll' = [poll EXCEPT ![p].at = "asked"]
    /\ UNCHANGED <<saved, rendered, fields, saving, busy, click, history>>

\* The service reads the settings; the answer may be long on its way.
PollReads(p) ==
    /\ poll[p].at = "asked"
    /\ poll' = [poll EXCEPT ![p] = Answered(saved)]
    /\ UNCHANGED <<saved, rendered, fields, saving, busy, click, history>>

PollArrives(p) ==
    /\ poll[p].at = "answered"
    /\ Render(poll[p].status, draft)
    /\ poll' = [poll EXCEPT ![p] = NoReply]
    /\ UNCHANGED <<saved, focus, draft, timers, saving, busy, click, history>>

\* Mutant of Flush: what was typed is left to its timer.
FlushNothing == Commit({})

\* flushSettings
Flush == Commit({f \in Names : draft[f] # NoText})

\* action, or quit: the queue is awaited as it is after the flush.
Click(c) ==
    /\ click[c].at = "new" /\ ~busy
    /\ Flush
    /\ click' = [click EXCEPT ![c].at = "flushing", ![c].wants = typed,
                              ![c].awaits = ended + Len(queue')]
    /\ UNCHANGED <<saved, rendered, field, focus, reply, ended, busy, poll, edits,
                   typed, refused>>

\* `busy` was looked at before the flush: two clicks may both get here.
Acts(c) ==
    /\ click[c].at = "flushing" /\ ended >= click[c].awaits
    /\ click' = [click EXCEPT ![c].at = "acting"]
    /\ busy' = TRUE
    /\ UNCHANGED <<saved, rendered, fields, saving, poll, history>>

ActionReads(c) ==
    /\ click[c].at = "acting"
    /\ click' = [click EXCEPT ![c].at = "acted", ![c].status = saved]
    /\ UNCHANGED <<saved, rendered, fields, saving, busy, poll, history>>

\* The answer of the action is a status, or else an error.
ActionEnds(c) ==
    /\ click[c].at = "acted"
    /\ Render(click[c].status, draft) \/ UNCHANGED <<rendered, field>>
    /\ click' = [click EXCEPT ![c].at = "over"]
    /\ busy' = FALSE
    /\ UNCHANGED <<saved, focus, draft, timers, saving, poll, history>>

Next ==
    \/ \E f \in Names : \/ TimerFires(f) \/ Leave(f)
                        \/ \E text \in Texts : Type(f, text)
    \/ Configure \/ SaveEnds
    \/ \E p \in Polls : Refresh(p) \/ PollReads(p) \/ PollArrives(p)
    \/ \E c \in Clicks : Click(c) \/ Acts(c) \/ ActionReads(c) \/ ActionEnds(c)

Spec == Init /\ [][Next]_vars

-----------------------------------------------------------------------------
(* Properties.                                                               *)

\* What was typed is never lost: the field's draft holds it, or a save that is on
\* its way, or the settings; unless the page dropped it on the word of a status that
\* was out of date, or an older save of the same text took its draft.
EditsAreKept ==
    \A f \in Names :
        \/ typed[f] = NoText \/ f \in astray
        \/ draft[f] = typed[f] \/ saved[f] = typed[f]
        \/ \E i \in DOMAIN queue : queue[i] = [field |-> f, text |-> typed[f]]

\* An action, such as a restart, finds the settings as they were typed before the
\* click, but for what was rejected, refused or lost as above.
ActionsSeeEdits ==
    \A c \in Clicks, f \in Names :
        LET wanted == click[c].wants[f] IN
        /\ click[c].at = "acting"
        /\ wanted \notin Faulty \cup {NoText} /\ f \notin refused \cup astray
        => saved[f] = wanted
=============================================================================
