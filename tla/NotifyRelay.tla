----------------------------- MODULE NotifyRelay -----------------------------
(* compose/notify-relay: the one voice of the box. Producers post notices and *)
(* decisions; each decision has one Telegram message, edited when it is       *)
(* posted again and deleted when it is answered. The relay is one event loop: *)
(* what a handler does between two awaits is one action, and other handlers   *)
(* run while it waits for Telegram.                                           *)
EXTENDS Envelope

CONSTANTS
    Decisions,      \* decision ids
    Handlers,       \* requests the relay may have at once
    Messages,       \* message ids Telegram may give out
    MaxVersion,     \* how often a producer changes one decision
    MaxFaults,      \* refusals, unclear answers, restarts, deletions by the owner
    Notes           \* what producers post to /notify, /text and /devclaw

None == "none"      \* no message

ASSUME RelayAssumption ==
    /\ MaxVersion \in Nat /\ MaxFaults \in Nat
    /\ Decisions # {} /\ None \notin Messages

ASSUME NotesAssumption ==
    \A p \in Notes :
        \/ p.route = "/notify" /\ p.envelope \in Notices
        \/ p.route = "/text" /\ p.first \in Texts /\ p.rest \in Texts
        \/ p.route = "/devclaw" /\ p.row \in Rows

VARIABLES
    at,         \* what a handler waits for: the Bot API call it made
    on, ver,    \* the decision it is about, and the text it wants shown
    known,      \* the message it edits or deletes, or the one it has sent
    got,        \* Telegram's answer, once it is there
    tracked,    \* decisionMessages: decision id -> message id, in memory
    chat,       \* the owner's chat: <<decision, version>> of a message that is there
    newest,     \* the version posted last
    told,       \* what the last 200 about a decision said, unless the owner took it away
    crossed,    \* history: decisions two requests were about at once
    loose,      \* history: messages the relay was made to forget
    overlong,   \* history: an envelope's message over Telegram's limit was sent
    faults

relay == <<at, on, ver, known, got>>
vars  == <<relay, tracked, chat, newest, told, crossed, loose, overlong, faults>>

Calls == {"idle", "edit", "send", "delete", "note"}
Gone  == <<>>
AnyDecision == CHOOSE d \in Decisions : TRUE

Init ==
    /\ at = [h \in Handlers |-> "idle"]
    /\ on = [h \in Handlers |-> AnyDecision]
    /\ ver = [h \in Handlers |-> 0]
    /\ known = [h \in Handlers |-> None]
    /\ got = [h \in Handlers |-> "nothing"]
    /\ tracked = [d \in Decisions |-> None]
    /\ chat = [m \in Messages |-> Gone]
    /\ newest = [d \in Decisions |-> 0]
    /\ told = [d \in Decisions |-> "nothing"]
    /\ crossed = {} /\ loose = {} /\ overlong = FALSE /\ faults = 0

Busy(d)  == {h \in Handlers : at[h] \notin {"idle", "note"} /\ on[h] = d}
Live     == {m \in Messages : chat[m] # Gone}
Fault    == faults < MaxFaults /\ faults' = faults + 1

Calling(h, call, d, v, m) ==
    /\ at' = [at EXCEPT ![h] = call]
    /\ on' = [on EXCEPT ![h] = d]
    /\ ver' = [ver EXCEPT ![h] = v]
    /\ known' = [known EXCEPT ![h] = m]
    /\ got' = [got EXCEPT ![h] = "nothing"]

Done(h) ==
    /\ at' = [at EXCEPT ![h] = "idle"]
    /\ ver' = [ver EXCEPT ![h] = 0]
    /\ known' = [known EXCEPT ![h] = None]
    /\ got' = [got EXCEPT ![h] = "nothing"]
    /\ UNCHANGED on

-----------------------------------------------------------------------------
(* A request is read; what it is refused for (400) changes nothing.           *)

Crossing(d) == crossed' = IF Busy(d) = {} THEN crossed ELSE crossed \cup {d}

\* upsertDecision up to its first await: edit what is known, else send.
FirstSends(d) == "send" \* mutant: the mapping is only kept for the clear

FirstCall(d) == IF tracked[d] = None THEN "send" ELSE "edit"

\* POST /decision, with a new text or the one posted last.
Post(h, d) ==
    /\ at[h] = "idle"
    /\ \E v \in {newest[d], newest[d] + 1} \ {0} :
          /\ v <= MaxVersion
          /\ newest' = [newest EXCEPT ![d] = v]
          /\ Calling(h, FirstCall(d), d, v, tracked[d])
    /\ Crossing(d)
    /\ told' = [told EXCEPT ![d] = "nothing"]
    /\ UNCHANGED <<tracked, chat, loose, overlong, faults>>

\* POST /decision/clear of a decision no message is known of: cleared:false.
ClearUnknown(d) ==
    /\ tracked[d] = None
    /\ Crossing(d)
    /\ told' = [told EXCEPT ![d] = "gone"]
    /\ UNCHANGED <<relay, tracked, chat, newest, loose, overlong, faults>>

Clear(h, d) ==
    /\ at[h] = "idle" /\ tracked[d] # None
    /\ Calling(h, "delete", d, 0, tracked[d])
    /\ Crossing(d)
    /\ told' = [told EXCEPT ![d] = "nothing"]
    /\ UNCHANGED <<tracked, chat, newest, loose, overlong, faults>>

\* POST /notify, /text and /devclaw: one message, sent once, never tracked. Only
\* /notify is validated; the other two build envelopes that must be valid.
Accepted(p) ==
    /\ p.route = "/notify" => Valid(p.envelope)
    /\ p.route = "/text" => p.first.n > 0

EnvelopeOf(p) ==
    CASE p.route = "/notify"  -> p.envelope
      [] p.route = "/text"    -> FromText(p.first, p.rest)
      [] p.route = "/devclaw" -> FromDevclawRow(p.row)

Lengths == {Length(EnvelopeOf(p)) : p \in {q \in Notes : Accepted(q)}}

Notice(h) ==
    /\ at[h] = "idle"
    /\ overlong' \in {overlong \/ n > TelegramCap : n \in Lengths}
    /\ at' = [at EXCEPT ![h] = "note"]
    /\ UNCHANGED <<on, ver, known, got, tracked, chat, newest, told, crossed, loose, faults>>

-----------------------------------------------------------------------------
(* Telegram does what it was asked and answers, or refuses. The relay cannot  *)
(* always tell: an answer may be lost ("threw", the transport raised) or not  *)
(* be JSON ("refused" in the code's eyes), whatever Telegram did.             *)

Waits(h, call) == at[h] = call /\ got[h] = "nothing"

Answer(h, a) ==
    /\ got' = [got EXCEPT ![h] = a]
    /\ UNCHANGED <<at, on, ver, tracked, newest, told, crossed, overlong>>

Edits(h) ==
    /\ Waits(h, "edit")
    /\ \/ /\ known[h] \in Live
          /\ chat' = [chat EXCEPT ![known[h]] = <<on[h], ver[h]>>]
          /\ Answer(h, "ok") /\ UNCHANGED faults
       \/ /\ known[h] \notin Live
          /\ Answer(h, "refused") /\ UNCHANGED <<chat, faults>>
       \/ /\ known[h] \in Live /\ Fault
          /\ chat' \in {chat, [chat EXCEPT ![known[h]] = <<on[h], ver[h]>>]}
          /\ \E a \in {"refused", "threw"} : Answer(h, a)
       \/ /\ known[h] \notin Live /\ Fault /\ UNCHANGED chat
          /\ Answer(h, "threw")
    /\ UNCHANGED <<known, loose>>

Unused == {m \in Messages : chat[m] = Gone /\ \A h \in Handlers : known[h] # m}
             \ ({tracked[d] : d \in Decisions} \cup loose)

Sends(h) ==
    /\ Waits(h, "send")
    /\ \/ \E m \in Unused :
             /\ chat' = [chat EXCEPT ![m] = <<on[h], ver[h]>>]
             /\ \/ Answer(h, "ok") /\ known' = [known EXCEPT ![h] = m] /\ UNCHANGED <<loose, faults>>
                \/ Fault /\ Answer(h, "threw") /\ loose' = loose \cup {m} /\ UNCHANGED known
       \/ Fault /\ Answer(h, "threw") /\ UNCHANGED <<chat, known, loose>>

Deletes(h) ==
    /\ Waits(h, "delete")
    /\ \/ chat' = [chat EXCEPT ![known[h]] = Gone] /\ Answer(h, "ok") /\ UNCHANGED faults
       \/ /\ Fault
          /\ chat' \in {chat, [chat EXCEPT ![known[h]] = Gone]}
          /\ Answer(h, "refused")
    /\ UNCHANGED <<known, loose>>

-----------------------------------------------------------------------------
(* The handler goes on with the answer.                                       *)

Shown(d) == told' = [told EXCEPT ![d] = IF told[d] = "taken" THEN "taken" ELSE "shown"]

EditAccepted(h) == \* mutant: only a transport that raises counts as a failed edit
    /\ at[h] = "edit" /\ got[h] \in {"ok", "refused"}
    /\ Shown(on[h])
    /\ Done(h)
    /\ UNCHANGED <<tracked, chat, newest, crossed, loose, overlong, faults>>

\* Edited, or "not modified": answered 200.
EditStands(h) ==
    /\ at[h] = "edit" /\ got[h] = "ok"
    /\ Shown(on[h])
    /\ Done(h)
    /\ UNCHANGED <<tracked, chat, newest, crossed, loose, overlong, faults>>

\* Telegram refused the edit: the mapping goes, and a new message is sent.
EditRefused(h) ==
    /\ at[h] = "edit" /\ got[h] = "refused"
    /\ tracked' = [tracked EXCEPT ![on[h]] = None]
    /\ loose' = loose \cup ({known[h]} \cap Live)
    /\ Calling(h, "send", on[h], ver[h], None)
    /\ UNCHANGED <<chat, newest, told, crossed, overlong, faults>>

\* The message is sent: from here on it is the decision's.
SentStands(h) ==
    /\ at[h] = "send" /\ got[h] = "ok"
    /\ tracked' = [tracked EXCEPT ![on[h]] = known[h]]
    /\ Shown(on[h])
    /\ Done(h)
    /\ UNCHANGED <<chat, newest, crossed, loose, overlong, faults>>

\* Deleted, or "not found": the mapping goes.
Cleared(h) ==
    /\ at[h] = "delete" /\ got[h] = "ok"
    /\ tracked' = [tracked EXCEPT ![on[h]] = None]
    /\ told' = [told EXCEPT ![on[h]] = "gone"]
    /\ Done(h)
    /\ UNCHANGED <<chat, newest, crossed, loose, overlong, faults>>

\* Answered 502: the producer may try again.
Fails(h) ==
    /\ \/ got[h] = "threw"
       \/ at[h] = "delete" /\ got[h] = "refused"
    /\ Done(h)
    /\ UNCHANGED <<tracked, chat, newest, told, crossed, loose, overlong, faults>>

\* A notice was sent or refused; nothing is kept of it.
NoticeEnds(h) ==
    /\ at[h] = "note"
    /\ Done(h)
    /\ UNCHANGED <<tracked, chat, newest, told, crossed, loose, overlong, faults>>

-----------------------------------------------------------------------------

\* The container is replaced: the mapping is in memory only.
Restart ==
    /\ Fault
    /\ loose' = loose \cup Live
    /\ tracked' = [d \in Decisions |-> None]
    /\ at' = [h \in Handlers |-> "idle"]
    /\ ver' = [h \in Handlers |-> 0]
    /\ known' = [h \in Handlers |-> None]
    /\ got' = [h \in Handlers |-> "nothing"]
    /\ UNCHANGED <<on, chat, newest, told, crossed, overlong>>

\* The owner deletes a message in the chat.
OwnerDeletes(m) ==
    /\ Fault /\ m \in Live
    /\ chat' = [chat EXCEPT ![m] = Gone]
    /\ told' = [told EXCEPT ![chat[m][1]] = "taken"]
    /\ UNCHANGED <<relay, tracked, newest, crossed, loose, overlong>>

Handles(h) ==
    \/ Edits(h) \/ Sends(h) \/ Deletes(h)
    \/ EditStands(h) \/ EditRefused(h) \/ SentStands(h) \/ Cleared(h)
    \/ Fails(h) \/ NoticeEnds(h)

Next ==
    \/ \E h \in Handlers, d \in Decisions : Post(h, d) \/ Clear(h, d)
    \/ \E d \in Decisions : ClearUnknown(d)
    \/ \E h \in Handlers : Notice(h) \/ Handles(h)
    \/ Restart
    \/ \E m \in Messages : OwnerDeletes(m)

Spec == Init /\ [][Next]_vars

-----------------------------------------------------------------------------

\* Every handler, the mapping and the chat stay well formed (app.js: upsertDecision, handle).
TypeOK ==
    /\ at \in [Handlers -> Calls]
    /\ on \in [Handlers -> Decisions]
    /\ ver \in [Handlers -> 0 .. MaxVersion]
    /\ \A h \in Handlers : at[h] \in {"edit", "send"} => ver[h] > 0
    /\ known \in [Handlers -> Messages \cup {None}]
    /\ got \in [Handlers -> {"nothing", "ok", "refused", "threw"}]
    /\ tracked \in [Decisions -> Messages \cup {None}]
    /\ chat \in [Messages -> {Gone} \cup (Decisions \X (1 .. MaxVersion))]
    /\ newest \in [Decisions -> 0 .. MaxVersion]
    /\ told \in [Decisions -> {"nothing", "shown", "gone", "taken"}]
    /\ crossed \subseteq Decisions /\ loose \subseteq Messages
    /\ overlong \in BOOLEAN /\ faults \in 0 .. MaxFaults

\* One message per decision (decision-contract.md; app.js:upsertDecision): of a
\* decision whose requests came one after another, the chat holds no message but
\* the one the relay knows, or is about to know, and those it was made to
\* forget: by a restart, a lost answer, or an edit that Telegram refused.
OneMessage ==
    \A d \in Decisions \ crossed : \A m \in Live \ loose :
        chat[m][1] = d => m = tracked[d] \/ \E h \in Busy(d) : known[h] = m

\* What a 200 says is so until the next request about the decision: the owner
\* sees what was posted last, or no message of the answered decision.
AnswerIsTrue ==
    \A d \in Decisions \ crossed :
        /\ told[d] = "shown" => \E m \in Live : chat[m] = <<d, newest[d]>>
        /\ told[d] = "gone" => \A m \in Live \ loose : chat[m][1] # d

\* Whatever envelope, text or task row a producer posts to /notify, /text and
\* /devclaw, the message made of it is not longer than Telegram takes: one it
\* rejects for its length is a notice nobody sees (render.js:render). A decision
\* is rendered without being measured, and is not what this is about.
EveryMessageFits == ~overlong
=============================================================================
