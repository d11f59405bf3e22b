------------------------------ MODULE Envelope ------------------------------
(* What compose/notify-relay/render.js makes of a message envelope, seen by   *)
(* its length. A text is its number of code points and the width one of them  *)
(* renders to: escaping makes up to five characters of one ("&" -> "&amp;"),  *)
(* so the renderer measures the message again after every cut.                *)
EXTENDS Integers, FiniteSets

MaxMsgChars  == 3500    \* MAX_MSG_CHARS
TelegramCap  == 4096    \* what Telegram rejects (docs and render.js)

FieldLimits == [source |-> 64, subject |-> 128, headline |-> 800, action |-> 400]
LinkTextMax == 100
LinkUrlMax  == 500
MaxLinks    == 3

MaxTextHeadline == 160  \* MAX_TEXT_HEADLINE_CHARS

Least(a, b) == IF a <= b THEN a ELSE b
Most(a, b)  == IF a >= b THEN a ELSE b

\* What escapeHtml makes of a text; a quote in a link's URL gets one longer.
Texts == [n : Nat, w : 1 .. 5]
Urls  == [n : Nat, w : 1 .. 6]

Text(n, w) == [n |-> n, w |-> w]
NoText     == Text(0, 1)
Rendered(t) == t.n * t.w

-----------------------------------------------------------------------------
(* A producer's envelope. "links" is how many links it has, each as long as   *)
(* "link" renders; "acts" says that its level shows an action.                *)

Notices ==
    [source : Texts, subject : Texts, headline : Texts, body : Texts, detail : Texts,
     links : Nat, link : [text : Texts, url : Urls], acts : BOOLEAN, action : Texts]

\* validateEnvelope: what is never cut must be within its limit, escaped.
Valid(e) ==
    /\ \A f \in {"source", "subject", "headline"} :
          Rendered(e[f]) \in 1 .. FieldLimits[f]
    /\ Rendered(e.action) <= FieldLimits.action
    /\ e.links <= MaxLinks
    /\ e.links > 0 => Rendered(e.link.text) <= LinkTextMax /\ Rendered(e.link.url) <= LinkUrlMax

LinksLength(e) ==
    IF e.links = 0 THEN 0
    ELSE 1 + e.links * (15 + Rendered(e.link.text) + Rendered(e.link.url)) + 3 * (e.links - 1)

ActionLength(e) ==
    IF e.acts /\ e.action.n > 0 THEN 1 + 15 + Rendered(e.action) ELSE 0

\* The lines render() never cuts: the headline, the links and the action.
Uncut(e) ==
    23 + Rendered(e.source) + Rendered(e.subject) + Rendered(e.headline)
       + LinksLength(e) + ActionLength(e)

\* A text of which c code points are left, the last of them the mark if it was cut.
Kept(t, c) == IF c = t.n THEN c * t.w ELSE (c - 1) * t.w + 1

BodyLength(e, c)   == IF c = 0 THEN 0 ELSE 1 + Kept(e.body, c)
DetailLength(e, c) == IF c = 0 THEN 0 ELSE 1 + 36 + Kept(e.detail, c)

Built(e, body, detail) == Uncut(e) + BodyLength(e, body) + DetailLength(e, detail)

\* One pass never cuts more than half of what is left.
Shrunk(c, over) ==
    LET room == c - 1
        cut  == Least(Most(over, 1), (room + 1) \div 2)
    IN  IF room <= 0 \/ room - cut <= 0 THEN 0 ELSE room - cut + 1

\* A loop of render(): while the message is over the limit by over[c] with c code
\* points of a text left, and one is left, the text is cut again.
GivesWay(over) ==
    LET Left[c \in Nat] == IF over[c] > 0 /\ c > 0 THEN Left[Shrunk(c, over[c])] ELSE c
    IN  Left

\* First the detail gives way.
DetailLeft(e) == GivesWay([c \in Nat |-> Built(e, e.body.n, c) - MaxMsgChars])[e.detail.n]

BodyWhole(e, detail) == e.body.n \* mutant: only the detail is ever cut

\* Then the body.
BodyLeft(e, detail) == GivesWay([c \in Nat |-> Built(e, c, detail) - MaxMsgChars])[e.body.n]

Length(e) ==
    LET detail == DetailLeft(e)
    IN  Built(e, BodyLeft(e, detail), detail)

-----------------------------------------------------------------------------
(* The two compatibility routes build an envelope themselves and hand it to   *)
(* render() without validateEnvelope: their clips must keep the limits.       *)

\* envelopeFromText: a first line that is too long spills into the body.
FromText(first, rest) ==
    LET head == Least(first.n, MaxTextHeadline)
        over == first.n - head
    IN  [source |-> Text(7, 1), subject |-> Text(4, 1), headline |-> Text(head, first.w),
         body |-> Text(over + rest.n, first.w), detail |-> NoText,
         links |-> 0, link |-> [text |-> NoText, url |-> NoText],
         acts |-> FALSE, action |-> NoText]

Rows ==
    [kind : Nat, task : Nat, status : Nat, w : 1 .. 5, failed : BOOLEAN,
     goal : Nat, result : Nat, error : Nat]

\* envelopeFromDevclawRow: kind, task id and status are clipped; the goal, and
\* the result or the error, are cut before they are escaped.
FromDevclawRow(row) ==
    [source   |-> Text(7, 1),
     subject  |-> Text(Least(row.kind, 16) + 1 + Least(row.task, 8), row.w),
     headline |-> Text(Least(row.status, 64), row.w),
     body     |-> Text(Least(row.goal, 240) + (IF row.failed THEN 0 ELSE 2 + Least(row.result, 400)), row.w),
     detail   |-> IF row.failed THEN Text(Least(row.error, 600), row.w) ELSE NoText,
     links    |-> 0, link |-> [text |-> NoText, url |-> NoText],
     acts     |-> row.failed, action |-> NoText]

=============================================================================
