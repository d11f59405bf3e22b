-------------------------- MODULE NotifyRelay_proofs --------------------------
(* Proofs about the relay, for any decisions, requests at once, messages and *)
(* faults: one message per decision, what a 200 said is so, and no message   *)
(* is longer than Telegram takes. The first two rest on who owns a message   *)
(* (no id is given out twice while anything remembers it) and, of a decision *)
(* whose requests came one after another, on what its one request has in     *)
(* hand while it waits for Telegram; the last on the renderer's loops, by    *)
(* induction over what is left of a text (Envelope).                         *)
EXTENDS NotifyRelay, WellFoundedInduction, TLAPS

-----------------------------------------------------------------------------
(* The inductive invariant                                                    *)

\* What a request holds at each of its calls.
InHand(h) ==
    /\ at[h] \in {"idle", "note"} => known[h] = None /\ got[h] = "nothing"
    /\ at[h] = "send" /\ got[h] # "ok" => known[h] = None
    /\ at[h] = "delete" /\ got[h] = "ok" => known[h] \notin Live

\* A message is about the decision of whoever remembers it.
Owned ==
    \A m \in Live :
        /\ \A h \in Handlers : known[h] = m => chat[m][1] = on[h]
        /\ \A d \in Decisions : tracked[d] = m => chat[m][1] = d

\* The one request about a decision.
Holds(h, d) ==
    /\ at[h] \in {"edit", "delete"} => tracked[d] = known[h]
    /\ at[h] = "send" => tracked[d] = None
    /\ at[h] \in {"edit", "send"} => ver[h] = newest[d]
    /\ told[d] \in {"nothing", "taken"}
    /\ at[h] \in {"edit", "send"} /\ got[h] = "ok" =>
          told[d] = "taken" \/ (known[h] \in Live /\ chat[known[h]] = <<d, newest[d]>>)

Alone(d) ==
    /\ \A g, h \in Busy(d) : g = h
    /\ \A h \in Busy(d) : Holds(h, d)

OneMessageOf(d) ==
    \A m \in Live \ loose :
        chat[m][1] = d => m = tracked[d] \/ \E h \in Busy(d) : known[h] = m

TrueOf(d) ==
    /\ told[d] = "shown" => \E m \in Live : chat[m] = <<d, newest[d]>>
    /\ told[d] = "gone" => \A m \in Live \ loose : chat[m][1] # d

Sound(d) == d \notin crossed => Alone(d) /\ OneMessageOf(d) /\ TrueOf(d)

IInv ==
    /\ TypeOK
    /\ \A h \in Handlers : InHand(h)
    /\ Owned
    /\ \A d \in Decisions : Sound(d)

-----------------------------------------------------------------------------
(* Type correctness                                                           *)

LEMMA Pairs == \A d, v : <<d, v>> # Gone /\ <<d, v>>[1] = d
  BY DEF Gone

LEMMA SomeDecision == \A h \in Handlers : TypeOK => on[h] \in Decisions
  BY DEF TypeOK

LEMMA CallingTyped ==
    ASSUME TypeOK, NEW h \in Handlers, NEW call \in Calls, NEW d \in Decisions,
           NEW v \in 0 .. MaxVersion, NEW m \in Messages \cup {None}, Calling(h, call, d, v, m)
    PROVE  /\ at' \in [Handlers -> Calls] /\ on' \in [Handlers -> Decisions]
           /\ ver' \in [Handlers -> 0 .. MaxVersion]
           /\ known' \in [Handlers -> Messages \cup {None}]
           /\ got' \in [Handlers -> {"nothing", "ok", "refused", "threw"}]
           /\ at'[h] = call /\ on'[h] = d /\ ver'[h] = v /\ known'[h] = m /\ got'[h] = "nothing"
           /\ \A g \in Handlers \ {h} : at'[g] = at[g] /\ on'[g] = on[g] /\ ver'[g] = ver[g]
                                        /\ known'[g] = known[g] /\ got'[g] = got[g]
  BY DEF TypeOK, Calling

LEMMA DoneTyped ==
    ASSUME TypeOK, NEW h \in Handlers, Done(h)
    PROVE  /\ at' \in [Handlers -> Calls] /\ on' = on
           /\ ver' \in [Handlers -> 0 .. MaxVersion]
           /\ known' \in [Handlers -> Messages \cup {None}]
           /\ got' \in [Handlers -> {"nothing", "ok", "refused", "threw"}]
           /\ at'[h] = "idle" /\ ver'[h] = 0 /\ known'[h] = None /\ got'[h] = "nothing"
           /\ \A g \in Handlers \ {h} : at'[g] = at[g] /\ on'[g] = on[g] /\ ver'[g] = ver[g]
                                        /\ known'[g] = known[g] /\ got'[g] = got[g]
  <1>1. 0 \in 0 .. MaxVersion /\ "idle" \in Calls
    BY RelayAssumption DEF Calls
  <1> QED
    BY <1>1 DEF TypeOK, Done

LEMMA FaultTyped == TypeOK /\ Fault => faults' \in 0 .. MaxFaults
  BY RelayAssumption DEF TypeOK, Fault

LEMMA ToldTyped ==
    ASSUME TypeOK, NEW d \in Decisions
    PROVE  /\ \A a \in {"nothing", "shown", "gone", "taken"} :
                 [told EXCEPT ![d] = a] \in [Decisions -> {"nothing", "shown", "gone", "taken"}]
           /\ Shown(d) => told' \in [Decisions -> {"nothing", "shown", "gone", "taken"}]
  BY DEF TypeOK, Shown

LEMMA CrossingTyped ==
    ASSUME TypeOK, NEW d \in Decisions, Crossing(d)
    PROVE  /\ crossed' \subseteq Decisions /\ crossed \subseteq crossed'
           /\ d \notin crossed' => Busy(d) = {}
           /\ \A e \in Decisions \ {d} : e \in crossed' <=> e \in crossed
  BY DEF TypeOK, Crossing

LEMMA TypeInit == Init => TypeOK
  <1> SUFFICES ASSUME Init
               PROVE  TypeOK
    OBVIOUS
  <1>1. 0 \in 0 .. MaxVersion /\ 0 \in 0 .. MaxFaults
    BY RelayAssumption
  <1>2. on \in [Handlers -> Decisions]
    <2>1. AnyDecision \in Decisions
      BY RelayAssumption DEF AnyDecision
    <2> QED
      BY <2>1 DEF Init
  <1> QED
    BY <1>1, <1>2 DEF Init, TypeOK, Calls

\* The calls of a request, from the request to Telegram's answer.
LEMMA TypeOfCalls ==
    ASSUME TypeOK, NEW h \in Handlers, Edits(h) \/ Sends(h) \/ Deletes(h)
    PROVE  TypeOK'
  <1>1. got' \in [Handlers -> {"nothing", "ok", "refused", "threw"}]
    BY DEF TypeOK, Edits, Sends, Deletes, Answer
  <1>2. UNCHANGED <<at, on, ver, tracked, newest, told, crossed, overlong>>
    BY DEF Edits, Sends, Deletes, Answer
  <1>3. faults' \in 0 .. MaxFaults
    BY FaultTyped DEF TypeOK, Edits, Sends, Deletes
  <1>4. known' \in [Handlers -> Messages \cup {None}] /\ loose' \subseteq Messages
    BY DEF TypeOK, Edits, Sends, Deletes, Unused
  <1>5. chat' \in [Messages -> {Gone} \cup (Decisions \X (1 .. MaxVersion))]
    <2>1. CASE Deletes(h)
      BY <2>1 DEF TypeOK, Deletes
    <2>2. ASSUME NEW m \in Messages, chat' = [chat EXCEPT ![m] = <<on[h], ver[h]>>], ver[h] # 0
          PROVE  chat' \in [Messages -> {Gone} \cup (Decisions \X (1 .. MaxVersion))]
      <3>1. ver[h] \in 1 .. MaxVersion /\ on[h] \in Decisions
        BY <2>2, RelayAssumption DEF TypeOK
      <3> QED
        BY <2>2, <3>1 DEF TypeOK
    <2>3. CASE Edits(h)
      <3>1. ver[h] # 0 /\ chat' \in {chat, [chat EXCEPT ![known[h]] = <<on[h], ver[h]>>]}
        BY <2>3 DEF TypeOK, Edits, Waits
      <3>2. chat' = chat \/ known[h] \in Messages
        BY <2>3 DEF Edits, Live
      <3> QED
        BY <2>2, <3>1, <3>2 DEF TypeOK
    <2>4. CASE Sends(h)
      <3>1. ver[h] # 0
        BY <2>4 DEF TypeOK, Sends, Waits
      <3>2. chat' = chat \/ \E m \in Messages : chat' = [chat EXCEPT ![m] = <<on[h], ver[h]>>]
        BY <2>4 DEF Sends, Unused
      <3> QED
        BY <2>2, <3>1, <3>2 DEF TypeOK
    <2> QED
      BY <2>1, <2>3, <2>4
  <1> QED
    BY <1>1, <1>2, <1>3, <1>4, <1>5 DEF TypeOK

\* The steps of the relay itself, between the awaits.
LEMMA TypeOfPost ==
    ASSUME TypeOK, NEW h \in Handlers, NEW d \in Decisions, Post(h, d)
    PROVE  TypeOK'
  <1>1. PICK v \in {newest[d], newest[d] + 1} \ {0} :
            /\ v <= MaxVersion /\ newest' = [newest EXCEPT ![d] = v]
            /\ Calling(h, FirstCall(d), d, v, tracked[d])
    BY DEF Post
  <1>2. v \in 1 .. MaxVersion
    BY <1>1, RelayAssumption DEF TypeOK
  <1>3. newest' \in [Decisions -> 0 .. MaxVersion]
    BY <1>1, <1>2 DEF TypeOK
  <1>4. FirstCall(d) \in {"edit", "send"} /\ FirstCall(d) \in Calls
        /\ tracked[d] \in Messages \cup {None}
    BY DEF FirstCall, Calls, TypeOK
  <1>5. told' \in [Decisions -> {"nothing", "shown", "gone", "taken"}]
    BY ToldTyped DEF Post
  <1>6. v \in 0 .. MaxVersion /\ v > 0
    BY <1>2
  <1>7. \A g \in Handlers : at'[g] \in {"edit", "send"} => ver'[g] > 0
    BY <1>1, <1>4, <1>6, CallingTyped DEF TypeOK
  <1> QED
    BY <1>1, <1>3, <1>4, <1>5, <1>6, <1>7, CallingTyped, CrossingTyped DEF TypeOK, Post

LEMMA TypeOfClear ==
    ASSUME TypeOK, NEW d \in Decisions, ClearUnknown(d) \/ \E h \in Handlers : Clear(h, d)
    PROVE  TypeOK'
  <1>1. told' \in [Decisions -> {"nothing", "shown", "gone", "taken"}]
    BY ToldTyped DEF ClearUnknown, Clear
  <1>2. crossed' \subseteq Decisions
    BY CrossingTyped DEF ClearUnknown, Clear
  <1>3. CASE ClearUnknown(d)
    BY <1>1, <1>2, <1>3 DEF TypeOK, ClearUnknown, relay
  <1>4. ASSUME NEW h \in Handlers, Clear(h, d)
        PROVE  TypeOK'
    <2>1. "delete" \in Calls /\ 0 \in 0 .. MaxVersion /\ tracked[d] \in Messages \cup {None}
      BY RelayAssumption DEF Calls, TypeOK
    <2>2. \A g \in Handlers : at'[g] \in {"edit", "send"} => ver'[g] > 0
      <3>1. Calling(h, "delete", d, 0, tracked[d])
        BY <1>4 DEF Clear
      <3>2. at'[h] = "delete" /\ \A g \in Handlers \ {h} : at'[g] = at[g] /\ ver'[g] = ver[g]
        BY <2>1, <3>1, CallingTyped
      <3> QED
        BY <3>2 DEF TypeOK
    <2> QED
      BY <1>1, <1>2, <1>4, <2>1, <2>2, CallingTyped DEF TypeOK, Clear
  <1> QED
    BY <1>3, <1>4

LEMMA TypeOfNotice == ASSUME TypeOK, NEW h \in Handlers, Notice(h) PROVE TypeOK'
  <1>1. overlong' \in BOOLEAN
    BY DEF Notice, TypeOK
  <1>2. at' \in [Handlers -> Calls] /\ \A g \in Handlers : at'[g] \in {"edit", "send"} => at[g] = at'[g]
    BY DEF Notice, TypeOK, Calls
  <1> QED
    BY <1>1, <1>2 DEF Notice, TypeOK

LEMMA TypeOfAnswers ==
    ASSUME TypeOK, NEW h \in Handlers,
           EditStands(h) \/ EditRefused(h) \/ SentStands(h) \/ Cleared(h) \/ Fails(h) \/ NoticeEnds(h)
    PROVE  TypeOK'
  <1>0. on[h] \in Decisions
    BY DEF TypeOK
  <1>1. CASE EditRefused(h)
    <2>1. "send" \in Calls /\ None \in Messages \cup {None} /\ ver[h] \in 0 .. MaxVersion /\ ver[h] > 0
      BY <1>1 DEF Calls, TypeOK, EditRefused
    <2>2. tracked' \in [Decisions -> Messages \cup {None}] /\ loose' \subseteq Messages
      BY <1>1 DEF TypeOK, EditRefused, Live
    <2>3. Calling(h, "send", on[h], ver[h], None)
          /\ UNCHANGED <<chat, newest, told, crossed, overlong, faults>>
      BY <1>1 DEF EditRefused
    <2>4. /\ at' \in [Handlers -> Calls] /\ on' \in [Handlers -> Decisions]
          /\ ver' \in [Handlers -> 0 .. MaxVersion]
          /\ known' \in [Handlers -> Messages \cup {None}]
          /\ got' \in [Handlers -> {"nothing", "ok", "refused", "threw"}]
          /\ ver'[h] = ver[h] /\ \A g \in Handlers \ {h} : at'[g] = at[g] /\ ver'[g] = ver[g]
      BY <1>0, <2>1, <2>3, CallingTyped
    <2>5. \A g \in Handlers : at'[g] \in {"edit", "send"} => ver'[g] > 0
      BY <2>1, <2>4 DEF TypeOK
    <2> QED
      BY <2>2, <2>3, <2>4, <2>5 DEF TypeOK
  <1>2. CASE ~EditRefused(h)
    <2>1. Done(h) /\ UNCHANGED <<chat, newest, crossed, loose, overlong, faults>>
      BY <1>2 DEF EditStands, SentStands, Cleared, Fails, NoticeEnds
    <2>2. told' \in [Decisions -> {"nothing", "shown", "gone", "taken"}]
      <3>1. told' = told \/ Shown(on[h]) \/ told' = [told EXCEPT ![on[h]] = "gone"]
        BY <1>2 DEF EditStands, SentStands, Cleared, Fails, NoticeEnds
      <3> QED
        BY <1>0, <3>1, ToldTyped DEF TypeOK
    <2>3. tracked' \in [Decisions -> Messages \cup {None}]
      <3>1. \/ tracked' = tracked
            \/ tracked' = [tracked EXCEPT ![on[h]] = known[h]]
            \/ tracked' = [tracked EXCEPT ![on[h]] = None]
        BY <1>2 DEF EditStands, SentStands, Cleared, Fails, NoticeEnds
      <3> QED
        BY <3>1 DEF TypeOK
    <2>4. \A g \in Handlers : at'[g] \in {"edit", "send"} => ver'[g] > 0
      BY <2>1, DoneTyped DEF TypeOK
    <2> QED
      BY <2>1, <2>2, <2>3, <2>4, DoneTyped DEF TypeOK
  <1> QED
    BY <1>1, <1>2

LEMMA TypeOfFaults ==
    ASSUME TypeOK, Restart \/ \E m \in Messages : OwnerDeletes(m)
    PROVE  TypeOK'
  <1>1. faults' \in 0 .. MaxFaults
    BY FaultTyped DEF Restart, OwnerDeletes
  <1>2. CASE Restart
    <2>1. 0 \in 0 .. MaxVersion /\ "idle" \in Calls
      BY RelayAssumption DEF Calls
    <2>2. loose' \subseteq Messages
      BY <1>2 DEF Restart, Live, TypeOK
    <2> QED
      BY <1>1, <1>2, <2>1, <2>2 DEF Restart, TypeOK
  <1>3. ASSUME NEW m \in Messages, OwnerDeletes(m)
        PROVE  TypeOK'
    <2>1. chat' \in [Messages -> {Gone} \cup (Decisions \X (1 .. MaxVersion))]
      BY <1>3 DEF OwnerDeletes, TypeOK
    <2>2. told' \in [Decisions -> {"nothing", "shown", "gone", "taken"}]
      BY <1>3 DEF OwnerDeletes, TypeOK
    <2> QED
      BY <1>1, <1>3, <2>1, <2>2 DEF OwnerDeletes, TypeOK, relay
  <1> QED
    BY <1>2, <1>3

LEMMA TypeStep == TypeOK /\ [Next]_vars => TypeOK'
  <1>1. TypeOK /\ UNCHANGED vars => TypeOK'
    BY DEF TypeOK, vars, relay
  <1> QED
    BY <1>1, TypeOfPost, TypeOfClear, TypeOfNotice, TypeOfCalls, TypeOfAnswers, TypeOfFaults
       DEF Next, Handles

-----------------------------------------------------------------------------
(* What a step leaves of the decisions it is not about                        *)

Same(h) ==
    /\ at'[h] = at[h] /\ on'[h] = on[h] /\ ver'[h] = ver[h]
    /\ known'[h] = known[h] /\ got'[h] = got[h]

\* A message of another decision, before and after the step.
Foreign(m, e) == chat[m] = Gone \/ chat[m][1] # e
Untouched(m, e) ==
    \/ chat'[m] = chat[m]
    \/ Foreign(m, e) /\ (chat'[m] = Gone \/ chat'[m][1] # e)

LEMMA Elsewhere ==
    ASSUME NEW e \in Decisions, Sound(e), crossed \subseteq crossed', loose \subseteq loose',
           tracked'[e] = tracked[e], told'[e] = told[e], newest'[e] = newest[e],
           \A h \in Handlers : Same(h) \/ (h \notin Busy(e) /\ h \notin Busy(e)'),
           \A m \in Messages : Untouched(m, e)
    PROVE  Sound(e)'
  <1> SUFFICES ASSUME e \notin crossed'
               PROVE  (Alone(e) /\ OneMessageOf(e) /\ TrueOf(e))'
    BY DEF Sound
  <1>1. Alone(e) /\ OneMessageOf(e) /\ TrueOf(e)
    BY DEF Sound
  <1>2. \A h \in Handlers : /\ h \in Busy(e)' <=> h \in Busy(e)
                            /\ h \in Busy(e) => Same(h)
    BY DEF Busy, Same
  <1>3. \A m \in Messages : chat[m] # Gone /\ chat[m][1] = e => chat'[m] = chat[m]
    BY DEF Untouched, Foreign
  <1>4. \A m \in Messages : chat'[m] # Gone /\ chat'[m][1] = e => chat'[m] = chat[m]
    BY DEF Untouched, Foreign
  <1>5. Alone(e)'
    <2>1. \A g, h \in Busy(e)' : g = h
      BY <1>1, <1>2 DEF Alone, Busy
    <2>2. ASSUME NEW h \in Busy(e)'
          PROVE  Holds(h, e)'
      <3>1. h \in Handlers /\ h \in Busy(e) /\ Same(h) /\ Holds(h, e)
        BY <1>1, <1>2, <2>2 DEF Busy, Alone
      <3>2. known[h] \in Live /\ chat[known[h]] = <<e, newest[e]>>
              => known[h] \in Live' /\ chat'[known[h]] = <<e, newest[e]>>
        BY <1>3, Pairs DEF Live
      <3> QED
        BY <3>1, <3>2 DEF Holds, Same
    <2> QED
      BY <2>1, <2>2 DEF Alone
  <1>6. OneMessageOf(e)'
    BY <1>1, <1>2, <1>4 DEF OneMessageOf, Live, Same, Busy
  <1>7. TrueOf(e)'
    <2>1. told[e] = "shown" => \E m \in Live' : chat'[m] = <<e, newest[e]>>
      BY <1>1, <1>3, Pairs DEF TrueOf, Live
    <2>2. told[e] = "gone" => \A m \in Live' \ loose' : chat'[m][1] # e
      BY <1>1, <1>4 DEF TrueOf, Live
    <2> QED
      BY <2>1, <2>2 DEF TrueOf
  <1> QED
    BY <1>5, <1>6, <1>7

LEMMA Assembled ==
    ASSUME IInv, TypeOK', \A h \in Handlers : InHand(h)', Owned',
           crossed \subseteq crossed', loose \subseteq loose',
           \A e \in Decisions :
              \/ Sound(e)'
              \/ /\ tracked'[e] = tracked[e] /\ told'[e] = told[e] /\ newest'[e] = newest[e]
                 /\ \A h \in Handlers : Same(h) \/ (h \notin Busy(e) /\ h \notin Busy(e)')
                 /\ \A m \in Messages : Untouched(m, e)
    PROVE  IInv'
  BY Elsewhere DEF IInv

\* Where no request is in a call, only the mapping shows a message.
LEMMA Quiet ==
    ASSUME IInv, NEW d \in Decisions, d \notin crossed, Busy(d) = {}
    PROVE  \A m \in Live \ loose : chat[m][1] = d => m = tracked[d]
  BY DEF IInv, Sound, OneMessageOf

-----------------------------------------------------------------------------
(* A request comes in                                                         *)

LEMMA RequestStep ==
    ASSUME IInv, TypeOK', NEW h \in Handlers, NEW d \in Decisions, NEW call \in Calls,
           NEW v \in 0 .. MaxVersion, at[h] = "idle", Calling(h, call, d, v, tracked[d]),
           call = "send" => tracked[d] = None,
           call \in {"edit", "send"} => v = newest'[d], call \in {"edit", "send", "delete"},
           \A e \in Decisions \ {d} : newest'[e] = newest[e], Crossing(d),
           told' = [told EXCEPT ![d] = "nothing"], UNCHANGED <<tracked, chat, loose>>
    PROVE  IInv'
  <1>0. TypeOK /\ tracked[d] \in Messages \cup {None}
    BY DEF IInv, TypeOK
  <1>1. /\ at'[h] = call /\ on'[h] = d /\ ver'[h] = v /\ known'[h] = tracked[d] /\ got'[h] = "nothing"
        /\ \A g \in Handlers \ {h} : Same(g)
    BY <1>0, CallingTyped DEF Same
  <1>2. /\ crossed \subseteq crossed' /\ (d \notin crossed' => Busy(d) = {})
        /\ d \notin crossed' => d \notin crossed
    BY <1>0, CrossingTyped
  <1>3. \A g \in Handlers : InHand(g)'
    BY <1>1 DEF IInv, InHand, Same, Live
  <1>4. Owned'
    BY <1>1 DEF IInv, Owned, Same, Live
  <1>5. told'[d] = "nothing" /\ \A e \in Decisions \ {d} : told'[e] = told[e]
    BY <1>0 DEF TypeOK
  <1>6. Sound(d)'
    <2> SUFFICES ASSUME d \notin crossed'
                 PROVE  (Alone(d) /\ OneMessageOf(d) /\ TrueOf(d))'
      BY DEF Sound
    <2>1. \A g \in Handlers : g \in Busy(d)' <=> g = h
      BY <1>1, <1>2 DEF Busy, Same
    <2>2. Holds(h, d)'
      BY <1>1, <1>5 DEF Holds
    <2>3. Alone(d)'
      BY <2>1, <2>2 DEF Alone, Busy
    <2>4. OneMessageOf(d)'
      BY <1>2, Quiet DEF OneMessageOf, Live
    <2> QED
      BY <1>5, <2>3, <2>4 DEF TrueOf
  <1>7. ASSUME NEW e \in Decisions \ {d}
        PROVE  /\ tracked'[e] = tracked[e] /\ told'[e] = told[e] /\ newest'[e] = newest[e]
               /\ \A g \in Handlers : Same(g) \/ (g \notin Busy(e) /\ g \notin Busy(e)')
               /\ \A m \in Messages : Untouched(m, e)
    <2>1. h \notin Busy(e) /\ h \notin Busy(e)'
      BY <1>1 DEF Busy
    <2>2. \A m \in Messages : Untouched(m, e)
      BY DEF Untouched
    <2> QED
      BY <1>1, <1>5, <2>1, <2>2
  <1> QED
    BY <1>2, <1>3, <1>4, <1>6, <1>7, Assembled

LEMMA PostStep ==
    ASSUME IInv, TypeOK', NEW h \in Handlers, NEW d \in Decisions, Post(h, d)
    PROVE  IInv'
  <1>0. TypeOK
    BY DEF IInv
  <1>1. PICK v \in {newest[d], newest[d] + 1} \ {0} :
            /\ v <= MaxVersion /\ newest' = [newest EXCEPT ![d] = v]
            /\ Calling(h, FirstCall(d), d, v, tracked[d])
    BY DEF Post
  <1>2. v \in 0 .. MaxVersion /\ newest'[d] = v /\ \A e \in Decisions \ {d} : newest'[e] = newest[e]
    BY <1>0, <1>1, RelayAssumption DEF TypeOK
  <1>3. /\ FirstCall(d) \in Calls /\ FirstCall(d) \in {"edit", "send"}
        /\ FirstCall(d) = "send" => tracked[d] = None
    BY DEF FirstCall, Calls
  <1> QED
    BY <1>1, <1>2, <1>3, RequestStep DEF Post

LEMMA ClearStep ==
    ASSUME IInv, TypeOK', NEW h \in Handlers, NEW d \in Decisions, Clear(h, d)
    PROVE  IInv'
  <1>1. 0 \in 0 .. MaxVersion /\ "delete" \in Calls
    BY RelayAssumption DEF Calls
  <1> QED
    BY <1>1, RequestStep DEF Clear

LEMMA ClearUnknownStep ==
    ASSUME IInv, TypeOK', NEW d \in Decisions, ClearUnknown(d)
    PROVE  IInv'
  <1>0. TypeOK /\ \A m \in Messages : m # tracked[d]
    BY RelayAssumption DEF IInv, ClearUnknown
  <1>1. UNCHANGED <<at, on, ver, known, got, tracked, chat, newest, loose>> /\ \A g \in Handlers : Same(g)
    BY DEF ClearUnknown, relay, Same
  <1>2. /\ crossed \subseteq crossed' /\ (d \notin crossed' => Busy(d) = {} /\ d \notin crossed)
    BY <1>0, CrossingTyped DEF ClearUnknown
  <1>3. told'[d] = "gone" /\ \A e \in Decisions \ {d} : told'[e] = told[e]
    BY <1>0 DEF TypeOK, ClearUnknown
  <1>4. Sound(d)'
    <2> SUFFICES ASSUME d \notin crossed'
                 PROVE  (Alone(d) /\ OneMessageOf(d) /\ TrueOf(d))'
      BY DEF Sound
    <2>1. \A m \in Live \ loose : chat[m][1] # d
      BY <1>0, <1>2, Quiet DEF Live
    <2>2. Busy(d)' = {}
      BY <1>1, <1>2 DEF Busy
    <2> QED
      BY <1>1, <1>3, <2>1, <2>2 DEF Alone, OneMessageOf, TrueOf, Live
  <1>5. (\A g \in Handlers : InHand(g)') /\ Owned'
    BY <1>1 DEF IInv, InHand, Owned, Live
  <1>6. \A e \in Decisions, m \in Messages : Untouched(m, e)
    BY <1>1 DEF Untouched
  <1>7. \A e \in Decisions : tracked'[e] = tracked[e] /\ newest'[e] = newest[e]
    BY <1>1
  <1> QED
    BY <1>1, <1>2, <1>3, <1>4, <1>5, <1>6, <1>7, Assembled

LEMMA NoticeStep ==
    ASSUME IInv, TypeOK', NEW h \in Handlers, Notice(h) \/ NoticeEnds(h)
    PROVE  IInv'
  <1>0. TypeOK /\ InHand(h)
    BY DEF IInv
  <1>1. /\ at[h] \in {"idle", "note"} /\ at'[h] \in {"idle", "note"}
        /\ known'[h] = None /\ got'[h] = "nothing"
        /\ \A g \in Handlers \ {h} : Same(g)
    BY <1>0, DoneTyped DEF Notice, NoticeEnds, InHand, Same, TypeOK
  <1>2. UNCHANGED <<tracked, chat, newest, told, crossed, loose>>
    BY DEF Notice, NoticeEnds
  <1>3. (\A g \in Handlers : InHand(g)') /\ Owned'
    BY <1>1, <1>2, RelayAssumption DEF IInv, InHand, Owned, Live, Same
  <1>4. \A e \in Decisions : h \notin Busy(e) /\ h \notin Busy(e)'
    BY <1>1 DEF Busy
  <1>5. \A e \in Decisions, m \in Messages : Untouched(m, e)
    BY <1>2 DEF Untouched
  <1> QED
    BY <1>1, <1>2, <1>3, <1>4, <1>5, Assembled

-----------------------------------------------------------------------------
(* Telegram does what it was asked                                            *)

\* A call in the air: h, about d, has its answer after the step; the rest of it
\* and every other request stay as they are.
LEMMA AnswerStep ==
    ASSUME IInv, TypeOK', NEW h \in Handlers, at[h] \in {"edit", "send", "delete"},
           UNCHANGED <<at, on, ver, tracked, newest, told, crossed>>, loose \subseteq loose',
           \A g \in Handlers \ {h} : got'[g] = got[g] /\ known'[g] = known[g],
           \A m \in Messages : chat'[m] = chat[m] \/ chat'[m] = Gone \/ chat'[m] = <<on[h], ver[h]>>,
           \A m \in Messages : chat'[m] # chat[m] /\ chat[m] # Gone => m = known[h],
           \A m \in Messages : chat[m] = Gone /\ chat'[m] # Gone =>
              /\ \A g \in Handlers : known[g] # m
              /\ \A d \in Decisions : tracked[d] # m
              /\ known'[h] = m \/ m \in loose',
           known'[h] = known[h] \/ (at[h] = "send" /\ got'[h] = "ok" /\ chat'[known'[h]] = <<on[h], ver[h]>>
                                    /\ chat[known'[h]] = Gone /\ known'[h] \in Messages
                                    /\ known[h] = None),
           InHand(h)',
           got'[h] = "ok" /\ at[h] \in {"edit", "send"} =>
              known'[h] \in Messages /\ chat'[known'[h]] = <<on[h], ver[h]>>
    PROVE  IInv'
  <1>0. TypeOK /\ on[h] \in Decisions /\ Owned
    BY DEF IInv, TypeOK
  <1>1. \A g \in Handlers \ {h} : Same(g)
    BY DEF Same
  <1>2. \A m \in Messages : chat[m] # Gone /\ chat'[m] # chat[m] => chat[m][1] = on[h]
    BY <1>0 DEF Owned, Live
  <1>3. \A e \in Decisions \ {on[h]} :
            /\ h \notin Busy(e) /\ h \notin Busy(e)'
            /\ \A m \in Messages : Untouched(m, e)
    <2> SUFFICES ASSUME NEW e \in Decisions \ {on[h]}
                 PROVE  /\ h \notin Busy(e) /\ h \notin Busy(e)'
                        /\ \A m \in Messages : Untouched(m, e)
      OBVIOUS
    <2>1. h \notin Busy(e) /\ h \notin Busy(e)'
      BY DEF Busy
    <2>2. ASSUME NEW m \in Messages
          PROVE  Untouched(m, e)
      <3>1. chat'[m] = chat[m] \/ chat'[m] = Gone \/ (chat'[m] # Gone /\ chat'[m][1] = on[h])
        BY Pairs
      <3>2. chat'[m] = chat[m] \/ Foreign(m, e)
        BY <1>2 DEF Foreign
      <3> QED
        BY <3>1, <3>2 DEF Untouched
    <2> QED
      BY <2>1, <2>2
  <1>4. \A g \in Handlers : InHand(g)'
    <2> SUFFICES ASSUME NEW g \in Handlers \ {h}
                 PROVE  InHand(g)'
      OBVIOUS
    <2>1. InHand(g) /\ Same(g)
      BY <1>1 DEF IInv
    <2>2. known[g] \notin Live => known[g] \notin Live'
      BY DEF Live
    <2> QED
      BY <2>1, <2>2 DEF InHand, Same
  <1>5. Owned'
    <2> SUFFICES ASSUME NEW m \in Messages, chat'[m] # Gone
                 PROVE  /\ \A g \in Handlers : known'[g] = m => chat'[m][1] = on[g]
                        /\ \A d \in Decisions : tracked[d] = m => chat'[m][1] = d
      BY DEF Owned, Live
    <2>1. CASE chat[m] # Gone
      <3>1. chat'[m][1] = chat[m][1]
        BY <1>2, <2>1, Pairs
      <3>2. known'[h] = m => known[h] = m
        BY <2>1
      <3> QED
        BY <1>0, <2>1, <3>1, <3>2 DEF Owned, Live
    <2>2. CASE chat[m] = Gone
      <3>1. chat'[m] = <<on[h], ver[h]>> /\ chat'[m][1] = on[h]
        BY <2>2, Pairs
      <3>2. /\ \A g \in Handlers : known'[g] = m => g = h
            /\ \A d \in Decisions : tracked[d] # m
        BY <2>2
      <3> QED
        BY <3>1, <3>2
    <2> QED
      BY <2>1, <2>2
  <1>6. Sound(on[h])'
    <2> DEFINE d == on[h]
    <2> SUFFICES ASSUME d \notin crossed
                 PROVE  (Alone(d) /\ OneMessageOf(d) /\ TrueOf(d))'
      BY DEF Sound
    <2>1. Alone(d) /\ OneMessageOf(d) /\ TrueOf(d) /\ h \in Busy(d) /\ Holds(h, d)
      BY <1>0 DEF IInv, Sound, Busy, Alone
    <2>2. Busy(d)' = Busy(d) /\ Busy(d) = {h}
      BY <2>1 DEF Busy, Alone
    <2>3. Holds(h, d)'
      <3>1. at[h] \in {"edit", "delete"} => known'[h] = known[h]
        OBVIOUS
      <3>2. at[h] \in {"edit", "send"} /\ got'[h] = "ok" =>
              known'[h] \in Live' /\ chat'[known'[h]] = <<d, newest[d]>>
        <4>1. at[h] \in {"edit", "send"} => ver[h] = newest[d]
          BY <2>1 DEF Holds
        <4>2. at[h] \in {"edit", "send"} /\ got'[h] = "ok" =>
                 known'[h] \in Messages /\ chat'[known'[h]] = <<d, newest[d]>>
          BY <4>1
        <4>3. <<d, newest[d]>> # Gone
          BY Pairs
        <4> QED
          BY <4>2, <4>3 DEF Live
      <3> QED
        BY <2>1, <3>1, <3>2 DEF Holds
    <2>4. OneMessageOf(d)'
      <3> SUFFICES ASSUME NEW m \in Messages, chat'[m] # Gone, m \notin loose', chat'[m][1] = d
                   PROVE  m = tracked[d] \/ known'[h] = m
        BY <2>2 DEF OneMessageOf, Live
      <3>1. CASE chat[m] # Gone
        <4>1. chat[m][1] = d
          BY <1>2, <3>1
        <4>2. m = tracked[d] \/ known[h] = m
          BY <2>1, <2>2, <3>1, <4>1 DEF OneMessageOf, Live
        <4>3. known[h] = m => known'[h] = m
          BY RelayAssumption
        <4> QED
          BY <4>2, <4>3
      <3>2. CASE chat[m] = Gone
        BY <3>2
      <3> QED
        BY <3>1, <3>2
    <2> QED
      BY <2>1, <2>2, <2>3, <2>4 DEF Alone, TrueOf, Holds
  <1>7. \A e \in Decisions : tracked'[e] = tracked[e] /\ told'[e] = told[e] /\ newest'[e] = newest[e]
    OBVIOUS
  <1> QED
    BY <1>1, <1>3, <1>4, <1>5, <1>6, <1>7, Assembled

LEMMA CallStep ==
    ASSUME IInv, TypeOK', NEW h \in Handlers, Edits(h) \/ Sends(h) \/ Deletes(h)
    PROVE  IInv'
  <1>0. TypeOK /\ InHand(h) /\ got[h] = "nothing" /\ at[h] \in {"edit", "send", "delete"}
    BY DEF IInv, Edits, Sends, Deletes, Waits
  <1>1. /\ UNCHANGED <<at, on, ver, tracked, newest, told, crossed>>
        /\ \A g \in Handlers \ {h} : got'[g] = got[g]
    BY <1>0 DEF Edits, Sends, Deletes, Answer, TypeOK
  <1>2. CASE Edits(h)
    <2>1. at[h] = "edit" /\ UNCHANGED <<known, loose>>
      BY <1>2 DEF Edits, Waits
    <2>2. \/ chat' = chat
          \/ known[h] \in Live /\ chat' = [chat EXCEPT ![known[h]] = <<on[h], ver[h]>>]
      BY <1>2 DEF Edits
    <2>3. got'[h] = "ok" => known[h] \in Live /\ chat' = [chat EXCEPT ![known[h]] = <<on[h], ver[h]>>]
      BY <1>0, <1>2 DEF Edits, Answer, TypeOK
    <2>4. InHand(h)'
      BY <1>1, <2>1 DEF InHand
    <2> QED
      BY <1>0, <1>1, <2>1, <2>2, <2>3, <2>4, AnswerStep DEF Live, TypeOK
  <1>3. CASE Deletes(h)
    <2>1. at[h] = "delete" /\ UNCHANGED <<known, loose>>
      BY <1>3 DEF Deletes, Waits
    <2>2. \A m \in Messages : chat'[m] = chat[m] \/ (chat'[m] = Gone /\ m = known[h])
      BY <1>0, <1>3 DEF Deletes, TypeOK
    <2>3. got'[h] = "ok" => known[h] \notin Live'
      BY <1>0, <1>3 DEF Deletes, Answer, TypeOK, Live
    <2>4. InHand(h)'
      BY <1>1, <2>1, <2>3 DEF InHand
    <2> QED
      BY <1>0, <1>1, <2>1, <2>2, <2>4, AnswerStep
  <1>4. CASE Sends(h)
    <2>1. at[h] = "send" /\ known[h] = None
      BY <1>0, <1>4 DEF Sends, Waits, InHand
    <2>2. CASE UNCHANGED <<chat, known, loose>> /\ got'[h] # "ok"
      BY <1>0, <1>1, <2>1, <2>2, AnswerStep DEF InHand
    <2>3. ASSUME NEW m \in Unused, chat' = [chat EXCEPT ![m] = <<on[h], ver[h]>>],
                 \/ got'[h] = "ok" /\ known' = [known EXCEPT ![h] = m] /\ UNCHANGED loose
                 \/ got'[h] # "ok" /\ UNCHANGED known /\ loose' = loose \cup {m}
          PROVE  IInv'
      <3>1. /\ m \in Messages /\ chat[m] = Gone
            /\ \A g \in Handlers : known[g] # m
            /\ \A d \in Decisions : tracked[d] # m
        BY DEF Unused
      <3>2. chat'[m] = <<on[h], ver[h]>> /\ \A n \in Messages \ {m} : chat'[n] = chat[n]
        BY <1>0, <2>3, <3>1 DEF TypeOK
      <3>3. InHand(h)'
        BY <1>1, <2>1, <2>3 DEF InHand
      <3>4. /\ \A g \in Handlers \ {h} : known'[g] = known[g]
            /\ known'[h] = known[h] \/ (got'[h] = "ok" /\ known'[h] = m)
            /\ known'[h] = m \/ m \in loose'
            /\ got'[h] = "ok" => known'[h] = m
            /\ loose \subseteq loose'
        BY <1>0, <2>3 DEF TypeOK
      <3> QED
        BY <1>0, <1>1, <2>1, <3>1, <3>2, <3>3, <3>4, AnswerStep
    <2>4. got'[h] \in {"ok", "threw"} /\ \A a : Answer(h, a) => got'[h] = a
      BY <1>0, <1>4 DEF Sends, Answer, TypeOK
    <2> QED
      BY <1>4, <2>2, <2>3, <2>4 DEF Sends
  <1> QED
    BY <1>2, <1>3, <1>4

-----------------------------------------------------------------------------
(* The relay goes on with the answer                                          *)

\* A request about d ends: what it leaves of the mapping and of what was told.
LEMMA EndStep ==
    ASSUME IInv, TypeOK', NEW h \in Handlers, at[h] \in {"edit", "send", "delete"}, Done(h),
           UNCHANGED <<chat, newest, crossed, loose>>,
           \A e \in Decisions \ {on[h]} : tracked'[e] = tracked[e] /\ told'[e] = told[e],
           tracked'[on[h]] \in {tracked[on[h]], known[h], None},
           on[h] \notin crossed =>
              /\ OneMessageOf(on[h])'
              /\ TrueOf(on[h])'
    PROVE  IInv'
  <1>0. TypeOK /\ on[h] \in Decisions /\ Owned
    BY DEF IInv, TypeOK
  <1>1. /\ on' = on /\ at'[h] = "idle" /\ known'[h] = None /\ got'[h] = "nothing"
        /\ \A g \in Handlers \ {h} : Same(g)
    BY <1>0, DoneTyped DEF Same
  <1>2. \A g \in Handlers : InHand(g)'
    BY <1>1 DEF IInv, InHand, Same, Live
  <1>3. Owned'
    <2>1. \A m \in Messages : m # None
      BY RelayAssumption
    <2>2. \A m \in Messages, d \in Decisions :
             tracked'[d] = m => tracked[d] = m \/ (known[h] = m /\ d = on[h])
      BY <2>1
    <2>3. \A m \in Messages, g \in Handlers : known'[g] = m => known[g] = m /\ on'[g] = on[g]
      BY <1>1, <2>1 DEF Same
    <2> QED
      BY <1>0, <2>2, <2>3 DEF Owned, Live
  <1>4. \A e \in Decisions \ {on[h]} : h \notin Busy(e) /\ h \notin Busy(e)'
    BY <1>1 DEF Busy
  <1>5. \A e \in Decisions, m \in Messages : Untouched(m, e)
    BY DEF Untouched
  <1>6. Sound(on[h])'
    <2> SUFFICES ASSUME on[h] \notin crossed
                 PROVE  (Alone(on[h]) /\ OneMessageOf(on[h]) /\ TrueOf(on[h]))'
      BY <1>1 DEF Sound
    <2>1. \A g \in Handlers : g \in Busy(on[h]) => g = h
      <3>1. Alone(on[h]) /\ h \in Busy(on[h])
        BY <1>0 DEF IInv, Sound, Busy
      <3> QED
        BY <3>1 DEF Alone
    <2>2. \A g \in Handlers : g \notin Busy(on[h])'
      BY <1>1, <2>1 DEF Busy, Same
    <2> QED
      BY <2>2 DEF Alone, Busy
  <1>7. \A e \in Decisions : newest'[e] = newest[e]
    OBVIOUS
  <1> QED
    BY <1>1, <1>2, <1>3, <1>4, <1>5, <1>6, <1>7, Assembled

\* Of a decision that nothing crossed, h is the one request.
LEMMA TheOne ==
    ASSUME IInv, NEW h \in Handlers, at[h] \in {"edit", "send", "delete"}, on[h] \notin crossed
    PROVE  /\ Holds(h, on[h]) /\ InHand(h)
           /\ \A m \in Live \ loose : chat[m][1] = on[h] => m \in {tracked[on[h]], known[h]}
  <1>1. on[h] \in Decisions /\ h \in Busy(on[h])
    BY DEF IInv, TypeOK, Busy
  <1>2. Alone(on[h]) /\ OneMessageOf(on[h]) /\ InHand(h)
    BY <1>1 DEF IInv, Sound
  <1> QED
    BY <1>1, <1>2 DEF Alone, OneMessageOf, Busy

LEMMA ShownIs ==
    ASSUME TypeOK, NEW d \in Decisions, Shown(d)
    PROVE  /\ told'[d] \in {"shown", "taken"}
           /\ told'[d] = "taken" <=> told[d] = "taken"
           /\ \A e \in Decisions \ {d} : told'[e] = told[e]
  BY DEF TypeOK, Shown

LEMMA StandsStep ==
    ASSUME IInv, TypeOK', NEW h \in Handlers, EditStands(h) \/ SentStands(h)
    PROVE  IInv'
  <1>0. TypeOK /\ on[h] \in Decisions /\ at[h] \in {"edit", "send"} /\ got[h] = "ok"
    BY DEF IInv, TypeOK, EditStands, SentStands
  <1>1. /\ Done(h) /\ Shown(on[h]) /\ UNCHANGED <<chat, newest, crossed, loose>> /\ on' = on
    BY DEF EditStands, SentStands, Done
  <1>2. /\ \A e \in Decisions \ {on[h]} : tracked'[e] = tracked[e] /\ told'[e] = told[e]
        /\ tracked'[on[h]] = IF at[h] = "edit" THEN tracked[on[h]] ELSE known[h]
    BY <1>0, <1>1, ShownIs DEF EditStands, SentStands, TypeOK
  <1>3. ASSUME on[h] \notin crossed
        PROVE  OneMessageOf(on[h])' /\ TrueOf(on[h])'
    <2>1. /\ Holds(h, on[h]) /\ InHand(h)
          /\ \A m \in Live \ loose : chat[m][1] = on[h] => m \in {tracked[on[h]], known[h]}
      BY <1>0, <1>3, TheOne
    <2>2. \A m \in Messages : m # None
      BY RelayAssumption
    <2>3. OneMessageOf(on[h])'
      <3>1. \A m \in Messages : m \in {tracked[on[h]], known[h]} => m = tracked'[on[h]]
        BY <1>0, <1>2, <2>1, <2>2 DEF Holds
      <3> QED
        BY <1>1, <2>1, <3>1 DEF OneMessageOf, Live
    <2>4. TrueOf(on[h])'
      <3>1. told'[on[h]] = "shown" => told[on[h]] # "taken"
        BY <1>0, <1>1, ShownIs
      <3>2. told'[on[h]] # "gone"
        BY <1>0, <1>1, ShownIs
      <3>3. told[on[h]] # "taken" => known[h] \in Live /\ chat[known[h]] = <<on[h], newest[on[h]]>>
        BY <1>0, <2>1 DEF Holds
      <3>4. told'[on[h]] = "shown" => \E m \in Live' : chat'[m] = <<on[h], newest'[on[h]]>>
        BY <1>1, <3>1, <3>3 DEF Live
      <3> QED
        BY <1>1, <3>2, <3>4 DEF TrueOf
    <2> QED
      BY <2>3, <2>4
  <1> QED
    BY <1>0, <1>1, <1>2, <1>3, EndStep

LEMMA ClearedStep ==
    ASSUME IInv, TypeOK', NEW h \in Handlers, Cleared(h)
    PROVE  IInv'
  <1>0. TypeOK /\ on[h] \in Decisions /\ at[h] = "delete" /\ got[h] = "ok"
    BY DEF IInv, TypeOK, Cleared
  <1>1. /\ Done(h) /\ UNCHANGED <<chat, newest, crossed, loose>> /\ on' = on
        /\ tracked'[on[h]] = None /\ told'[on[h]] = "gone"
        /\ \A e \in Decisions \ {on[h]} : tracked'[e] = tracked[e] /\ told'[e] = told[e]
    BY <1>0 DEF Cleared, Done, TypeOK
  <1>3. ASSUME on[h] \notin crossed
        PROVE  OneMessageOf(on[h])' /\ TrueOf(on[h])'
    <2>1. \A m \in Live \ loose : chat[m][1] # on[h]
      BY <1>0, <1>3, TheOne DEF Holds, InHand
    <2> QED
      BY <1>1, <2>1 DEF OneMessageOf, TrueOf, Live
  <1> QED
    BY <1>0, <1>1, <1>3, EndStep

LEMMA FailsStep ==
    ASSUME IInv, TypeOK', NEW h \in Handlers, Fails(h)
    PROVE  IInv'
  <1>0. TypeOK /\ on[h] \in Decisions /\ at[h] \in {"edit", "send", "delete"} /\ got[h] # "ok"
    BY DEF IInv, TypeOK, Fails, InHand, Calls
  <1>1. /\ Done(h) /\ UNCHANGED <<tracked, told, chat, newest, crossed, loose>> /\ on' = on
    BY DEF Fails, Done
  <1>3. ASSUME on[h] \notin crossed
        PROVE  OneMessageOf(on[h])' /\ TrueOf(on[h])'
    <2>1. /\ Holds(h, on[h]) /\ InHand(h)
          /\ \A m \in Live \ loose : chat[m][1] = on[h] => m \in {tracked[on[h]], known[h]}
      BY <1>0, <1>3, TheOne
    <2>2. \A m \in Live \ loose : chat[m][1] = on[h] => m = tracked[on[h]]
      BY <1>0, <2>1, RelayAssumption DEF Holds, InHand, Live
    <2> QED
      BY <1>1, <2>1, <2>2 DEF OneMessageOf, TrueOf, Holds, Live
  <1> QED
    BY <1>0, <1>1, <1>3, EndStep

LEMMA RefusedStep ==
    ASSUME IInv, TypeOK', NEW h \in Handlers, EditRefused(h)
    PROVE  IInv'
  <1>0. TypeOK /\ on[h] \in Decisions /\ at[h] = "edit" /\ "send" \in Calls /\ ver[h] \in 0 .. MaxVersion
    BY DEF IInv, TypeOK, EditRefused, Calls
  <1>1. /\ at'[h] = "send" /\ on'[h] = on[h] /\ ver'[h] = ver[h] /\ known'[h] = None /\ got'[h] = "nothing"
        /\ \A g \in Handlers \ {h} : Same(g)
    BY <1>0, CallingTyped DEF EditRefused, Same
  <1>2. /\ UNCHANGED <<chat, newest, told, crossed>> /\ loose' = loose \cup ({known[h]} \cap Live)
        /\ tracked'[on[h]] = None /\ \A e \in Decisions \ {on[h]} : tracked'[e] = tracked[e]
    BY <1>0 DEF EditRefused, TypeOK
  <1>3. \A g \in Handlers : InHand(g)'
    BY <1>1, <1>2 DEF IInv, InHand, Same, Live
  <1>4. Owned'
    <2>1. \A m \in Messages : m # None
      BY RelayAssumption
    <2>2. \A m \in Messages : \A d \in Decisions : tracked'[d] = m => tracked[d] = m
      BY <1>2, <2>1
    <2>3. \A m \in Messages : \A g \in Handlers : known'[g] = m => known[g] = m /\ on'[g] = on[g]
      BY <1>1, <2>1 DEF Same
    <2> QED
      BY <1>2, <2>2, <2>3 DEF IInv, Owned, Live
  <1>5. \A e \in Decisions \ {on[h]} : h \notin Busy(e) /\ h \notin Busy(e)'
    BY <1>1 DEF Busy
  <1>6. ASSUME NEW d \in Decisions, d = on[h], d \notin crossed
        PROVE  (Alone(d) /\ OneMessageOf(d) /\ TrueOf(d))'
    <2>1. /\ Holds(h, d)
          /\ \A m \in Live \ loose : chat[m][1] = d => m \in {tracked[d], known[h]}
      BY <1>0, <1>6, TheOne
    <2>2. \A g \in Handlers : g \in Busy(d)' <=> g = h
      <3>1. \A g \in Handlers : g \in Busy(d) => g = h
        BY <1>0, <1>6 DEF IInv, Sound, Alone, Busy
      <3> QED
        BY <1>1, <1>6, <3>1 DEF Busy, Same
    <2>3. Holds(h, d)'
      BY <1>0, <1>1, <1>2, <1>6, <2>1 DEF Holds
    <2>4. Alone(d)'
      BY <2>2, <2>3 DEF Alone, Busy
    <2>5. \A m \in Live' \ loose' : chat'[m][1] # d
      BY <1>0, <1>2, <1>6, <2>1 DEF Holds, Live
    <2>6. OneMessageOf(d)' /\ TrueOf(d)'
      BY <1>2, <2>1, <2>5 DEF OneMessageOf, TrueOf, Holds
    <2> QED
      BY <2>4, <2>6
  <1>7. Sound(on[h]) => \A d \in Decisions : d = on[h] => Sound(d)'
    BY <1>2, <1>6 DEF Sound
  <1>8. \A e \in Decisions, m \in Messages : Untouched(m, e)
    BY <1>2 DEF Untouched
  <1>9. Sound(on[h]) /\ \A e \in Decisions : newest'[e] = newest[e] /\ told'[e] = told[e]
    BY <1>0, <1>2 DEF IInv
  <1> QED
    BY <1>1, <1>2, <1>3, <1>4, <1>5, <1>7, <1>8, <1>9, Assembled

-----------------------------------------------------------------------------
(* Faults                                                                     *)

LEMMA RestartStep ==
    ASSUME IInv, TypeOK', Restart
    PROVE  IInv'
  <1>0. TypeOK
    BY DEF IInv
  <1>1. /\ \A h \in Handlers : at'[h] = "idle" /\ known'[h] = None /\ got'[h] = "nothing"
        /\ \A d \in Decisions : tracked'[d] = None
        /\ loose' = loose \cup Live /\ UNCHANGED <<on, chat, newest, told, crossed>>
    BY DEF Restart
  <1>2. \A h \in Handlers : InHand(h)'
    BY <1>1 DEF InHand
  <1>3. Owned'
    BY <1>1, RelayAssumption DEF Owned, Live
  <1>4. ASSUME NEW d \in Decisions
        PROVE  Sound(d)'
    <2> SUFFICES ASSUME d \notin crossed
                 PROVE  (Alone(d) /\ OneMessageOf(d) /\ TrueOf(d))'
      BY <1>1 DEF Sound
    <2>1. Busy(d)' = {} /\ Live' = Live
      BY <1>1 DEF Busy, Live
    <2>2. TrueOf(d)
      BY DEF IInv, Sound
    <2> QED
      BY <1>1, <2>1, <2>2 DEF Alone, OneMessageOf, TrueOf
  <1> QED
    BY <1>2, <1>3, <1>4 DEF IInv

LEMMA OwnerDeletesStep ==
    ASSUME IInv, TypeOK', NEW m \in Messages, OwnerDeletes(m)
    PROVE  IInv'
  <1>0. TypeOK /\ m \in Live /\ chat[m][1] \in Decisions
    BY Pairs DEF IInv, TypeOK, OwnerDeletes, Live
  <1>1. /\ UNCHANGED <<at, on, ver, known, got, tracked, newest, crossed, loose>>
        /\ \A g \in Handlers : Same(g)
    BY DEF OwnerDeletes, relay, Same
  <1>2. /\ chat'[m] = Gone /\ \A n \in Messages \ {m} : chat'[n] = chat[n]
        /\ told'[chat[m][1]] = "taken" /\ \A e \in Decisions \ {chat[m][1]} : told'[e] = told[e]
    BY <1>0 DEF OwnerDeletes, TypeOK
  <1>3. Live' = Live \ {m}
    BY <1>2 DEF Live
  <1>4. (\A g \in Handlers : InHand(g)') /\ Owned'
    BY <1>1, <1>2, <1>3 DEF IInv, InHand, Owned, Live
  <1>5. ASSUME NEW e \in Decisions, e # chat[m][1]
        PROVE  \A n \in Messages : Untouched(n, e)
    BY <1>2, <1>5 DEF Untouched, Foreign
  <1>6. ASSUME NEW d \in Decisions, d = chat[m][1], Sound(d)
        PROVE  Sound(d)'
    <2> SUFFICES ASSUME d \notin crossed
                 PROVE  (Alone(d) /\ OneMessageOf(d) /\ TrueOf(d))'
      BY <1>1 DEF Sound
    <2>1. Alone(d) /\ OneMessageOf(d)
      BY <1>6 DEF Sound
    <2>2. told'[d] = "taken" /\ Busy(d)' = Busy(d)
      BY <1>1, <1>2, <1>6 DEF Busy
    <2>3. Alone(d)'
      BY <1>1, <2>1, <2>2 DEF Alone, Holds
    <2>4. OneMessageOf(d)'
      BY <1>1, <1>2, <1>3, <2>1, <2>2 DEF OneMessageOf, Live
    <2> QED
      BY <2>2, <2>3, <2>4 DEF TrueOf
  <1>7. \A e \in Decisions : Sound(e) /\ newest'[e] = newest[e] /\ tracked'[e] = tracked[e]
    BY <1>1 DEF IInv
  <1> QED
    BY <1>1, <1>2, <1>4, <1>5, <1>6, <1>7, Assembled

-----------------------------------------------------------------------------
(* The results                                                                *)

LEMMA IInvInit == Init => IInv
  <1> SUFFICES ASSUME Init
               PROVE  IInv
    OBVIOUS
  <1>1. \A h \in Handlers : InHand(h)
    BY DEF Init, InHand
  <1>2. Live = {} /\ \A d \in Decisions : Busy(d) = {} /\ told[d] = "nothing"
    BY DEF Init, Live, Busy
  <1>3. Owned /\ \A d \in Decisions : Sound(d)
    BY <1>2 DEF Owned, Sound, Alone, OneMessageOf, TrueOf
  <1> QED
    BY <1>1, <1>3, TypeInit DEF IInv

LEMMA IInvStep == IInv /\ [Next]_vars => IInv'
  <1> SUFFICES ASSUME IInv, [Next]_vars
               PROVE  IInv'
    OBVIOUS
  <1>0. TypeOK'
    BY TypeStep DEF IInv
  <1>1. ASSUME NEW h \in Handlers, Handles(h) \/ Notice(h)
        PROVE  IInv'
    BY <1>0, <1>1, CallStep, StandsStep, RefusedStep, ClearedStep, FailsStep, NoticeStep DEF Handles
  <1>2. CASE UNCHANGED vars
    <2>1. \A h \in Handlers : Same(h) /\ InHand(h)'
      BY <1>2 DEF vars, relay, Same, IInv, InHand, Live
    <2>2. Owned'
      BY <1>2 DEF vars, relay, IInv, Owned, Live
    <2>3. UNCHANGED <<tracked, told, newest, crossed, loose, chat>>
      BY <1>2 DEF vars
    <2>4. \A e \in Decisions, m \in Messages : Untouched(m, e)
      BY <2>3 DEF Untouched
    <2> QED
      BY <1>0, <2>1, <2>2, <2>3, <2>4, Assembled
  <1> QED
    BY <1>0, <1>1, <1>2, PostStep, ClearStep, ClearUnknownStep, RestartStep, OwnerDeletesStep DEF Next

LEMMA IInvAlways == Spec => []IInv
  BY IInvInit, IInvStep, PTL DEF Spec

\* Every request, the mapping and the chat stay well formed (app.js: upsertDecision).
THEOREM Typing == Spec => []TypeOK
  <1>1. IInv => TypeOK
    BY DEF IInv
  <1> QED
    BY <1>1, IInvAlways, PTL

\* Of a decision whose requests came one after another the chat has no message but
\* the one the relay knows, whatever the other requests, refusals, lost answers
\* and restarts (app.js: upsertDecision, clearDecision).
THEOREM OneMessagePerDecision == Spec => []OneMessage
  <1>1. IInv => OneMessage
    BY DEF IInv, Sound, OneMessage, OneMessageOf
  <1> QED
    BY <1>1, IInvAlways, PTL

\* What a 200 said of such a decision stays so until the next request about it
\* (app.js: upsertDecision, clearDecision).
THEOREM AnswersAreTrue == Spec => []AnswerIsTrue
  <1>1. IInv => AnswerIsTrue
    BY DEF IInv, Sound, AnswerIsTrue, TrueOf
  <1> QED
    BY <1>1, IInvAlways, PTL

-----------------------------------------------------------------------------
(* The length of a message                                                    *)

\* Every set of natural numbers has a least one: what induction over the number
\* of code points left comes down to, as the least counterexample.
LEMMA LeastOfMany ==
    ASSUME NEW T, T \subseteq Nat, T # {}
    PROVE  \E x \in T : \A y \in T : x <= y
  <1> DEFINE R == OpToRel(<, Nat)
  <1>1. IsWellFoundedOn(R, Nat)
    BY NatLessThanWellFounded
  <1>2. PICK x \in T : \A y \in T : <<y, x>> \notin R
    <2> HIDE DEF R
    <2> QED BY <1>1, WFMin
  <1>3. ASSUME NEW y \in T PROVE x <= y
    <2>1. x \in Nat /\ y \in Nat /\ <<y, x>> \notin R
      BY <1>2
    <2>2. ~(y < x)
      BY <2>1 DEF OpToRel
    <2> HIDE DEF R
    <2> QED BY <2>1, <2>2
  <1> QED BY <1>3

\* A pass takes at least one code point away.
LEMMA APassShortens ==
    ASSUME NEW c \in Nat \ {0}, NEW over \in Int
    PROVE  Shrunk(c, over) \in 0 .. c - 1
  BY DEF Shrunk, Least, Most

\* What the loop does, as an equation, for texts of up to n code points.
Pass(f, over, c) == IF over[c] > 0 /\ c > 0 THEN f[Shrunk(c, over[c])] ELSE c

Follows(f, over, n) == \A c \in 0 .. n : f[c] = Pass(f, over, c)

\* The loop ends: a function that follows it exists for texts of any length.
LEMMA FollowedUpTo ==
    ASSUME NEW over \in [Nat -> Int], NEW n \in Nat
    PROVE  \E f \in [0 .. n -> Nat] : Follows(f, over, n)
  <1> DEFINE T == {k \in Nat : ~ \E f \in [0 .. k -> Nat] : Follows(f, over, k)}
  <1>1. SUFFICES ASSUME T # {} PROVE FALSE
    OBVIOUS
  <1>2. PICK k \in T : \A j \in T : k <= j
    BY <1>1, LeastOfMany
  <1>3. k \in Nat /\ ~ \E f \in [0 .. k -> Nat] : Follows(f, over, k)
    OBVIOUS
  <1>4. CASE k = 0
    <2>1. [c \in 0 .. k |-> c] \in [0 .. k -> Nat]
      BY <1>3
    <2>2. Follows([c \in 0 .. k |-> c], over, k)
      BY <1>4 DEF Follows, Pass
    <2> QED BY <2>1, <2>2, <1>3
  <1>5. CASE k # 0
    <2>1. k - 1 \in Nat /\ k - 1 \notin T
      <3>1. k - 1 \in Nat /\ ~(k <= k - 1)
        BY <1>3, <1>5
      <3> HIDE DEF T
      <3> QED BY <3>1, <1>2
    <2>2. PICK f \in [0 .. k - 1 -> Nat] : Follows(f, over, k - 1)
      BY <2>1
    <2> DEFINE g == [c \in 0 .. k |-> Pass(f, over, c)]
    <2>3. \A c \in 1 .. k : Shrunk(c, over[c]) \in 0 .. c - 1
      BY APassShortens, <1>3
    <2>4. ASSUME NEW c \in 0 .. k PROVE g[c] \in Nat
      <3>1. CASE over[c] > 0 /\ c > 0
        <4>1. Shrunk(c, over[c]) \in 0 .. k - 1
          BY <2>3, <3>1, <1>3
        <4> QED BY <4>1, <3>1, <2>2 DEF Pass
      <3>2. CASE ~(over[c] > 0 /\ c > 0)
        BY <3>2 DEF Pass
      <3> QED BY <3>1, <3>2
    <2>5. g \in [0 .. k -> Nat]
      BY <2>4
    <2>6. \A c \in 0 .. k - 1 : g[c] = f[c]
      BY <2>2, <1>3 DEF Follows
    <2>7. ASSUME NEW c \in 0 .. k PROVE g[c] = Pass(g, over, c)
      <3>1. CASE over[c] > 0 /\ c > 0
        <4>1. Shrunk(c, over[c]) \in 0 .. k - 1
          BY <2>3, <3>1, <1>3
        <4>2. g[Shrunk(c, over[c])] = f[Shrunk(c, over[c])]
          BY <4>1, <2>6
        <4>3. g[c] = Pass(f, over, c)
          OBVIOUS
        <4> HIDE DEF g
        <4> QED BY <4>2, <4>3, <3>1 DEF Pass
      <3>2. CASE ~(over[c] > 0 /\ c > 0)
        BY <3>2 DEF Pass
      <3> QED BY <3>1, <3>2
    <2>8. Follows(g, over, k)
      <3> HIDE DEF g
      <3> QED BY <2>7 DEF Follows
    <2> QED
      <3> HIDE DEF g
      <3> QED BY <2>5, <2>8, <1>3
  <1> QED BY <1>4, <1>5

\* Two that follow it agree, as far as both go.
LEMMA FollowedAlike ==
    ASSUME NEW over \in [Nat -> Int], NEW m \in Nat, NEW n \in Nat, m <= n,
           NEW f, NEW g, Follows(f, over, m), Follows(g, over, n)
    PROVE  \A c \in 0 .. m : f[c] = g[c]
  <1> DEFINE T == {k \in 0 .. m : f[k] # g[k]}
  <1>1. SUFFICES ASSUME T # {} PROVE FALSE
    OBVIOUS
  <1>2. PICK k \in T : \A j \in T : k <= j
    <2>1. T \subseteq Nat
      OBVIOUS
    <2> HIDE DEF T
    <2> QED BY <1>1, <2>1, LeastOfMany
  <1>3. f[k] = Pass(f, over, k) /\ g[k] = Pass(g, over, k)
    BY DEF Follows
  <1>4. CASE over[k] > 0 /\ k > 0
    <2>1. Shrunk(k, over[k]) \in 0 .. k - 1
      BY <1>4, APassShortens
    <2>2. Shrunk(k, over[k]) \in 0 .. m /\ Shrunk(k, over[k]) \notin T
      BY <2>1, <1>2
    <2>3. f[Shrunk(k, over[k])] = g[Shrunk(k, over[k])]
      BY <2>2
    <2> QED BY <2>3, <1>3, <1>4 DEF Pass
  <1>5. CASE ~(over[k] > 0 /\ k > 0)
    BY <1>3, <1>5 DEF Pass
  <1> QED BY <1>4, <1>5

\* So the loop is a function, and it is the one that follows the equation.
LEMMA TheLoopIsDefined ==
    ASSUME NEW over \in [Nat -> Int]
    PROVE  GivesWay(over) = [c \in Nat |-> Pass(GivesWay(over), over, c)]
  <1> DEFINE Upto(n) == CHOOSE f \in [0 .. n -> Nat] : Follows(f, over, n)
             h == [c \in Nat |-> Upto(c)[c]]
  <1>1. ASSUME NEW n \in Nat PROVE Follows(Upto(n), over, n)
    BY FollowedUpTo
  <1>2. ASSUME NEW n \in Nat PROVE \A c \in 0 .. n : h[c] = Upto(n)[c]
    <2> SUFFICES ASSUME NEW c \in 0 .. n PROVE h[c] = Upto(n)[c]
      OBVIOUS
    <2>1. c \in Nat /\ c <= n
      OBVIOUS
    <2>2. Follows(Upto(c), over, c) /\ Follows(Upto(n), over, n)
      BY <1>1, <2>1
    <2>3. h[c] = Upto(c)[c]
      BY <2>1
    <2> HIDE DEF Upto, h
    <2>4. Upto(c)[c] = Upto(n)[c]
      BY <2>1, <2>2, FollowedAlike
    <2> QED BY <2>3, <2>4
  <1>3. ASSUME NEW c \in Nat PROVE h[c] = Pass(h, over, c)
    <2>1. h[c] = Upto(c)[c] /\ Upto(c)[c] = Pass(Upto(c), over, c)
      <3>1. h[c] = Upto(c)[c]
        OBVIOUS
      <3>2. Follows(Upto(c), over, c) /\ c \in 0 .. c
        BY <1>1
      <3> HIDE DEF Upto, h
      <3> QED BY <3>1, <3>2 DEF Follows
    <2>2. \A b \in 0 .. c : h[b] = Upto(c)[b]
      BY <1>2
    <2> HIDE DEF Upto, h
    <2>3. CASE over[c] > 0 /\ c > 0
      <3>1. Shrunk(c, over[c]) \in 0 .. c
        BY <2>3, APassShortens
      <3> QED BY <2>1, <2>2, <3>1 DEF Pass
    <2>4. CASE ~(over[c] > 0 /\ c > 0)
      BY <2>1, <2>4 DEF Pass
    <2> QED BY <2>3, <2>4
  <1>4. h = [c \in Nat |-> Pass(h, over, c)]
    <2>1. h = [c \in Nat |-> h[c]]
      OBVIOUS
    <2> HIDE DEF h
    <2> QED BY <2>1, <1>3
  <1> HIDE DEF h
  <1>5. \E f : f = [c \in Nat |-> Pass(f, over, c)]
    BY <1>4
  <1>6. GivesWay(over) = CHOOSE f : f = [c \in Nat |-> Pass(f, over, c)]
    BY DEF GivesWay, Pass
  <1> QED BY <1>5, <1>6

\* What is left is no more than there was, the whole of it if the message fitted,
\* and makes the message fit unless nothing is left.
LEMMA TheLoopMakesItFit ==
    ASSUME NEW over \in [Nat -> Int], NEW n \in Nat
    PROVE  /\ GivesWay(over)[n] \in 0 .. n
           /\ over[n] <= 0 => GivesWay(over)[n] = n
           /\ GivesWay(over)[n] = 0 \/ over[GivesWay(over)[n]] <= 0
  <1> DEFINE f == GivesWay(over)
             Fits(k) == /\ f[k] \in 0 .. k
                        /\ over[k] <= 0 => f[k] = k
                        /\ f[k] = 0 \/ over[f[k]] <= 0
             T == {k \in Nat : ~Fits(k)}
  <1>1. \A c \in Nat : f[c] = Pass(f, over, c)
    BY TheLoopIsDefined
  <1>2. SUFFICES ASSUME T # {} PROVE FALSE
    OBVIOUS
  <1>3. PICK k \in T : \A j \in T : k <= j
    BY <1>2, LeastOfMany
  <1>4. k \in Nat /\ ~Fits(k) /\ f[k] = Pass(f, over, k)
    BY <1>1
  <1> HIDE DEF f
  <1>5. CASE over[k] > 0 /\ k > 0
    <2>1. Shrunk(k, over[k]) \in 0 .. k - 1
      BY <1>4, <1>5, APassShortens
    <2>2. Fits(Shrunk(k, over[k]))
      BY <2>1, <1>3, <1>4
    <2>3. f[k] = f[Shrunk(k, over[k])]
      BY <1>4, <1>5 DEF Pass
    <2> QED BY <2>1, <2>2, <2>3, <1>4, <1>5
  <1>6. CASE ~(over[k] > 0 /\ k > 0)
    <2>1. f[k] = k
      BY <1>4, <1>6 DEF Pass
    <2>2. over[k] \in Int
      BY <1>4
    <2> QED BY <2>1, <2>2, <1>4, <1>6
  <1> QED BY <1>5, <1>6

LEMMA RenderedTyped ==
    ASSUME NEW t, t \in Texts \/ t \in Urls PROVE Rendered(t) \in Nat
  <1>1. t.n \in Nat /\ t.w \in 1 .. 6
    BY DEF Texts, Urls
  <1>2. \A a, b \in Nat : a * b \in Nat
    OBVIOUS
  <1> QED BY <1>1, <1>2 DEF Rendered

\* At most n code points render to at most 5 * n characters.
LEMMA RenderedBound ==
    ASSUME NEW t \in Texts, NEW n \in Nat, t.n <= n PROVE Rendered(t) <= 5 * n
  <1>1. t.n \in Nat /\ t.w \in 1 .. 5
    BY DEF Texts
  <1>2. t.w = 1 \/ t.w = 2 \/ t.w = 3 \/ t.w = 4 \/ t.w = 5
    BY <1>1
  <1> QED BY <1>1, <1>2 DEF Rendered

LEMMA KeptTyped == ASSUME NEW t \in Texts, NEW c \in Nat PROVE Kept(t, c) \in Int
  <1>1. t.n \in Nat /\ t.w \in Int
    BY DEF Texts
  <1>2. \A a, b \in Int : a * b \in Int
    OBVIOUS
  <1>3. c * t.w \in Int /\ (c - 1) * t.w \in Int
    BY <1>1, <1>2
  <1> QED BY <1>3 DEF Kept

\* An envelope whose limits hold: the comment on FIELD_LIMITS does this sum.
LEMMA LimitsFit ==
    ASSUME NEW e \in Notices, Valid(e) PROVE Uncut(e) \in Nat /\ Uncut(e) <= 3283
  <1>1. /\ Rendered(e.source) \in Nat /\ Rendered(e.source) <= 64
        /\ Rendered(e.subject) \in Nat /\ Rendered(e.subject) <= 128
        /\ Rendered(e.headline) \in Nat /\ Rendered(e.headline) <= 800
        /\ Rendered(e.action) \in Nat /\ Rendered(e.action) <= 400
    <2>1. /\ FieldLimits.source = 64 /\ FieldLimits["source"] = 64
          /\ FieldLimits["subject"] = 128 /\ FieldLimits["headline"] = 800
          /\ FieldLimits.action = 400
      BY DEF FieldLimits
    <2>2. /\ e.source \in Texts /\ e.subject \in Texts /\ e.headline \in Texts
          /\ e.action \in Texts
      BY DEF Notices
    <2> QED BY <2>1, <2>2, RenderedTyped DEF Valid
  <1>2. LinksLength(e) \in Nat /\ LinksLength(e) <= 1852
    <2> DEFINE a == Rendered(e.link.text)
               b == Rendered(e.link.url)
    <2>1. a \in Nat /\ b \in Nat
      <3>1. e.link.text \in Texts /\ e.link.url \in Urls
        BY DEF Notices
      <3> QED BY <3>1, RenderedTyped
    <2>2. e.links \in Nat /\ e.links <= 3 /\ (e.links > 0 => a <= 100 /\ b <= 500)
      BY DEF Notices, Valid, MaxLinks, LinkTextMax, LinkUrlMax
    <2>3. LinksLength(e) = IF e.links = 0 THEN 0
                           ELSE 1 + e.links * (15 + a + b) + 3 * (e.links - 1)
      BY DEF LinksLength
    <2>4. e.links = 0 \/ e.links = 1 \/ e.links = 2 \/ e.links = 3
      BY <2>2
    <2> HIDE DEF a, b
    <2> QED BY <2>1, <2>2, <2>3, <2>4
  <1>3. ActionLength(e) \in Nat /\ ActionLength(e) <= 416
    BY <1>1 DEF ActionLength
  <1> QED BY <1>1, <1>2, <1>3 DEF Uncut

\* The detail goes first, then the body, and what is never cut fits by itself.
LEMMA CutToFit ==
    ASSUME NEW e \in Notices, Uncut(e) \in Nat, Uncut(e) <= MaxMsgChars
    PROVE  /\ Length(e) \in Int /\ Length(e) <= MaxMsgChars
           /\ BodyLeft(e, DetailLeft(e)) # e.body.n => DetailLeft(e) = 0
  <1> DEFINE d == DetailLeft(e)
             b == BodyLeft(e, d)
             overD == [c \in Nat |-> Built(e, e.body.n, c) - MaxMsgChars]
             overB == [c \in Nat |-> Built(e, c, d) - MaxMsgChars]
  <1>1. e.body \in Texts /\ e.detail \in Texts /\ e.body.n \in Nat /\ e.detail.n \in Nat
    BY DEF Notices, Texts
  <1>2. \A c, k \in Nat : Built(e, c, k) \in Int
    <2> SUFFICES ASSUME NEW c \in Nat, NEW k \in Nat PROVE Built(e, c, k) \in Int
      OBVIOUS
    <2>1. BodyLength(e, c) \in Int /\ DetailLength(e, k) \in Int
      BY <1>1, KeptTyped DEF BodyLength, DetailLength
    <2> QED BY <2>1 DEF Built
  <1>3. overD \in [Nat -> Int]
    BY <1>1, <1>2 DEF MaxMsgChars
  <1>4. d = GivesWay(overD)[e.detail.n]
    BY DEF DetailLeft
  <1>5. d \in Nat /\ (d = 0 \/ overD[d] <= 0)
    <2> HIDE DEF overD, d
    <2> QED BY <1>1, <1>3, <1>4, TheLoopMakesItFit
  <1>6. overB \in [Nat -> Int]
    <2> HIDE DEF d
    <2> QED BY <1>2, <1>5 DEF MaxMsgChars
  <1>7. b = GivesWay(overB)[e.body.n]
    BY DEF BodyLeft
  <1>8. b \in Nat /\ (overB[e.body.n] <= 0 => b = e.body.n) /\ (b = 0 \/ overB[b] <= 0)
    <2> HIDE DEF overB, b, d
    <2> QED BY <1>1, <1>6, <1>7, TheLoopMakesItFit
  <1>9. Length(e) = Built(e, b, d)
    BY DEF Length
  <1>10. d # 0 => overB[e.body.n] <= 0
    <2>1. overD[d] = Built(e, e.body.n, d) - MaxMsgChars
      BY <1>5
    <2>2. overB[e.body.n] = Built(e, e.body.n, d) - MaxMsgChars
      BY <1>1
    <2> HIDE DEF overB, overD, d
    <2> QED BY <1>5, <2>1, <2>2
  <1>11. overB[b] = Built(e, b, d) - MaxMsgChars
    <2>1. b \in Nat
      BY <1>8
    <2> HIDE DEF b, d
    <2> QED BY <2>1
  <1> HIDE DEF overB, overD, b
  <1>12. overB[b] <= 0 => Built(e, b, d) <= MaxMsgChars
    <2>1. Built(e, b, d) \in Int
      BY <1>2, <1>5, <1>8
    <2> QED BY <2>1, <1>11 DEF MaxMsgChars
  <1>13. b = 0 /\ d = 0 => Built(e, b, d) <= MaxMsgChars
    BY DEF Built, BodyLength, DetailLength
  <1>14. b # e.body.n => d = 0
    BY <1>8, <1>10
  <1>15. Built(e, b, d) \in Int /\ Built(e, b, d) <= MaxMsgChars
    <2>3. Built(e, b, d) \in Int
      BY <1>2, <1>5, <1>8
    <2> DEFINE length == Built(e, b, d)
    <2> HIDE DEF d, length
    <2>1. CASE d = 0
      <3>1. (overB[b] <= 0 => length <= MaxMsgChars) /\ (b = 0 => length <= MaxMsgChars)
        BY <2>1, <1>12, <1>13 DEF length
      <3> QED BY <3>1, <1>8, <2>3 DEF length
    <2>2. CASE d # 0
      <3>1. overB[b] <= 0
        BY <2>2, <1>8, <1>10
      <3> QED BY <3>1, <1>12, <2>3
    <2> QED BY <2>1, <2>2, <2>3
  <1>16. BodyLeft(e, DetailLeft(e)) = b /\ DetailLeft(e) = d
    BY DEF b
  <1> QED BY <1>9, <1>14, <1>15, <1>16

\* envelopeFromText and envelopeFromDevclawRow keep the limits by their clips.
LEMMA TextFits ==
    ASSUME NEW first \in Texts, NEW rest \in Texts
    PROVE  /\ FromText(first, rest) \in Notices
           /\ Uncut(FromText(first, rest)) \in Nat /\ Uncut(FromText(first, rest)) <= MaxMsgChars
  <1> DEFINE e == FromText(first, rest)
             head == Least(first.n, MaxTextHeadline)
  <1>1. first.n \in Nat /\ rest.n \in Nat /\ first.w \in 1 .. 5
    BY DEF Texts
  <1>2. head \in 0 .. 160 /\ first.n - head \in Nat
    BY <1>1 DEF Least, MaxTextHeadline
  <1>3. \A n \in Nat, w \in 1 .. 5 :
           Text(n, w) \in Texts /\ Text(n, w) \in Urls /\ Text(n, w).n = n /\ Text(n, w).w = w
    BY DEF Text, Texts, Urls
  <1>4. e = [source |-> Text(7, 1), subject |-> Text(4, 1), headline |-> Text(head, first.w),
             body |-> Text(first.n - head + rest.n, first.w), detail |-> NoText,
             links |-> 0, link |-> [text |-> NoText, url |-> NoText],
             acts |-> FALSE, action |-> NoText]
    BY DEF FromText
  <1>5. first.n - head + rest.n \in Nat
    BY <1>1, <1>2
  <1> HIDE DEF head
  <1>6. e \in Notices
    BY <1>1, <1>2, <1>3, <1>4, <1>5 DEF Notices, NoText
  <1>7. Rendered(e.source) = 7 /\ Rendered(e.subject) = 4
    BY <1>4, <1>3 DEF Rendered
  <1>8. Rendered(e.headline) \in Nat /\ Rendered(e.headline) <= 800
    <2>1. e.headline \in Texts /\ e.headline.n <= 160
      BY <1>1, <1>2, <1>3, <1>4
    <2> HIDE DEF e
    <2> QED BY <2>1, RenderedTyped, RenderedBound
  <1>9. LinksLength(e) = 0 /\ ActionLength(e) = 0
    BY <1>4 DEF LinksLength, ActionLength
  <1> HIDE DEF e
  <1>10. Uncut(e) \in Nat /\ Uncut(e) <= MaxMsgChars
    BY <1>7, <1>8, <1>9 DEF Uncut, MaxMsgChars
  <1> QED BY <1>6, <1>10 DEF e

LEMMA RowFits ==
    ASSUME NEW row \in Rows
    PROVE  /\ FromDevclawRow(row) \in Notices
           /\ Uncut(FromDevclawRow(row)) \in Nat /\ Uncut(FromDevclawRow(row)) <= MaxMsgChars
  <1> DEFINE e == FromDevclawRow(row)
             subject == Least(row.kind, 16) + 1 + Least(row.task, 8)
             headline == Least(row.status, 64)
             body == Least(row.goal, 240) + (IF row.failed THEN 0 ELSE 2 + Least(row.result, 400))
             detail == IF row.failed THEN Text(Least(row.error, 600), row.w) ELSE NoText
  <1>1. /\ row.kind \in Nat /\ row.task \in Nat /\ row.status \in Nat /\ row.goal \in Nat
        /\ row.result \in Nat /\ row.error \in Nat /\ row.w \in 1 .. 5 /\ row.failed \in BOOLEAN
    BY DEF Rows
  <1>2. \A a \in Nat : /\ Least(a, 16) \in 0 .. 16 /\ Least(a, 8) \in 0 .. 8
                      /\ Least(a, 64) \in 0 .. 64 /\ Least(a, 240) \in Nat
                      /\ Least(a, 400) \in Nat /\ Least(a, 600) \in Nat
    BY DEF Least
  <1>3. \A n \in Nat, w \in 1 .. 5 :
           Text(n, w) \in Texts /\ Text(n, w) \in Urls /\ Text(n, w).n = n /\ Text(n, w).w = w
    BY DEF Text, Texts, Urls
  <1>4. subject \in 0 .. 25 /\ headline \in 0 .. 64 /\ body \in Nat
    <2>1. Least(row.kind, 16) \in 0 .. 16 /\ Least(row.task, 8) \in 0 .. 8
      BY <1>1, <1>2
    <2>2. Least(row.goal, 240) \in Nat /\ Least(row.result, 400) \in Nat
      BY <1>1, <1>2
    <2>3. headline \in 0 .. 64
      BY <1>1, <1>2
    <2>4. body \in Nat
      BY <2>2, <1>1
    <2> QED BY <2>1, <2>3, <2>4
  <1>5. detail \in Texts
    <2>1. Least(row.error, 600) \in Nat
      BY <1>1, <1>2
    <2> QED BY <2>1, <1>1, <1>3 DEF NoText
  <1>6. e = [source |-> Text(7, 1), subject |-> Text(subject, row.w), headline |-> Text(headline, row.w),
             body |-> Text(body, row.w), detail |-> detail,
             links |-> 0, link |-> [text |-> NoText, url |-> NoText],
             acts |-> row.failed, action |-> NoText]
    BY DEF FromDevclawRow
  <1> HIDE DEF subject, headline, body, detail
  <1>7. e \in Notices
    BY <1>1, <1>3, <1>4, <1>5, <1>6 DEF Notices, NoText
  <1>8. Rendered(e.source) = 7
    BY <1>3, <1>6 DEF Rendered
  <1>9. /\ Rendered(e.subject) \in Nat /\ Rendered(e.subject) <= 125
        /\ Rendered(e.headline) \in Nat /\ Rendered(e.headline) <= 320
    <2> HIDE DEF e
    <2>3. /\ e.subject = Text(subject, row.w) /\ e.headline = Text(headline, row.w)
      BY <1>6
    <2>4. subject \in Nat /\ headline \in Nat /\ subject <= 25 /\ headline <= 64
      BY <1>4
    <2>1. e.subject \in Texts /\ e.headline \in Texts /\ e.subject.n <= 25 /\ e.headline.n <= 64
      BY <1>1, <1>3, <2>3, <2>4
    <2>2. Rendered(e.subject) <= 5 * 25 /\ Rendered(e.headline) <= 5 * 64
      BY <2>1, RenderedBound
    <2> QED BY <2>1, <2>2, RenderedTyped
  <1>10. LinksLength(e) = 0 /\ ActionLength(e) = 0
    <2>1. e.links = 0 /\ e.action.n = 0
      BY <1>6, <1>3 DEF NoText
    <2> HIDE DEF e
    <2> QED BY <2>1 DEF LinksLength, ActionLength
  <1> HIDE DEF e
  <1>11. Uncut(e) \in Nat /\ Uncut(e) <= MaxMsgChars
    BY <1>8, <1>9, <1>10 DEF Uncut, MaxMsgChars
  <1> QED BY <1>7, <1>11 DEF e

LEMMA EveryNoteFits ==
    ASSUME NEW n \in Lengths PROVE ~(n > TelegramCap)
  <1>1. PICK p \in Notes : Accepted(p) /\ n = Length(EnvelopeOf(p))
    BY DEF Lengths
  <1>2. /\ EnvelopeOf(p) \in Notices
        /\ Uncut(EnvelopeOf(p)) \in Nat /\ Uncut(EnvelopeOf(p)) <= MaxMsgChars
    <2>1. CASE p.route = "/notify" /\ p.envelope \in Notices
      BY <2>1, <1>1, LimitsFit DEF Accepted, EnvelopeOf, MaxMsgChars
    <2>2. CASE p.route = "/text" /\ p.first \in Texts /\ p.rest \in Texts
      BY <2>2, TextFits DEF EnvelopeOf
    <2>3. CASE p.route = "/devclaw" /\ p.row \in Rows
      BY <2>3, RowFits DEF EnvelopeOf
    <2> QED BY <2>1, <2>2, <2>3, NotesAssumption
  <1>3. Length(EnvelopeOf(p)) \in Int /\ Length(EnvelopeOf(p)) <= MaxMsgChars
    BY <1>2, CutToFit
  <1> QED BY <1>1, <1>3 DEF TelegramCap, MaxMsgChars

\* No message the relay sends is over Telegram's limit, whatever is posted.
THEOREM NothingIsOverlong == Spec => []EveryMessageFits
  <1>1. Init => EveryMessageFits
    BY DEF Init, EveryMessageFits
  <1>2. EveryMessageFits /\ [Next]_vars => EveryMessageFits'
    <2> SUFFICES ASSUME ~overlong, [Next]_vars PROVE ~overlong'
      BY DEF EveryMessageFits
    <2>1. ASSUME NEW h \in Handlers, Notice(h) PROVE ~overlong'
      <3>1. PICK n \in Lengths : overlong' = (overlong \/ n > TelegramCap)
        BY <2>1 DEF Notice
      <3> QED BY <3>1, EveryNoteFits
    <2>2. CASE UNCHANGED overlong
      BY <2>2
    <2>3. CASE \E h \in Handlers, d \in Decisions : Post(h, d) \/ Clear(h, d)
      BY <2>3 DEF Post, Clear, Calling, Crossing
    <2>4. CASE \E d \in Decisions : ClearUnknown(d)
      BY <2>4 DEF ClearUnknown
    <2>5. ASSUME NEW h \in Handlers, Handles(h) PROVE ~overlong'
      BY <2>5 DEF Handles, Edits, Sends, Deletes, Answer, EditStands, EditRefused, SentStands,
                  Cleared, Fails, NoticeEnds, Done, Calling
    <2>6. CASE Restart \/ \E m \in Messages : OwnerDeletes(m)
      BY <2>6 DEF Restart, OwnerDeletes
    <2> QED BY <2>1, <2>2, <2>3, <2>4, <2>5, <2>6 DEF Next, vars
  <1> QED BY <1>1, <1>2, PTL DEF Spec
=============================================================================
