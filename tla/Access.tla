-------------------------------- MODULE Access --------------------------------
(* scripts/people with scripts/identity/logto-admin.py: who may reach what.    *)
(* A person's rights are roles of their Logto user; the tailnet policy's       *)
(* groups are a projection of the roles. The people service and a command line *)
(* change both over two HTTP APIs, each call a step of its own, and append     *)
(* every Logto write to one ledger file that undo reads back. The owner edits  *)
(* the same things by hand in the two admin consoles.                          *)
(* One person; the others of the catalog are part of what hand edits change.   *)
EXTENDS Integers, Sequences, FiniteSets

CONSTANTS
    Rights,
    Tools,          \* processes that run one command at a time
    Service,        \* those of them that are serve.py: its lock makes it one at a time
    MaxCommands,
    MaxEvents,      \* commands and troubles: failed calls, deaths, edits by hand
    MaxBusy         \* those of them that come while a command runs are among the first

ASSUME AccessAssumption ==
    /\ Service \subseteq Tools
    /\ MaxCommands \in Nat /\ MaxEvents \in Nat /\ MaxBusy \in Nat

VARIABLES
    uid, live,      \* the Logto user, 0 if there is none; it is not suspended
    roles,          \* the rights whose role the user holds
    rid,            \* right -> id of its role in Logto, 0 if there is none
    issued,         \* ids handed out
    platform,       \* the user holds a platform role, which no command changes
    policy,         \* groups: the rights whose group has the person; hand: the owner's
                    \* edits; open: a grant lets a group reach a never_ports port
    ledger,         \* its lines
    at, op, arg,    \* tool -> where its command is; which; the rights it is for
    todo,           \* tool -> the rights left to write
    saw,            \* tool -> the user as it was looked up
    held,           \* tool -> the roles as they were listed (revoke), or called for (sync)
    pick,           \* tool -> the ledger line that undo reverses
    base, retried,  \* tool -> the policy text that was read; a 412 was retried
    note,           \* tool -> the ledger entry a finished API call still needs
    changed, erred, \* tool -> revoke has written something; its tailnet half failed
    alone,          \* history: tool -> nothing else has run or was edited since it began
    by,             \* history: who suspended the user
    amiss,          \* history: what has happened that a property excuses
    commands, troubles

logto   == <<uid, live, roles, rid, issued>>
command == <<at, op, arg, todo, saw, held, pick, base, retried, changed, erred>>
bounds  == <<commands, troubles>>
vars    == <<logto, platform, policy, ledger, command, note, alone, by, amiss, bounds>>

NoUser == [id |-> 0, live |-> TRUE]
Empty  == [groups |-> {}, hand |-> 0, open |-> FALSE]
Nothing == [act |-> "none", user |-> 0, role |-> 0, of |-> 0, from |-> 0]

Init ==
    /\ uid \in {0, 1} /\ live = TRUE /\ roles = {} /\ rid = [r \in Rights |-> 0] /\ issued = 1
    /\ platform \in BOOLEAN /\ (platform => uid = 1)
    /\ policy = Empty /\ ledger = <<>>
    /\ at = [t \in Tools |-> "idle"] /\ op = [t \in Tools |-> "none"]
    /\ arg = [t \in Tools |-> {}] /\ todo = [t \in Tools |-> {}]
    /\ saw = [t \in Tools |-> NoUser] /\ held = [t \in Tools |-> {}]
    /\ pick = [t \in Tools |-> 0]
    /\ base = [t \in Tools |-> Empty] /\ retried = [t \in Tools |-> FALSE]
    /\ note = [t \in Tools |-> Nothing]
    /\ changed = [t \in Tools |-> FALSE] /\ erred = [t \in Tools |-> FALSE]
    /\ alone = [t \in Tools |-> FALSE]
    /\ by = "nobody" /\ amiss = {}
    /\ commands = 0 /\ troubles = 0

Running(kind) == {t \in Tools : at[t] # "idle" /\ op[t] = kind}
Busy          == {t \in Tools : at[t] # "idle"}

\* A command that looks at the user is running, or an entry is still to be written.
Midway == \E t \in Tools : (at[t] # "idle" /\ op[t] # "undo") \/ note[t] # Nothing

Room    == commands + troubles < IF Busy = {} THEN MaxEvents ELSE MaxBusy
Trouble == Room /\ troubles' = troubles + 1

\* The command of t has come to step; the entry of its last API call is written.
Ready(t, step) == at[t] = step /\ note[t] = Nothing
Goes(t, step)  == at' = [at EXCEPT ![t] = step]

-----------------------------------------------------------------------------
(* The ledger.                                                                *)

\* An API call has been answered: its entry is to be appended. append counts the
\* lines some time after this and before it writes, so from is the least n can be.
Owes(t, act, user, role, of) ==
    note' = [note EXCEPT ![t] = [act |-> act, user |-> user, role |-> role, of |-> of,
                                 from |-> Len(ledger) + 1]]

Pending(t) == note[t] # Nothing

\* Another tool is between an API call and its entry: the two entries may get one
\* number, and be written in the other order than the calls were made.
Racing(t) == IF \E u \in Tools \ {t} : Pending(u) THEN {"raced"} ELSE {}

\* A revoke has suspended the user and its closing entry is not written.
Closing(t) == at[t] = "close" \/ note[t].act \in {"suspend-user", "people-revoke"}

\* Another entry comes to stand between a suspension and its closing entry.
Parting(t) ==
    IF ledger # <<>> /\ ledger[Len(ledger)].act = "suspend-user" /\ note[t].act # "people-revoke"
    THEN {"parted"} ELSE {}

Appends(t) ==
    /\ Pending(t)
    /\ \E n \in note[t].from .. Len(ledger) + 1 :
          ledger' = Append(ledger, [n |-> n, act |-> note[t].act, user |-> note[t].user,
                                    role |-> note[t].role, of |-> note[t].of])
    /\ note' = [note EXCEPT ![t] = Nothing]
    /\ amiss' = amiss \cup Racing(t) \cup Parting(t)
    /\ UNCHANGED <<logto, platform, policy, command, alone, by, bounds>>

Undoable == {"create-user", "create-role", "assign-role", "remove-role",
             "suspend-user", "unsuspend-user"}

AnySuspension(user) == \* mutant: an unsuspend-user after the suspension is not looked for
    \E i \in DOMAIN ledger :
        /\ ledger[i].user = user /\ ledger[i].act = "suspend-user"
        /\ i + 1 \in DOMAIN ledger /\ ledger[i + 1].act = "people-revoke"

LastSuspension(user) == \* mutant: it has to be the last thing that the ledger has
    /\ Len(ledger) > 1
    /\ ledger[Len(ledger) - 1].act = "suspend-user" /\ ledger[Len(ledger) - 1].user = user
    /\ ledger[Len(ledger)].act = "people-revoke"

\* suspended_by_revoke: the latest suspend-user entry, with no unsuspend-user after
\* it, is followed by a people-revoke.
SuspendedByRevoke(user) ==
    LET flips == {i \in DOMAIN ledger :
                    ledger[i].user = user /\ ledger[i].act \in {"suspend-user", "unsuspend-user"}}
    IN  \E i \in flips :
            /\ \A j \in flips : j <= i
            /\ ledger[i].act = "suspend-user"
            /\ i + 1 \in DOMAIN ledger /\ ledger[i + 1].act = "people-revoke"

-----------------------------------------------------------------------------
(* A command begins and ends.                                                 *)

\* Which commands, run at once, can leave a person in a group without its role,
\* or with a role and not in its group.
Beside(kind, a, b) == (kind = a /\ Running(b) # {}) \/ (kind = b /\ Running(a) # {})
Clash(kind) ==
    (IF Beside(kind, "sync", "invite") THEN {"lag"} ELSE {})
    \cup
    (IF \/ kind = "undo" \/ Running("undo") # {}
        \/ Beside(kind, "revoke", "invite") \/ Beside(kind, "revoke", "sync")
     THEN {"drift", "lag"} ELSE {})

First(kind) ==
    CASE kind = "invite" -> "check" [] kind = "revoke" -> "read" [] kind = "resend" -> "resend"
      [] kind = "sync" -> "users" [] kind = "undo" -> "pick"

Begins(t, kind, rights) ==
    /\ Ready(t, "idle") /\ commands < MaxCommands /\ Room
    /\ IF t \in Service THEN kind \in {"invite", "resend"} ELSE kind # "resend"
    /\ Goes(t, First(kind))
    /\ op' = [op EXCEPT ![t] = kind]
    /\ arg' = [arg EXCEPT ![t] = rights] /\ todo' = [todo EXCEPT ![t] = rights]
    /\ alone' = [u \in Tools |-> u = t /\ Busy = {}]
    /\ amiss' = amiss \cup Clash(kind)
    /\ commands' = commands + 1
    /\ UNCHANGED <<logto, platform, policy, ledger, saw, held, pick, base, retried, note,
                   changed, erred, by, troubles>>

\* serve.run appends its people-request entry in a finally; the CLI just exits.
Over(t) ==
    /\ Goes(t, "idle")
    /\ op' = [op EXCEPT ![t] = "none"] /\ arg' = [arg EXCEPT ![t] = {}]
    /\ todo' = [todo EXCEPT ![t] = {}] /\ saw' = [saw EXCEPT ![t] = NoUser]
    /\ held' = [held EXCEPT ![t] = {}] /\ pick' = [pick EXCEPT ![t] = 0]
    /\ base' = [base EXCEPT ![t] = Empty]
    /\ retried' = [retried EXCEPT ![t] = FALSE]
    /\ changed' = [changed EXCEPT ![t] = FALSE] /\ erred' = [erred EXCEPT ![t] = FALSE]

Records(t) ==
    /\ Over(t)
    /\ IF t \in Service THEN Owes(t, "people-request", 0, 0, 0)
                        ELSE note' = [note EXCEPT ![t] = Nothing]

\* A sync that nothing ran beside has made the groups what the roles call for.
Ends(t) ==
    /\ Records(t)
    /\ amiss' = IF op[t] = "sync" /\ alone[t] THEN amiss \ {"drift", "lag"} ELSE amiss
    /\ UNCHANGED <<alone, by>>

Lost(t) ==
    {"lag"} \cup (IF note[t].act \in Undoable \cup {"undo"} THEN {"unlogged"} ELSE {})
            \cup (IF Closing(t) THEN {"parted"} ELSE {})

\* An AdminError or TailnetError: the command stops where it is.
GivesUp(t) ==
    /\ Records(t)
    /\ amiss' = amiss \cup Lost(t)
    /\ UNCHANGED <<alone, by>>

-----------------------------------------------------------------------------
(* The tailnet policy: update_policy reads it with its ETag, edits the managed *)
(* block, and posts the whole text If-Match; the ETag names the text.          *)

\* check_policy refuses a policy whose grants open a never_ports port.
Refuses(t, text) == op[t] # "revoke" /\ text.open

\* tailnet_add, tailnet_remove and sync's mutate.
Mutated(t, text) ==
    CASE op[t] = "invite" -> [text EXCEPT !.groups = @ \cup arg[t]]
      [] op[t] = "revoke" -> [text EXCEPT !.groups = @ \ arg[t]]
      [] op[t] = "sync"   -> [text EXCEPT !.groups = held[t]]

\* What follows the tailnet half: revoke goes on to Logto, the others are done.
TailnetDone(t) ==
    IF op[t] = "revoke"
    THEN /\ Goes(t, "lookup") /\ base' = [base EXCEPT ![t] = Empty]
         /\ UNCHANGED <<op, arg, todo, saw, held, pick, retried, changed, erred, note, alone, by, amiss>>
    ELSE Ends(t)

TailnetFails(t) ==
    IF op[t] = "revoke"
    THEN /\ Goes(t, "lookup") /\ base' = [base EXCEPT ![t] = Empty]
         /\ erred' = [erred EXCEPT ![t] = TRUE] /\ amiss' = amiss \cup {"drift"}
         /\ UNCHANGED <<op, arg, todo, saw, held, pick, retried, changed, note, alone, by>>
    ELSE GivesUp(t)

Reads(t) ==
    /\ Ready(t, "read") /\ ~Refuses(t, policy) /\ Mutated(t, policy) # policy
    /\ base' = [base EXCEPT ![t] = policy]
    /\ Goes(t, "write")
    /\ UNCHANGED <<logto, platform, policy, ledger, op, arg, todo, saw, held, pick, retried,
                   changed, erred, note, alone, by, amiss, bounds>>

NothingToWrite(t) ==
    /\ Ready(t, "read") /\ ~Refuses(t, policy) /\ Mutated(t, policy) = policy
    /\ TailnetDone(t)
    /\ UNCHANGED <<logto, platform, policy, ledger, bounds>>

Refused(t) ==
    /\ Ready(t, "read") /\ Refuses(t, policy)
    /\ TailnetFails(t)
    /\ UNCHANGED <<logto, platform, policy, ledger, bounds>>

WritesBlind(t) == \* mutant: a POST without If-Match
    /\ Ready(t, "write")
    /\ policy' = Mutated(t, base[t])
    /\ IF op[t] = "revoke"
       THEN /\ Goes(t, "lookup") /\ base' = [base EXCEPT ![t] = Empty]
            /\ changed' = [changed EXCEPT ![t] = TRUE]
            /\ UNCHANGED <<op, arg, todo, saw, held, pick, retried, erred, note, alone, by, amiss>>
       ELSE Ends(t)
    /\ UNCHANGED <<logto, platform, ledger, bounds>>

WritesPolicy(t) ==
    /\ Ready(t, "write") /\ policy = base[t]
    /\ policy' = Mutated(t, base[t])
    /\ IF op[t] = "revoke"
       THEN /\ Goes(t, "lookup") /\ base' = [base EXCEPT ![t] = Empty]
            /\ changed' = [changed EXCEPT ![t] = TRUE]
            /\ UNCHANGED <<op, arg, todo, saw, held, pick, retried, erred, note, alone, by, amiss>>
       ELSE Ends(t)
    /\ UNCHANGED <<logto, platform, ledger, bounds>>

\* 412: read again and retry, once.
Conflicts(t) ==
    /\ Ready(t, "write") /\ policy # base[t]
    /\ IF retried[t]
       THEN TailnetFails(t)
       ELSE /\ retried' = [retried EXCEPT ![t] = TRUE]
            /\ Goes(t, "read") /\ base' = [base EXCEPT ![t] = Empty]
            /\ UNCHANGED <<op, arg, todo, saw, held, pick, changed, erred, note, alone, by, amiss>>
    /\ UNCHANGED <<logto, platform, policy, ledger, bounds>>

\* A call of the tailnet half fails; the answer to a POST that took effect is lost.
TailnetCallFails(t) ==
    /\ note[t] = Nothing /\ at[t] \in {"read", "write"} /\ Trouble
    /\ TailnetFails(t)
    /\ \/ UNCHANGED policy
       \/ at[t] = "write" /\ policy = base[t] /\ policy' = Mutated(t, base[t])
    /\ UNCHANGED <<logto, platform, ledger, commands>>

Tailnet(t) ==
    \/ Reads(t) \/ NothingToWrite(t) \/ Refused(t) \/ WritesPolicy(t) \/ Conflicts(t)
    \/ TailnetCallFails(t)

-----------------------------------------------------------------------------
(* invite: refuse a bad policy, then the user, the roles, and the groups.     *)

Quiet == UNCHANGED <<alone, by, amiss>>

Checks(t) ==
    /\ Ready(t, "check")
    /\ IF policy.open
       THEN GivesUp(t)
       ELSE /\ Goes(t, "lookup") /\ Quiet
            /\ UNCHANGED <<op, arg, todo, saw, held, pick, base, retried, changed, erred, note>>
    /\ UNCHANGED <<logto, platform, policy, ledger, bounds>>

\* ensure_user and lookup_user list the users.
LooksUp(t) ==
    /\ Ready(t, "lookup")
    /\ saw' = [saw EXCEPT ![t] = [id |-> uid, live |-> live]]
    /\ Goes(t, CASE op[t] = "revoke" /\ uid = 0 -> "close"
                 [] op[t] = "revoke" /\ uid # 0 -> "list"
                 [] op[t] = "invite" /\ uid = 0 -> "create"
                 [] op[t] = "invite" /\ uid # 0 /\ ~live -> "vet"
                 [] op[t] = "invite" /\ uid # 0 /\ live -> "role")
    /\ Quiet
    /\ UNCHANGED <<logto, platform, policy, ledger, op, arg, todo, held, pick, base, retried,
                   changed, erred, note, bounds>>

CreatesUser(t) ==
    /\ Ready(t, "create") /\ uid = 0
    /\ uid' = issued + 1 /\ issued' = issued + 1 /\ live' = TRUE /\ roles' = {}
    /\ saw' = [saw EXCEPT ![t] = [id |-> issued + 1, live |-> TRUE]]
    /\ Owes(t, "create-user", issued + 1, 0, 0)
    /\ Goes(t, "role") /\ Quiet
    /\ UNCHANGED <<rid, platform, policy, ledger, op, arg, todo, held, pick, base, retried,
                   changed, erred, bounds>>

\* A resend mails the invitation again: it reads, and writes nothing but the service's
\* people-request entry; the command line's does not even write that, and is left out.
Resends(t) ==
    /\ Ready(t, "resend")
    /\ Records(t) /\ Quiet
    /\ UNCHANGED <<logto, platform, policy, ledger, bounds>>

\* A suspended user is enabled again only if revoke suspended them.
Vets(t) ==
    /\ Ready(t, "vet")
    /\ IF SuspendedByRevoke(saw[t].id)
       THEN /\ Goes(t, "unsuspend") /\ Quiet
            /\ UNCHANGED <<op, arg, todo, saw, held, pick, base, retried, changed, erred, note>>
       ELSE GivesUp(t)
    /\ UNCHANGED <<logto, platform, policy, ledger, bounds>>

\* Roles the user kept while suspended count again, and this invite's groups are
\* not theirs: the next sync has to let them in.
Unsuspends(t) ==
    /\ Ready(t, "unsuspend") /\ uid = saw[t].id
    /\ live' = TRUE /\ by' = "nobody"
    /\ amiss' = IF roles = {} THEN amiss ELSE amiss \cup {"lag"}
    /\ Owes(t, "unsuspend-user", uid, 0, 0)
    /\ Goes(t, "role")
    /\ UNCHANGED <<uid, roles, rid, issued, platform, policy, ledger, op, arg, todo, saw, held,
                   pick, base, retried, changed, erred, alone, bounds>>

\* ensure_role: the right's role is found or created.
CreatesRole(t, r) ==
    /\ Ready(t, "role") /\ r \in todo[t] /\ rid[r] = 0
    /\ rid' = [rid EXCEPT ![r] = issued + 1] /\ issued' = issued + 1
    /\ Owes(t, "create-role", 0, issued + 1, 0)
    /\ Quiet
    /\ UNCHANGED <<uid, live, roles, platform, policy, ledger, command, bounds>>

\* grant_role: the user gets the role unless they have it.
Grants(t, r) ==
    /\ Ready(t, "role") /\ r \in todo[t] /\ rid[r] # 0 /\ uid = saw[t].id
    /\ roles' = roles \cup {r}
    /\ IF r \in roles THEN UNCHANGED note ELSE Owes(t, "assign-role", uid, rid[r], 0)
    /\ todo' = [todo EXCEPT ![t] = @ \ {r}]
    /\ Quiet
    /\ UNCHANGED <<uid, live, rid, issued, platform, policy, ledger, at, op, arg, saw, held,
                   pick, base, retried, changed, erred, bounds>>

RolesDone(t) ==
    /\ Ready(t, "role") /\ todo[t] = {}
    /\ Goes(t, "read") /\ Quiet
    /\ UNCHANGED <<logto, platform, policy, ledger, op, arg, todo, saw, held, pick, base,
                   retried, changed, erred, note, bounds>>

\* The user was created, or deleted, by somebody else since the lookup.
UserMoved(t) ==
    /\ \/ Ready(t, "create") /\ uid # 0
       \/ Ready(t, "unsuspend") /\ uid # saw[t].id
       \/ Ready(t, "role") /\ uid # saw[t].id /\ todo[t] # {}
       \/ Ready(t, "list") /\ uid # saw[t].id
       \/ Ready(t, "remove") /\ \E r \in todo[t] : r \notin roles \/ uid # saw[t].id
       \/ Ready(t, "suspend") /\ uid # saw[t].id
       \/ Ready(t, "roles") /\ saw[t].id # 0 /\ saw[t].live /\ uid # saw[t].id
    /\ GivesUp(t)
    /\ UNCHANGED <<logto, platform, policy, ledger, bounds>>

-----------------------------------------------------------------------------
(* revoke, after the tailnet half.                                            *)

ListsRoles(t) ==
    /\ Ready(t, "list") /\ uid = saw[t].id
    /\ held' = [held EXCEPT ![t] = roles]
    /\ todo' = [todo EXCEPT ![t] = arg[t] \cap roles]
    /\ Goes(t, "remove") /\ Quiet
    /\ UNCHANGED <<logto, platform, policy, ledger, op, arg, saw, pick, base, retried, changed,
                   erred, note, bounds>>

RemovesRole(t, r) ==
    /\ Ready(t, "remove") /\ r \in todo[t] /\ r \in roles /\ uid = saw[t].id
    /\ roles' = roles \ {r}
    /\ Owes(t, "remove-role", uid, rid[r], 0)
    /\ todo' = [todo EXCEPT ![t] = @ \ {r}] /\ changed' = [changed EXCEPT ![t] = TRUE]
    /\ Quiet
    /\ UNCHANGED <<uid, live, rid, issued, platform, policy, ledger, at, op, arg, saw, held,
                   pick, base, retried, erred, bounds>>

\* Suspended when no product role remains, as listed, and no platform role.
NoneLeft(t) == held[t] \subseteq arg[t] /\ ~platform

RolesRemoved(t) ==
    /\ Ready(t, "remove") /\ todo[t] = {}
    /\ Goes(t, IF NoneLeft(t) /\ saw[t].live THEN "suspend" ELSE "close")
    /\ Quiet
    /\ UNCHANGED <<logto, platform, policy, ledger, op, arg, todo, saw, held, pick, base,
                   retried, changed, erred, note, bounds>>

Suspends(t) ==
    /\ Ready(t, "suspend") /\ uid = saw[t].id
    /\ live' = FALSE /\ by' = "revoke"
    /\ Owes(t, "suspend-user", uid, 0, 0)
    /\ Goes(t, "close") /\ changed' = [changed EXCEPT ![t] = TRUE]
    /\ UNCHANGED <<uid, roles, rid, issued, platform, policy, ledger, op, arg, todo, saw, held,
                   pick, base, retried, erred, alone, amiss, bounds>>

\* The closing entry, if anything was changed.
Closes(t) ==
    /\ Ready(t, "close")
    /\ Over(t)
    /\ IF changed[t] THEN Owes(t, "people-revoke", 0, 0, 0) ELSE UNCHANGED note
    /\ Quiet
    /\ UNCHANGED <<logto, platform, policy, ledger, bounds>>

-----------------------------------------------------------------------------
(* sync: desired_groups lists the users, then the roles of each.              *)

ListsUsers(t) ==
    /\ Ready(t, "users")
    /\ saw' = [saw EXCEPT ![t] = [id |-> uid, live |-> live]]
    /\ Goes(t, "roles") /\ Quiet
    /\ UNCHANGED <<logto, platform, policy, ledger, op, arg, todo, held, pick, base, retried,
                   changed, erred, note, bounds>>

WantsSuspended(t) == \* mutant: a suspended user's roles count
    /\ Ready(t, "roles") /\ (saw[t].id # 0 => uid = saw[t].id)
    /\ held' = [held EXCEPT ![t] = IF saw[t].id # 0 THEN roles ELSE {}]
    /\ Goes(t, "read") /\ Quiet
    /\ UNCHANGED <<logto, platform, policy, ledger, op, arg, todo, saw, pick, base, retried,
                   changed, erred, note, bounds>>

Wants(t) ==
    /\ Ready(t, "roles") /\ (saw[t].id # 0 /\ saw[t].live => uid = saw[t].id)
    /\ held' = [held EXCEPT ![t] = IF saw[t].id # 0 /\ saw[t].live THEN roles ELSE {}]
    /\ Goes(t, "read") /\ Quiet
    /\ UNCHANGED <<logto, platform, policy, ledger, op, arg, todo, saw, pick, base, retried,
                   changed, erred, note, bounds>>

-----------------------------------------------------------------------------
(* logto-admin.py undo: the newest entry not undone, or the one that is named. *)

Undone == {ledger[i].of : i \in {j \in DOMAIN ledger : ledger[j].act = "undo"}}

Picks(t) ==
    /\ Ready(t, "pick")
    /\ LET open == {i \in DOMAIN ledger :
                      ledger[i].act \in Undoable /\ ledger[i].n \notin Undone}
       IN  IF open = {}
           THEN GivesUp(t)
           ELSE /\ \E i \in open :
                      /\ \/ \A j \in open : j <= i
                         \/ \A j \in DOMAIN ledger : ledger[j].n = ledger[i].n => i <= j
                      /\ pick' = [pick EXCEPT ![t] = i]
                /\ Goes(t, "call") /\ Quiet
                /\ UNCHANGED <<op, arg, todo, saw, held, base, retried, changed, erred, note>>
    /\ UNCHANGED <<logto, platform, policy, ledger, bounds>>

RolesTaken(e, r) == \* mutant: the inverse of removing a role removes it
    roles \ {r}

\* The roles after the inverse of an entry about role r.
RolesUndone(e, r) ==
    IF e.act = "remove-role" THEN roles \cup {r} ELSE roles \ {r}

\* The inverse request; one for something that is gone is answered 404, which
\* undo takes for done.
Inverts(e) ==
    \/ /\ e.act = "create-user" /\ e.user = uid
       /\ uid' = 0 /\ live' = TRUE /\ roles' = {} /\ by' = "nobody"
       /\ UNCHANGED <<rid, issued, amiss>>
    \/ /\ e.act = "create-role" /\ \E r \in Rights : rid[r] = e.role
       /\ \E r \in Rights :
             /\ rid[r] = e.role
             /\ rid' = [rid EXCEPT ![r] = 0] /\ roles' = roles \ {r}
       /\ UNCHANGED <<uid, live, issued, by, amiss>>
    \/ /\ e.act \in {"assign-role", "remove-role"} /\ e.user = uid
       /\ \E r \in Rights : rid[r] = e.role /\ roles' = RolesUndone(e, r)
       /\ UNCHANGED <<uid, live, rid, issued, by, amiss>>
    \/ /\ e.act = "suspend-user" /\ e.user = uid
       /\ live' = TRUE /\ by' = "nobody"
       /\ amiss' = IF by = "revoke" THEN amiss \cup {"hidden"} ELSE amiss
       /\ UNCHANGED <<uid, roles, rid, issued>>
    \/ /\ e.act = "unsuspend-user" /\ e.user = uid
       /\ live' = FALSE /\ by' = IF live THEN "undo" ELSE by
       /\ amiss' = IF live /\ Midway THEN amiss \cup {"hidden"} ELSE amiss
       /\ UNCHANGED <<uid, roles, rid, issued>>
    \/ /\ e.act \notin {"create-role"} /\ e.user # uid
       /\ UNCHANGED <<logto, by, amiss>>
    \/ /\ e.role # 0 /\ \A r \in Rights : rid[r] # e.role
       /\ UNCHANGED <<logto, by, amiss>>

Undoes(t) ==
    /\ Ready(t, "call")
    /\ Inverts(ledger[pick[t]])
    /\ Over(t)
    /\ Owes(t, "undo", 0, 0, ledger[pick[t]].n)
    /\ UNCHANGED <<platform, policy, ledger, alone, bounds>>

-----------------------------------------------------------------------------
(* Failures, and the owner in the two consoles.                               *)

\* A Logto call fails, or its answer is lost: then its entry is never written.
Fails(t) ==
    /\ at[t] # "idle" /\ (Pending(t) \/ at[t] \notin {"read", "write"}) /\ Trouble
    /\ GivesUp(t)
    /\ UNCHANGED <<logto, platform, policy, ledger, commands>>

Dies(t) ==
    /\ at[t] # "idle" \/ Pending(t)
    /\ Trouble
    /\ Over(t) /\ note' = [note EXCEPT ![t] = Nothing]
    /\ amiss' = amiss \cup Lost(t)
    /\ UNCHANGED <<logto, platform, policy, ledger, alone, by, commands>>

Edits ==
    /\ Trouble
    /\ alone' = [t \in Tools |-> FALSE]
    /\ UNCHANGED <<uid, rid, issued, platform, ledger, command, note, commands>>

FlipsSuspension ==
    /\ Edits
    /\ uid # 0 /\ live' = ~live
    /\ by' = IF live THEN "console" ELSE "nobody"
    /\ amiss' = amiss \cup {"drift", "lag", "byhand"} \cup
         (IF by = "revoke" \/ Midway THEN {"hidden"} ELSE {})
    /\ UNCHANGED <<roles, policy>>

FlipsRole(r) ==
    /\ Edits
    /\ uid # 0 /\ rid[r] # 0
    /\ roles' = IF r \in roles THEN roles \ {r} ELSE roles \cup {r}
    /\ amiss' = amiss \cup {"drift", "lag", "byhand"}
    /\ UNCHANGED <<live, policy, by>>

EditsPolicy(groups, open) ==
    /\ Edits
    /\ policy' = [groups |-> groups, hand |-> policy.hand + 1, open |-> open]
    /\ amiss' = IF groups = policy.groups THEN amiss ELSE amiss \cup {"drift", "lag"}
    /\ UNCHANGED <<live, roles, by>>

Owner ==
    \/ FlipsSuspension
    \/ \E r \in Rights : FlipsRole(r)
    \/ \E groups \in SUBSET Rights, open \in BOOLEAN : EditsPolicy(groups, open)

-----------------------------------------------------------------------------

Commands(t) ==
    \/ \E kind \in {"invite", "revoke"}, rights \in SUBSET Rights \ {{}} : Begins(t, kind, rights)
    \/ \E kind \in {"resend", "sync", "undo"} : Begins(t, kind, {})

Logto(t) ==
    \/ Checks(t) \/ Resends(t) \/ LooksUp(t) \/ CreatesUser(t) \/ Vets(t) \/ Unsuspends(t) \/ RolesDone(t)
    \/ UserMoved(t) \/ ListsRoles(t) \/ RolesRemoved(t) \/ Suspends(t) \/ Closes(t)
    \/ ListsUsers(t) \/ Wants(t) \/ Picks(t) \/ Undoes(t)
    \/ \E r \in Rights : CreatesRole(t, r) \/ Grants(t, r) \/ RemovesRole(t, r)

Next ==
    \/ \E t \in Tools : Commands(t) \/ Appends(t) \/ Tailnet(t) \/ Logto(t) \/ Fails(t) \/ Dies(t)
    \/ Owner

Spec == Init /\ [][Next]_vars

-----------------------------------------------------------------------------

\* The steps a command of each kind goes through.
Fits(kind, step) ==
    \/ kind = "none" /\ step = "idle"
    \/ kind = "invite" /\ step \in {"check", "lookup", "create", "vet", "unsuspend", "role", "read", "write"}
    \/ kind = "revoke" /\ step \in {"read", "write", "lookup", "list", "remove", "suspend", "close"}
    \/ kind = "resend" /\ step = "resend"
    \/ kind = "sync" /\ step \in {"users", "roles", "read", "write"}
    \/ kind = "undo" /\ step \in {"pick", "call"}

Kinds == {"none", "invite", "revoke", "resend", "sync", "undo"}
Steps == {"idle", "check", "lookup", "create", "vet", "unsuspend", "role", "read", "write",
          "list", "remove", "suspend", "close", "resend", "users", "roles", "pick", "call"}
Policies == [groups : SUBSET Rights, hand : Nat, open : BOOLEAN]

\* The account, the policy and the commands stay well formed (people.py, tailnet.py).
TypeOK ==
    /\ uid \in Nat /\ issued \in Nat /\ live \in BOOLEAN /\ roles \subseteq Rights
    /\ policy \in Policies
    /\ at \in [Tools -> Steps] /\ op \in [Tools -> Kinds]
    /\ \A t \in Tools : Fits(op[t], at[t])
    /\ arg \in [Tools -> SUBSET Rights] /\ todo \in [Tools -> SUBSET Rights]
    /\ held \in [Tools -> SUBSET Rights]
    /\ saw \in [Tools -> [id : Nat, live : BOOLEAN]]
    /\ base \in [Tools -> Policies]
    /\ alone \in [Tools -> BOOLEAN]

\* Who may be in a group at this moment: Logto is the source of truth.
Active == IF uid # 0 /\ live THEN roles ELSE {}

\* The tailnet lets nobody in beyond the roles of an active user at any moment: a
\* command takes the network away first and gives it last. And once the commands
\* are over it lets in everybody it should. Excused until the next undisturbed sync:
\* edits by hand, undo, a revoke beside an invite or a sync, a revoke whose tailnet
\* half failed, and, for the second half, commands cut short and an invite that
\* enables a suspended user who has kept a role (people.py).
NobodyBeyond == "drift" \notin amiss => policy.groups \subseteq Active
EverybodyIn  == Busy = {} /\ {"drift", "lag"} \cap amiss = {} => Active \subseteq policy.groups
AccessAgrees == NobodyBeyond /\ EverybodyIn

\* A tool's write of the policy keeps every edit of the owner's, and puts nobody
\* in a group while a grant opens a never_ports port (update_policy, check_policy).
PolicyWritten ==
    \/ policy'.hand > policy.hand
    \/ /\ policy'.hand = policy.hand /\ policy'.open = policy.open
       /\ policy.open => policy'.groups \subseteq policy.groups
PolicyKept == [][PolicyWritten]_policy

\* An invite never ends a suspension that revoke did not make; unless the ledger
\* cannot show whose it is: one that revoke made was lifted by hand or by undo, the
\* owner or an undo suspended the user under a running command, two entries were
\* written at once, or an unsuspension's entry was lost (suspended_by_revoke).
SuspensionStands ==
    [][\A t \in Tools :
         at[t] = "unsuspend" /\ ~live /\ live' /\ note'[t].act = "unsuspend-user"
         => by = "revoke" \/ {"hidden", "raced", "unlogged"} \cap amiss # {}]_vars

\* Whom revoke has suspended can be invited back: an invite that has looked this
\* user up refuses only while the revoke still runs, or when its closing entry does
\* not follow the suspension: another tool's entry came between, two were written
\* at once, or it was cut short.
InvitedBack ==
    [][\A t \in Tools :
         /\ at[t] = "vet" /\ note[t] = Nothing /\ at'[t] = "idle" /\ troubles' = troubles
         /\ by = "revoke" /\ saw[t].id = uid
         => {"parted", "raced", "unlogged"} \cap amiss # {} \/ \E u \in Tools : Closing(u)]_vars

\* What an entry says of the user's roles and of their suspension; an undo says
\* the contrary of the entry it names.
About(e)  == IF e.act = "undo" THEN ledger[CHOOSE i \in DOMAIN ledger : ledger[i].n = e.of] ELSE e
Says(e, act, contrary) ==
    IF e.act = "undo" THEN About(e).act = contrary ELSE e.act = act

LastSays(lines, act, contrary) ==
    \E i \in lines : (\A j \in lines : j <= i) /\ Says(ledger[i], act, contrary)

RoleLines(r) ==
    {i \in DOMAIN ledger : LET e == About(ledger[i]) IN
        e.act \in {"assign-role", "remove-role"} /\ e.user = uid /\ e.role = rid[r]}
SuspensionLines ==
    {i \in DOMAIN ledger : LET e == About(ledger[i]) IN
        e.act \in {"suspend-user", "unsuspend-user"} /\ e.user = uid}

\* "Every change appends one JSON line to the ledger": read in order, with undo,
\* it tells who holds what and who is suspended; but for a tool that died or lost
\* an answer before its entry, edits by hand, and two tools that wrote at once.
LedgerTells ==
    {"unlogged", "byhand", "raced"} \cap amiss = {} /\ uid # 0
    /\ (\A t \in Tools : note[t].act \notin Undoable \cup {"undo"}) =>
        /\ \A r \in Rights : rid[r] # 0 => (r \in roles <=> LastSays(RoleLines(r), "assign-role", "remove-role"))
        /\ ~live <=> LastSays(SuspensionLines, "suspend-user", "unsuspend-user")
=============================================================================
