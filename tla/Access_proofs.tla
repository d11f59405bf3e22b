---------------------------- MODULE Access_proofs ----------------------------
(* Six results about who may reach what, for any rights, tools, commands and  *)
(* failures. No write of the tailnet policy loses an edit of the owner's or   *)
(* lets anybody into a group beside an open grant. The groups never let in    *)
(* more than the roles of an active user, but for what the property excuses;  *)
(* and once no command runs they let in all of them. An invite lifts no       *)
(* suspension but revoke's, and does lift that. The ledger tells who holds    *)
(* what.                                                                      *)
(* The second needs to know of every command in progress what it has made     *)
(* sure of (IInv): an invite that has come to the policy has granted its      *)
(* roles, a revoke past it has nobody left in its groups, a sync's want is    *)
(* still covered by the roles; and that commands which would break this of    *)
(* each other have been noted as drift when the later of them began. The      *)
(* third needs to know who is still owed (EInv): a role without its group is  *)
(* one that a running invite will give or a running revoke will take. The     *)
(* last three read the ledger together with the entries that are owed (LInv,  *)
(* SInv, TInv).                                                               *)
EXTENDS Access, TLAPS

-----------------------------------------------------------------------------
(* The inductive invariant                                                    *)

Clean == "drift" \notin amiss

\* Before its roles are done, an invite has all of them to do; after, all are the
\* user's, who is active.
Inviting(t) ==
    op[t] = "invite" =>
        /\ at[t] \in {"check", "lookup", "create", "vet", "unsuspend"} => todo[t] = arg[t]
        /\ at[t] \in {"vet", "unsuspend"} => saw[t].id # 0
        /\ at[t] \in {"read", "write"} => todo[t] = {}
        /\ Clean /\ at[t] \in {"role", "read", "write"} =>
              uid # 0 /\ live /\ arg[t] \ todo[t] \subseteq roles

\* A revoke takes the network away first; the roles it has listed are all there are.
Revoking(t) ==
    op[t] = "revoke" =>
        /\ todo[t] \subseteq arg[t]
        /\ at[t] = "suspend" => held[t] \subseteq arg[t]
        /\ Clean /\ at[t] \in {"lookup", "list", "remove", "suspend", "close"} =>
              policy.groups \cap arg[t] = {}
        /\ Clean /\ at[t] \in {"remove", "suspend"} => roles \subseteq held[t]

\* A sync's want stays within the roles, even of a drifted state if nothing else runs.
Syncing(t) ==
    op[t] = "sync" /\ (Clean \/ alone[t]) =>
        /\ at[t] = "roles" /\ saw[t].id # 0 /\ saw[t].live => uid = saw[t].id /\ live
        /\ at[t] \in {"read", "write"} => held[t] \subseteq Active

\* What is about to be written has been read without an open grant.
Checked(t) == at[t] = "write" /\ op[t] # "revoke" => ~base[t].open

ToolSound(t) == Inviting(t) /\ Revoking(t) /\ Syncing(t) /\ Checked(t)

\* Commands that can undo each other's work do not run at once, or are noted.
Apart ==
    Clean =>
        /\ \A t \in Tools : op[t] # "undo"
        /\ \A t, u \in Tools : op[t] = "revoke" => op[u] \notin {"invite", "sync"}

AloneIsAlone ==
    \A t, u \in Tools : alone[t] /\ op[t] # "none" /\ u # t => op[u] = "none"

IInv ==
    /\ TypeOK
    /\ \A t \in Tools : ToolSound(t)
    /\ Apart
    /\ AloneIsAlone
    /\ NobodyBeyond

-----------------------------------------------------------------------------
(* Type correctness                                                           *)

\* What each shared step of a command leaves of its state.
LEMMA OverTyped ==
    ASSUME TypeOK, NEW t \in Tools, Over(t)
    PROVE  /\ at' \in [Tools -> Steps] /\ op' \in [Tools -> Kinds]
           /\ \A u \in Tools : Fits(op[u], at[u])'
           /\ arg' \in [Tools -> SUBSET Rights] /\ todo' \in [Tools -> SUBSET Rights]
           /\ held' \in [Tools -> SUBSET Rights]
           /\ saw' \in [Tools -> [id : Nat, live : BOOLEAN]]
           /\ base' \in [Tools -> Policies]
  <1>1. NoUser \in [id : Nat, live : BOOLEAN] /\ Empty \in Policies
    BY DEF NoUser, Empty, Policies
  <1>2. /\ at' \in [Tools -> Steps] /\ op' \in [Tools -> Kinds]
        /\ at'[t] = "idle" /\ op'[t] = "none"
        /\ \A u \in Tools \ {t} : at'[u] = at[u] /\ op'[u] = op[u]
    <2>1. at \in [Tools -> Steps] /\ op \in [Tools -> Kinds]
      BY DEF TypeOK
    <2>2. at' = [at EXCEPT ![t] = "idle"] /\ op' = [op EXCEPT ![t] = "none"]
      BY DEF Over, Goes
    <2> QED
      BY <2>1, <2>2 DEF Steps, Kinds
  <1>3. \A u \in Tools : Fits(op[u], at[u])'
    BY <1>2 DEF TypeOK, Fits
  <1> QED
    BY <1>1, <1>2, <1>3 DEF TypeOK, Over

LEMMA GoesTyped ==
    ASSUME TypeOK, NEW t \in Tools, NEW step \in Steps, Goes(t, step), op' = op, Fits(op[t], step)
    PROVE  /\ at' \in [Tools -> Steps] /\ op' \in [Tools -> Kinds]
           /\ \A u \in Tools : Fits(op[u], at[u])'
           /\ at'[t] = step /\ \A u \in Tools \ {t} : at'[u] = at[u]
  BY DEF TypeOK, Goes, Fits

LEMMA MutatedTyped ==
    ASSUME TypeOK, NEW t \in Tools, op[t] \in {"invite", "revoke", "sync"}, NEW p \in Policies
    PROVE  /\ Mutated(t, p) \in Policies
           /\ Mutated(t, p).hand = p.hand /\ Mutated(t, p).open = p.open
           /\ op[t] = "invite" => Mutated(t, p).groups = p.groups \cup arg[t]
           /\ op[t] = "revoke" => Mutated(t, p).groups = p.groups \ arg[t]
           /\ op[t] = "sync"   => Mutated(t, p).groups = held[t]
  <1>1. arg[t] \subseteq Rights /\ held[t] \subseteq Rights /\ p.groups \subseteq Rights
    BY DEF TypeOK, Policies
  <1>2. CASE op[t] = "invite"
    <2>1. Mutated(t, p) = [p EXCEPT !.groups = @ \cup arg[t]]
      BY <1>2 DEF Mutated
    <2> QED
      BY <1>1, <1>2, <2>1 DEF Policies
  <1>3. CASE op[t] = "revoke"
    <2>1. Mutated(t, p) = [p EXCEPT !.groups = @ \ arg[t]]
      BY <1>3 DEF Mutated
    <2> QED
      BY <1>1, <1>3, <2>1 DEF Policies
  <1>4. CASE op[t] = "sync"
    <2>1. Mutated(t, p) = [p EXCEPT !.groups = held[t]]
      BY <1>4 DEF Mutated
    <2> QED
      BY <1>1, <1>4, <2>1 DEF Policies
  <1> QED
    BY <1>2, <1>3, <1>4

LEMMA TypeInit == Init => TypeOK
  <1> SUFFICES ASSUME Init
               PROVE  TypeOK
    OBVIOUS
  <1>1. NoUser \in [id : Nat, live : BOOLEAN] /\ Empty \in Policies
    BY DEF NoUser, Empty, Policies
  <1>2. uid \in Nat /\ issued \in Nat /\ roles \subseteq Rights
    BY DEF Init
  <1>3. \A t \in Tools : Fits(op[t], at[t])
    BY DEF Init, Fits
  <1>4. /\ at \in [Tools -> Steps] /\ op \in [Tools -> Kinds]
        /\ arg \in [Tools -> SUBSET Rights] /\ todo \in [Tools -> SUBSET Rights]
        /\ held \in [Tools -> SUBSET Rights]
    BY DEF Init, Steps, Kinds
  <1>5. live \in BOOLEAN /\ alone \in [Tools -> BOOLEAN]
    BY DEF Init
  <1>6. /\ policy \in Policies
        /\ saw \in [Tools -> [id : Nat, live : BOOLEAN]]
        /\ base \in [Tools -> Policies]
    BY <1>1 DEF Init
  <1> QED
    BY <1>2, <1>3, <1>4, <1>5, <1>6 DEF TypeOK

Account == uid \in Nat /\ issued \in Nat /\ live \in BOOLEAN /\ roles \subseteq Rights

Command ==
    /\ at \in [Tools -> Steps] /\ op \in [Tools -> Kinds]
    /\ \A u \in Tools : Fits(op[u], at[u])
    /\ arg \in [Tools -> SUBSET Rights] /\ todo \in [Tools -> SUBSET Rights]
    /\ held \in [Tools -> SUBSET Rights]
    /\ saw \in [Tools -> [id : Nat, live : BOOLEAN]]
    /\ base \in [Tools -> Policies]

LEMMA TypeParts ==
    TypeOK <=> Account /\ policy \in Policies /\ Command /\ alone \in [Tools -> BOOLEAN]
  BY DEF TypeOK, Account, Command

LEMMA TypePartsNext ==
    TypeOK' <=> Account' /\ policy' \in Policies /\ Command' /\ alone' \in [Tools -> BOOLEAN]
  BY DEF TypeOK, Account, Command

\* The ways in which a command ends.
LEMMA Ending ==
    ASSUME TypeOK, NEW t \in Tools, Over(t) \/ Ends(t) \/ GivesUp(t) \/ Closes(t) \/ Records(t)
    PROVE  Command'
  <1>1. Over(t)
    BY DEF Ends, GivesUp, Closes, Records
  <1> QED
    BY <1>1, OverTyped DEF Command

\* The ways in which the tailnet half of a command ends.
LEMMA HalfEnding ==
    ASSUME TypeOK, NEW t \in Tools, TailnetDone(t) \/ TailnetFails(t), at[t] \in {"read", "write"}
    PROVE  Command' /\ alone' = alone
  <1>1. CASE op[t] = "revoke"
    <2>1. /\ Goes(t, "lookup") /\ UNCHANGED <<op, arg, todo, saw, held, alone>>
          /\ base' = [base EXCEPT ![t] = Empty]
      BY <1>1 DEF TailnetDone, TailnetFails
    <2>2. base' \in [Tools -> Policies]
      BY <2>1 DEF TypeOK, Empty, Policies
    <2>3. Fits(op[t], "lookup")
      BY <1>1 DEF Fits
    <2>4. /\ at' \in [Tools -> Steps] /\ op' \in [Tools -> Kinds]
          /\ \A u \in Tools : Fits(op[u], at[u])'
      BY <2>1, <2>3, GoesTyped DEF Steps
    <2> QED
      BY <2>1, <2>2, <2>4 DEF TypeOK, Command
  <1>2. CASE op[t] # "revoke"
    <2>1. (Ends(t) \/ GivesUp(t)) /\ alone' = alone
      BY <1>2 DEF TailnetDone, TailnetFails, Ends, GivesUp
    <2> QED
      BY <2>1, Ending
  <1> QED
    BY <1>1, <1>2

\* A command goes on to a step of its kind, with what it has learnt.
LEMMA GoingOn ==
    ASSUME TypeOK, NEW t \in Tools, NEW step \in Steps, Goes(t, step), Fits(op[t], step),
           UNCHANGED <<op, arg>>,
           todo' \in [Tools -> SUBSET Rights], held' \in [Tools -> SUBSET Rights],
           saw' \in [Tools -> [id : Nat, live : BOOLEAN]], base' \in [Tools -> Policies]
    PROVE  Command'
  <1>1. /\ at' \in [Tools -> Steps] /\ op' \in [Tools -> Kinds]
        /\ \A u \in Tools : Fits(op[u], at[u])'
    BY GoesTyped
  <1>2. arg' \in [Tools -> SUBSET Rights]
    BY DEF TypeOK
  <1> QED
    BY <1>1, <1>2 DEF Command

\* What the step a command has come to says of its kind.
LEMMA KindOf ==
    ASSUME TypeOK, NEW t \in Tools
    PROVE  /\ at[t] \in {"check", "create", "vet", "unsuspend", "role"} => op[t] = "invite"
           /\ at[t] \in {"list", "remove", "suspend", "close"} => op[t] = "revoke"
           /\ at[t] \in {"users", "roles"} => op[t] = "sync"
           /\ at[t] \in {"pick", "call"} => op[t] = "undo"
           /\ at[t] = "resend" => op[t] = "resend"
           /\ at[t] = "lookup" => op[t] \in {"invite", "revoke"}
           /\ at[t] \in {"read", "write"} => op[t] \in {"invite", "revoke", "sync"}
           /\ at[t] = "idle" <=> op[t] = "none"
  BY DEF TypeOK, Fits

LEMMA BeginsTyped ==
    ASSUME TypeOK, NEW t \in Tools, NEW kind \in Kinds \ {"none"}, NEW rights \in SUBSET Rights,
           Begins(t, kind, rights)
    PROVE  /\ TypeOK'
           /\ op'[t] = kind /\ at'[t] = First(kind) /\ arg'[t] = rights /\ todo'[t] = rights
           /\ \A u \in Tools \ {t} :
                 op'[u] = op[u] /\ at'[u] = at[u] /\ arg'[u] = arg[u] /\ todo'[u] = todo[u]
  <1>1. First(kind) \in Steps /\ Fits(kind, First(kind))
    BY DEF First, Steps, Fits, Kinds
  <1>2. /\ at \in [Tools -> Steps] /\ op \in [Tools -> Kinds]
        /\ arg \in [Tools -> SUBSET Rights] /\ todo \in [Tools -> SUBSET Rights]
    BY DEF TypeOK
  <1>3. /\ at' = [at EXCEPT ![t] = First(kind)] /\ op' = [op EXCEPT ![t] = kind]
        /\ arg' = [arg EXCEPT ![t] = rights] /\ todo' = [todo EXCEPT ![t] = rights]
        /\ alone' = [u \in Tools |-> u = t /\ Busy = {}]
        /\ UNCHANGED <<logto, policy, saw, held, base>>
    BY DEF Begins, Goes, logto
  <1> HIDE DEF First
  <1>4. /\ op'[t] = kind /\ at'[t] = First(kind) /\ arg'[t] = rights /\ todo'[t] = rights
        /\ \A u \in Tools \ {t} :
              op'[u] = op[u] /\ at'[u] = at[u] /\ arg'[u] = arg[u] /\ todo'[u] = todo[u]
    BY <1>2, <1>3
  <1>5. \A u \in Tools : Fits(op[u], at[u])'
    BY <1>1, <1>4 DEF TypeOK, Fits
  <1>6. /\ at' \in [Tools -> Steps] /\ op' \in [Tools -> Kinds]
        /\ arg' \in [Tools -> SUBSET Rights] /\ todo' \in [Tools -> SUBSET Rights]
    BY <1>1, <1>2, <1>3
  <1>7. Account' /\ policy' \in Policies
    BY <1>3 DEF TypeOK, Account, logto
  <1>8. alone' \in [Tools -> BOOLEAN]
    BY <1>3
  <1>9. Command'
    BY <1>3, <1>5, <1>6 DEF TypeOK, Command
  <1> QED
    BY <1>4, <1>7, <1>8, <1>9, TypePartsNext

LEMMA TailnetTyped ==
    ASSUME TypeOK, NEW t \in Tools, Tailnet(t)
    PROVE  TypeOK'
  <1>0. at[t] \in {"read", "write"} /\ op[t] \in {"invite", "revoke", "sync"}
    BY KindOf DEF Tailnet, Reads, NothingToWrite, Refused, WritesPolicy, Conflicts,
                  TailnetCallFails, Ready
  <1>1. Mutated(t, policy) \in Policies /\ Mutated(t, base[t]) \in Policies
    BY <1>0, MutatedTyped DEF TypeOK
  <1>2. policy' \in Policies
    BY <1>1 DEF TypeOK, Tailnet, Reads, NothingToWrite, Refused, WritesPolicy, Conflicts,
                TailnetCallFails
  <1>3. Account'
    BY DEF TypeOK, Account, Tailnet, Reads, NothingToWrite, Refused, WritesPolicy, Conflicts,
           TailnetCallFails, logto
  <1>4. Command' /\ alone' = alone
    <2>1. CASE Reads(t)
      <3>1. base' \in [Tools -> Policies]
        BY <2>1 DEF TypeOK, Reads
      <3>2. Fits(op[t], "write") /\ "write" \in Steps
        BY <1>0 DEF Fits, Steps
      <3>3. /\ Goes(t, "write") /\ UNCHANGED <<op, arg, todo, held, saw, alone>>
        BY <2>1 DEF Reads
      <3>4. /\ todo' \in [Tools -> SUBSET Rights] /\ held' \in [Tools -> SUBSET Rights]
            /\ saw' \in [Tools -> [id : Nat, live : BOOLEAN]]
        BY <3>3 DEF TypeOK
      <3> QED
        BY <3>1, <3>2, <3>3, <3>4, GoingOn
    <2>2. CASE NothingToWrite(t) \/ Refused(t) \/ TailnetCallFails(t)
      BY <1>0, <2>2, HalfEnding DEF NothingToWrite, Refused, TailnetCallFails
    <2>3. CASE WritesPolicy(t) \/ Conflicts(t)
      <3>1. CASE op[t] = "revoke" /\ WritesPolicy(t)
        <4>1. /\ Goes(t, "lookup") /\ UNCHANGED <<op, arg, todo, held, saw, alone>>
              /\ base' = [base EXCEPT ![t] = Empty]
          BY <3>1 DEF WritesPolicy
        <4>2. /\ todo' \in [Tools -> SUBSET Rights] /\ held' \in [Tools -> SUBSET Rights]
              /\ saw' \in [Tools -> [id : Nat, live : BOOLEAN]]
              /\ base' \in [Tools -> Policies]
          BY <4>1 DEF TypeOK, Empty, Policies
        <4>3. Fits(op[t], "lookup") /\ "lookup" \in Steps
          BY <3>1 DEF Fits, Steps
        <4> QED
          BY <4>1, <4>2, <4>3, GoingOn
      <3>2. CASE op[t] # "revoke" /\ WritesPolicy(t)
        BY <3>2, Ending DEF WritesPolicy, Ends
      <3>3. CASE Conflicts(t) /\ retried[t]
        BY <1>0, <3>3, HalfEnding DEF Conflicts
      <3>4. CASE Conflicts(t) /\ ~retried[t]
        <4>1. /\ Goes(t, "read") /\ UNCHANGED <<op, arg, todo, held, saw, alone>>
              /\ base' = [base EXCEPT ![t] = Empty]
          BY <3>4 DEF Conflicts
        <4>2. /\ todo' \in [Tools -> SUBSET Rights] /\ held' \in [Tools -> SUBSET Rights]
              /\ saw' \in [Tools -> [id : Nat, live : BOOLEAN]]
              /\ base' \in [Tools -> Policies]
          BY <4>1 DEF TypeOK, Empty, Policies
        <4>3. Fits(op[t], "read") /\ "read" \in Steps
          BY <1>0 DEF Fits, Steps
        <4> QED
          BY <4>1, <4>2, <4>3, GoingOn
      <3> QED
        BY <2>3, <3>1, <3>2, <3>3, <3>4
    <2> QED
      BY <2>1, <2>2, <2>3 DEF Tailnet
  <1> QED
    BY <1>2, <1>3, <1>4, TypePartsNext DEF TypeOK

LEMMA LogtoTyped ==
    ASSUME TypeOK, NEW t \in Tools, Logto(t)
    PROVE  TypeOK'
  <1> DEFINE Learnt == /\ todo' \in [Tools -> SUBSET Rights] /\ held' \in [Tools -> SUBSET Rights]
                       /\ saw' \in [Tools -> [id : Nat, live : BOOLEAN]]
                       /\ base' \in [Tools -> Policies]
  <1>0. /\ uid \in Nat /\ issued \in Nat /\ live \in BOOLEAN /\ roles \subseteq Rights
        /\ policy \in Policies
        /\ arg \in [Tools -> SUBSET Rights] /\ todo \in [Tools -> SUBSET Rights]
        /\ held \in [Tools -> SUBSET Rights]
        /\ saw \in [Tools -> [id : Nat, live : BOOLEAN]]
        /\ base \in [Tools -> Policies] /\ alone \in [Tools -> BOOLEAN]
    BY DEF TypeOK
  <1>s. ASSUME NEW u \in Nat, NEW l \in BOOLEAN
        PROVE  [saw EXCEPT ![t] = [id |-> u, live |-> l]] \in [Tools -> [id : Nat, live : BOOLEAN]]
    BY <1>0
  <1>q. ASSUME Account', UNCHANGED <<policy, alone>>, Command'
        PROVE  TypeOK'
    BY <1>0, <1>q, TypePartsNext
  <1>a. ASSUME UNCHANGED logto
        PROVE  Account'
    BY <1>0, <1>a DEF Account, logto
  <1>g. ASSUME NEW step \in Steps, Goes(t, step), Fits(op[t], step), UNCHANGED <<op, arg>>, Learnt
        PROVE  Command'
    BY <1>g, GoingOn
  <1>f. /\ op[t] = "invite" =>
              \A step \in {"lookup", "create", "vet", "unsuspend", "role", "read"} : Fits(op[t], step)
        /\ op[t] = "revoke" =>
              \A step \in {"lookup", "list", "remove", "suspend", "close"} : Fits(op[t], step)
        /\ op[t] = "sync" => \A step \in {"roles", "read"} : Fits(op[t], step)
        /\ op[t] = "undo" => Fits(op[t], "call")
        /\ {"lookup", "create", "vet", "unsuspend", "role", "read", "list", "remove", "suspend",
            "close", "roles", "call"} \subseteq Steps
    BY DEF Fits, Steps
  <1> HIDE DEF Learnt
  <1>1. CASE UserMoved(t) \/ Resends(t) \/ Closes(t)
    <2>1. Command'
      BY <1>1, Ending DEF UserMoved, Resends, Closes
    <2>2. Account' /\ UNCHANGED <<policy, alone>>
      BY <1>1, <1>a DEF UserMoved, Resends, Closes, GivesUp, Quiet
    <2> QED
      BY <1>q, <2>1, <2>2
  <1>2. CASE Undoes(t)
    <2>1. Command'
      BY <1>2, Ending DEF Undoes
    <2>2. UNCHANGED <<policy, alone>>
      BY <1>2 DEF Undoes
    <2>3. Inverts(ledger[pick[t]])
      BY <1>2 DEF Undoes
    <2>4. uid' \in Nat /\ issued' \in Nat
      BY <1>0, <2>3 DEF Inverts, logto
    <2>5. live' \in BOOLEAN
      BY <1>0, <2>3 DEF Inverts, logto
    <2>6. roles' \subseteq Rights
      BY <1>0, <2>3 DEF Inverts, RolesUndone, logto
    <2> QED
      BY <1>q, <2>1, <2>2, <2>4, <2>5, <2>6 DEF Account
  <1>3. CASE RolesDone(t)
    <2>1. Learnt
      BY <1>0, <1>s, <1>3 DEF Learnt, RolesDone
    <2>2. Goes(t, "read") /\ UNCHANGED <<op, arg, policy, alone, logto>>
      BY <1>3 DEF RolesDone, Quiet
    <2>3. Fits(op[t], "read") /\ "read" \in Steps
      BY <1>f, <1>3, KindOf DEF RolesDone, Ready
    <2> QED
      BY <1>q, <1>a, <1>g, <2>1, <2>2, <2>3
  <1>5. CASE ListsRoles(t)
    <2>1. Learnt
      BY <1>0, <1>s, <1>5 DEF Learnt, ListsRoles
    <2>2. Goes(t, "remove") /\ UNCHANGED <<op, arg, policy, alone, logto>>
      BY <1>5 DEF ListsRoles, Quiet
    <2>3. Fits(op[t], "remove") /\ "remove" \in Steps
      BY <1>f, <1>5, KindOf DEF ListsRoles, Ready
    <2> QED
      BY <1>q, <1>a, <1>g, <2>1, <2>2, <2>3
  <1>6. CASE ListsUsers(t)
    <2>1. Learnt
      BY <1>0, <1>s, <1>6 DEF Learnt, ListsUsers
    <2>2. Goes(t, "roles") /\ UNCHANGED <<op, arg, policy, alone, logto>>
      BY <1>6 DEF ListsUsers, Quiet
    <2>3. Fits(op[t], "roles") /\ "roles" \in Steps
      BY <1>f, <1>6, KindOf DEF ListsUsers, Ready
    <2> QED
      BY <1>q, <1>a, <1>g, <2>1, <2>2, <2>3
  <1>7. CASE Wants(t)
    <2>1. Learnt
      BY <1>0, <1>s, <1>7 DEF Learnt, Wants
    <2>2. Goes(t, "read") /\ UNCHANGED <<op, arg, policy, alone, logto>>
      BY <1>7 DEF Wants, Quiet
    <2>3. Fits(op[t], "read") /\ "read" \in Steps
      BY <1>f, <1>7, KindOf DEF Wants, Ready
    <2> QED
      BY <1>q, <1>a, <1>g, <2>1, <2>2, <2>3
  <1>8. CASE RolesRemoved(t)
    <2>1. Learnt
      BY <1>0, <1>8 DEF Learnt, RolesRemoved
    <2>2. /\ Goes(t, "suspend") \/ Goes(t, "close")
          /\ UNCHANGED <<op, arg, policy, alone, logto>>
      BY <1>8 DEF RolesRemoved, Quiet
    <2>3. \A step \in {"suspend", "close"} : Fits(op[t], step) /\ step \in Steps
      BY <1>f, <1>8, KindOf DEF RolesRemoved, Ready
    <2> QED
      BY <1>q, <1>a, <1>g, <2>1, <2>2, <2>3
  <1>9. CASE LooksUp(t)
    <2>1. Learnt
      BY <1>0, <1>s, <1>9 DEF Learnt, LooksUp
    <2>2. op[t] \in {"invite", "revoke"}
      BY <1>9, KindOf DEF LooksUp, Ready
    <2>3. \E step \in {"close", "list", "create", "vet", "role"} : Goes(t, step) /\ Fits(op[t], step)
      <3>1. CASE op[t] = "revoke"
        <4>1. Goes(t, "close") \/ Goes(t, "list")
          BY <1>9, <3>1 DEF LooksUp
        <4> QED
          BY <1>f, <3>1, <4>1
      <3>2. CASE op[t] = "invite"
        <4>1. Goes(t, "create") \/ Goes(t, "vet") \/ Goes(t, "role")
          BY <1>9, <3>2 DEF LooksUp
        <4> QED
          BY <1>f, <3>2, <4>1
      <3> QED
        BY <2>2, <3>1, <3>2
    <2>4. UNCHANGED <<op, arg, policy, alone, logto>>
      BY <1>9 DEF LooksUp, Quiet
    <2> QED
      BY <1>f, <1>q, <1>a, <1>g, <2>1, <2>3, <2>4
  <1>10. CASE Checks(t) \/ Vets(t)
    <2>1. UNCHANGED <<policy, alone, logto>>
      BY <1>10 DEF Checks, Vets, GivesUp, Quiet
    <2>2. op[t] = "invite"
      BY <1>10, KindOf DEF Checks, Vets, Ready
    <2>3. \/ GivesUp(t)
          \/ /\ Goes(t, "lookup") \/ Goes(t, "unsuspend")
             /\ UNCHANGED <<op, arg, todo, saw, held, base>>
      BY <1>10 DEF Checks, Vets
    <2>4. CASE GivesUp(t)
      BY <1>q, <1>a, <2>1, <2>4, Ending
    <2>5. CASE ~GivesUp(t)
      <3>1. Learnt
        BY <1>0, <2>3, <2>5 DEF Learnt
      <3> QED
        BY <1>f, <1>q, <1>a, <1>g, <2>1, <2>2, <2>3, <2>5, <3>1
    <2> QED
      BY <2>4, <2>5
  <1>11. CASE Picks(t)
    <2>1. UNCHANGED <<policy, alone, logto>>
      BY <1>11 DEF Picks, GivesUp, Quiet
    <2>2. op[t] = "undo"
      BY <1>11, KindOf DEF Picks, Ready
    <2>3. \/ GivesUp(t)
          \/ Goes(t, "call") /\ UNCHANGED <<op, arg, todo, saw, held, base>>
      BY <1>11 DEF Picks
    <2>4. CASE GivesUp(t)
      BY <1>q, <1>a, <2>1, <2>4, Ending
    <2>5. CASE ~GivesUp(t)
      <3>1. Learnt
        BY <1>0, <2>3, <2>5 DEF Learnt
      <3> QED
        BY <1>f, <1>q, <1>a, <1>g, <2>1, <2>2, <2>3, <2>5, <3>1
    <2> QED
      BY <2>4, <2>5
  <1>12. CASE CreatesUser(t)
    <2>1. Account'
      BY <1>0, <1>12 DEF CreatesUser, Account
    <2>2. Learnt
      BY <1>0, <1>s, <1>12 DEF Learnt, CreatesUser
    <2>3. Goes(t, "role") /\ UNCHANGED <<op, arg, policy, alone>>
      BY <1>12 DEF CreatesUser, Quiet
    <2>4. op[t] = "invite"
      BY <1>12, KindOf DEF CreatesUser, Ready
    <2> QED
      BY <1>f, <1>q, <1>g, <2>1, <2>2, <2>3, <2>4
  <1>13. CASE Unsuspends(t)
    <2>1. Account'
      BY <1>0, <1>13 DEF Unsuspends, Account
    <2>2. Learnt
      BY <1>0, <1>13 DEF Learnt, Unsuspends
    <2>3. Goes(t, "role") /\ UNCHANGED <<op, arg, policy, alone>>
      BY <1>13 DEF Unsuspends
    <2>4. op[t] = "invite"
      BY <1>13, KindOf DEF Unsuspends, Ready
    <2> QED
      BY <1>f, <1>q, <1>g, <2>1, <2>2, <2>3, <2>4
  <1>14. CASE Suspends(t)
    <2>1. Account'
      BY <1>0, <1>14 DEF Suspends, Account
    <2>2. Learnt
      BY <1>0, <1>14 DEF Learnt, Suspends
    <2>3. Goes(t, "close") /\ UNCHANGED <<op, arg, policy, alone>>
      BY <1>14 DEF Suspends
    <2>4. op[t] = "revoke"
      BY <1>14, KindOf DEF Suspends, Ready
    <2> QED
      BY <1>f, <1>q, <1>g, <2>1, <2>2, <2>3, <2>4
  <1>15. ASSUME NEW r \in Rights, CreatesRole(t, r) \/ Grants(t, r) \/ RemovesRole(t, r)
         PROVE  TypeOK'
    <2>1. Account'
      BY <1>0, <1>15 DEF CreatesRole, Grants, RemovesRole, Account
    <2>2. /\ UNCHANGED <<at, op, arg, held, saw, base, policy, alone>>
          /\ todo' \in [Tools -> SUBSET Rights]
      BY <1>0, <1>15 DEF CreatesRole, Grants, RemovesRole, Quiet, command
    <2>3. Command'
      BY <2>2 DEF TypeOK, Command
    <2> QED
      BY <1>q, <2>1, <2>2, <2>3
  <1> QED
    BY <1>1, <1>2, <1>3, <1>5, <1>6, <1>7, <1>8, <1>9, <1>10, <1>11, <1>12, <1>13, <1>14, <1>15
    DEF Logto

LEMMA TypeStep ==
    ASSUME TypeOK, [Next]_vars
    PROVE  TypeOK'
  <1>1. ASSUME NEW t \in Tools, Commands(t)
        PROVE  TypeOK'
    <2>1. PICK kind \in Kinds \ {"none"}, rights \in SUBSET Rights : Begins(t, kind, rights)
      BY <1>1 DEF Commands, Kinds
    <2> QED
      BY <2>1, BeginsTyped
  <1>2. ASSUME NEW t \in Tools, Tailnet(t) \/ Logto(t)
        PROVE  TypeOK'
    BY <1>2, TailnetTyped, LogtoTyped
  <1>3. ASSUME NEW t \in Tools, Appends(t)
        PROVE  TypeOK'
    BY <1>3 DEF Appends, TypeOK, logto, command
  <1>4. ASSUME NEW t \in Tools, Fails(t) \/ Dies(t)
        PROVE  TypeOK'
    <2>1. Command' /\ alone' = alone
      BY <1>4, Ending DEF Fails, Dies, GivesUp
    <2>2. UNCHANGED <<logto, policy>>
      BY <1>4 DEF Fails, Dies
    <2> QED
      BY <2>1, <2>2, TypePartsNext DEF TypeOK, Account, logto
  <1>5. CASE Owner
    <2>1. /\ UNCHANGED <<uid, issued, command>>
          /\ alone' \in [Tools -> BOOLEAN]
      BY <1>5 DEF Owner, FlipsSuspension, FlipsRole, EditsPolicy, Edits
    <2>2. live' \in BOOLEAN
      BY <1>5 DEF TypeOK, Owner, FlipsSuspension, FlipsRole, EditsPolicy
    <2>3. roles' \subseteq Rights
      BY <1>5 DEF TypeOK, Owner, FlipsSuspension, FlipsRole, EditsPolicy
    <2>4. policy' \in Policies
      <3>1. CASE policy' = policy
        BY <3>1 DEF TypeOK
      <3>2. ASSUME NEW groups \in SUBSET Rights, NEW open \in BOOLEAN, EditsPolicy(groups, open)
            PROVE  policy' \in Policies
        BY <3>2 DEF TypeOK, Policies, EditsPolicy
      <3> QED
        BY <1>5, <3>1, <3>2 DEF Owner, FlipsSuspension, FlipsRole
    <2> QED
      BY <2>1, <2>2, <2>3, <2>4 DEF TypeOK, command
  <1>6. CASE UNCHANGED vars
    BY <1>6 DEF vars, logto, command, TypeOK
  <1> QED
    BY <1>1, <1>2, <1>3, <1>4, <1>5, <1>6 DEF Next

-----------------------------------------------------------------------------
(* Kinds of steps that keep the invariant                                     *)

\* What a tool keeps of its command.
Same(u) ==
    /\ op'[u] = op[u] /\ at'[u] = at[u] /\ arg'[u] = arg[u] /\ todo'[u] = todo[u]
    /\ held'[u] = held[u] /\ saw'[u] = saw[u] /\ base'[u] = base[u]

Idles(u) == op'[u] = "none" /\ at'[u] = "idle"

LEMMA OverLeaves ==
    ASSUME TypeOK, NEW t \in Tools, Over(t)
    PROVE  Idles(t) /\ \A u \in Tools \ {t} : Same(u)
  BY DEF TypeOK, Over, Goes, Idles, Same

LEMMA GoesLeaves ==
    ASSUME TypeOK, NEW t \in Tools, NEW step \in Steps, Goes(t, step), UNCHANGED <<op, arg>>
    PROVE  /\ at'[t] = step /\ op'[t] = op[t] /\ arg'[t] = arg[t]
           /\ \A u \in Tools \ {t} : at'[u] = at[u] /\ op'[u] = op[u] /\ arg'[u] = arg[u]
  BY DEF TypeOK, Goes

\* A tool without a command has nothing to be sound about.
LEMMA IdleIsSound ==
    ASSUME NEW t \in Tools, Idles(t)
    PROVE  ToolSound(t)'
  BY DEF Idles, ToolSound, Inviting, Revoking, Syncing, Checked

LEMMA SameStaysSound ==
    ASSUME NEW u \in Tools, ToolSound(u), Same(u), UNCHANGED <<uid, live, roles, policy>>,
           Clean' => Clean, alone'[u] => alone[u]
    PROVE  ToolSound(u)'
  <1>1. Active' = Active
    BY DEF Active
  <1>2. Inviting(u)'
    BY DEF ToolSound, Inviting, Same
  <1>3. Revoking(u)'
    BY DEF ToolSound, Revoking, Same
  <1>4. Syncing(u)'
    BY <1>1 DEF ToolSound, Syncing, Same
  <1>5. Checked(u)'
    BY DEF ToolSound, Checked, Same
  <1> QED
    BY <1>2, <1>3, <1>4, <1>5 DEF ToolSound

\* A command goes on or ends, and writes neither Logto nor the policy.
LEMMA LocalStep ==
    ASSUME IInv, TypeOK', NEW t \in Tools, UNCHANGED <<uid, live, roles, policy, alone>>,
           Clean' => Clean,
           \A u \in Tools \ {t} : Same(u),
           op'[t] \in {op[t], "none"},
           ToolSound(t)'
    PROVE  IInv'
  <1>1. \A u \in Tools : ToolSound(u)'
    BY SameStaysSound DEF IInv
  <1>2. \A u \in Tools : op'[u] \in {op[u], "none"}
    BY DEF Same
  <1>3. Apart'
    BY <1>2 DEF IInv, Apart
  <1>4. AloneIsAlone'
    BY <1>2 DEF IInv, AloneIsAlone
  <1>5. NobodyBeyond'
    BY DEF IInv, NobodyBeyond, Active, Clean
  <1> QED
    BY <1>1, <1>3, <1>4, <1>5 DEF IInv

LEMMA EndStep ==
    ASSUME IInv, TypeOK', NEW t \in Tools, UNCHANGED <<uid, live, roles, policy, alone>>,
           Clean' => Clean, Over(t)
    PROVE  IInv'
  <1>1. Idles(t) /\ \A u \in Tools \ {t} : Same(u)
    BY OverLeaves DEF IInv
  <1>2. ToolSound(t)'
    BY <1>1, IdleIsSound
  <1> QED
    BY <1>1, <1>2, LocalStep DEF Idles

\* The state has drifted: only what no excuse covers is left to be kept.
LEMMA DriftStep ==
    ASSUME IInv, TypeOK', ~Clean',
           \A u \in Tools : Same(u) \/ Idles(u),
           \A u \in Tools : alone'[u] => alone[u] /\ op'[u] # "sync"
    PROVE  IInv'
  <1>1. ASSUME NEW u \in Tools
        PROVE  ToolSound(u)'
    <2>1. CASE Idles(u)
      BY <2>1, IdleIsSound
    <2>2. CASE Same(u)
      <3>1. ToolSound(u)
        BY DEF IInv
      <3>2. Inviting(u)'
        BY <2>2, <3>1 DEF ToolSound, Inviting, Same
      <3>3. Revoking(u)'
        BY <2>2, <3>1 DEF ToolSound, Revoking, Same
      <3>4. Syncing(u)'
        BY DEF Syncing
      <3>5. Checked(u)'
        BY <2>2, <3>1 DEF ToolSound, Checked, Same
      <3> QED
        BY <3>2, <3>3, <3>4, <3>5 DEF ToolSound
    <2> QED
      BY <2>1, <2>2
  <1>2. \A u \in Tools : op'[u] \in {op[u], "none"}
    BY DEF Same, Idles
  <1>3. AloneIsAlone'
    BY <1>2 DEF IInv, AloneIsAlone
  <1>4. Apart' /\ NobodyBeyond'
    BY DEF Apart, NobodyBeyond, Clean
  <1> QED
    BY <1>1, <1>3, <1>4 DEF IInv

\* The policy becomes what the command makes of it, or was that already: then the
\* command ends, or a revoke goes on to Logto. An undisturbed sync ends a drift.
LEMMA PolicyStep ==
    ASSUME IInv, TypeOK', NEW t \in Tools, UNCHANGED <<uid, live, roles, alone>>,
           at[t] \in {"read", "write"}, policy' = Mutated(t, policy),
           \A u \in Tools \ {t} : Same(u),
           \/ Idles(t)
           \/ /\ op[t] = "revoke" /\ at'[t] = "lookup"
              /\ op'[t] = op[t] /\ arg'[t] = arg[t] /\ todo'[t] = todo[t] /\ held'[t] = held[t],
           (Clean' => Clean) \/ (op[t] = "sync" /\ alone[t] /\ Idles(t))
    PROVE  IInv'
  <1>0. /\ TypeOK /\ Active' = Active /\ policy \in Policies
        /\ op[t] \in {"invite", "revoke", "sync"}
    BY KindOf DEF IInv, TypeOK, Active
  <1>1. /\ op[t] = "invite" => policy'.groups = policy.groups \cup arg[t]
        /\ op[t] = "revoke" => policy'.groups = policy.groups \ arg[t]
        /\ op[t] = "sync"   => policy'.groups = held[t]
    BY <1>0, MutatedTyped
  <1>2. \A u \in Tools : ToolSound(u)
    BY DEF IInv
  <1>3. NobodyBeyond'
    <2> SUFFICES ASSUME Clean'
                 PROVE  policy'.groups \subseteq Active
      BY <1>0 DEF NobodyBeyond, Clean
    <2>1. CASE op[t] = "sync"
      BY <1>1, <1>2, <2>1 DEF ToolSound, Syncing
    <2>2. CASE op[t] # "sync"
      <3>1. Clean /\ policy.groups \subseteq Active
        BY <2>2 DEF IInv, NobodyBeyond, Clean
      <3>2. op[t] = "invite" => arg[t] \subseteq Active
        BY <1>2, <3>1 DEF ToolSound, Inviting, Active
      <3> QED
        BY <1>0, <1>1, <2>2, <3>1, <3>2
    <2> QED
      BY <2>1, <2>2
  <1>4. ASSUME NEW u \in Tools \ {t}
        PROVE  ToolSound(u)'
    <2>1. CASE op[u] = "none"
      <3>1. Idles(u)
        BY <1>0, <2>1, KindOf DEF Same, Idles
      <3> QED
        BY <3>1, IdleIsSound
    <2>2. CASE op[u] # "none"
      <3>1. Clean' => Clean
        BY <2>2 DEF IInv, AloneIsAlone
      <3>2. Inviting(u)'
        BY <1>2, <3>1 DEF ToolSound, Inviting, Same
      <3>3. Revoking(u)'
        <4>1. op[u] = "revoke" /\ Clean' => policy'.groups \subseteq policy.groups
          BY <1>0, <1>1, <3>1 DEF IInv, Apart
        <4> QED
          BY <1>2, <3>1, <4>1 DEF ToolSound, Revoking, Same
      <3>4. Syncing(u)'
        BY <1>0, <1>2, <3>1 DEF ToolSound, Syncing, Same
      <3>5. Checked(u)'
        BY <1>2 DEF ToolSound, Checked, Same
      <3> QED
        BY <3>2, <3>3, <3>4, <3>5 DEF ToolSound
    <2> QED
      BY <2>1, <2>2
  <1>5. ToolSound(t)'
    <2>1. CASE Idles(t)
      BY <2>1, IdleIsSound
    <2>2. CASE op'[t] = "revoke" /\ at'[t] = "lookup" /\ ~Idles(t)
      <3>1. Revoking(t)'
        BY <1>0, <1>1, <1>2, <2>2 DEF ToolSound, Revoking, Idles
      <3> QED
        BY <2>2, <3>1 DEF ToolSound, Inviting, Syncing, Checked
    <2> QED
      BY <2>1, <2>2
  <1>6. \A u \in Tools : op'[u] \in {op[u], "none"}
    BY DEF Same, Idles
  <1>7. Apart'
    <2>1. CASE Clean' => Clean
      BY <1>6, <2>1 DEF IInv, Apart
    <2>2. CASE alone[t] /\ Idles(t)
      <3>1. \A u \in Tools \ {t} : op[u] = "none"
        BY <1>0, <2>2 DEF IInv, AloneIsAlone
      <3>2. \A u \in Tools : op'[u] = "none"
        BY <1>6, <2>2, <3>1 DEF Idles
      <3> QED
        BY <3>2 DEF Apart
    <2> QED
      BY <2>1, <2>2
  <1>8. AloneIsAlone'
    BY <1>6 DEF IInv, AloneIsAlone
  <1> QED
    BY <1>3, <1>4, <1>5, <1>7, <1>8 DEF IInv

-----------------------------------------------------------------------------
(* Every action keeps the invariant                                           *)

LEMMA IInvInit == Init => IInv
  <1> SUFFICES ASSUME Init
               PROVE  IInv
    OBVIOUS
  <1>1. TypeOK
    BY TypeInit
  <1>2. \A t \in Tools : op[t] = "none" /\ at[t] = "idle" /\ ~alone[t]
    BY DEF Init
  <1>3. \A t \in Tools : ToolSound(t)
    BY <1>2 DEF ToolSound, Inviting, Revoking, Syncing, Checked
  <1>4. Apart /\ AloneIsAlone
    BY <1>2 DEF Apart, AloneIsAlone
  <1>5. NobodyBeyond
    BY DEF Init, NobodyBeyond, Empty
  <1> QED
    BY <1>1, <1>3, <1>4, <1>5 DEF IInv

LEMMA BeginsStep ==
    ASSUME IInv, TypeOK', NEW t \in Tools, NEW kind \in Kinds \ {"none"},
           NEW rights \in SUBSET Rights, Begins(t, kind, rights)
    PROVE  IInv'
  <1>1. /\ op'[t] = kind /\ at'[t] = First(kind) /\ arg'[t] = rights /\ todo'[t] = rights
        /\ \A u \in Tools \ {t} :
              op'[u] = op[u] /\ at'[u] = at[u] /\ arg'[u] = arg[u] /\ todo'[u] = todo[u]
    BY BeginsTyped DEF IInv
  <1>2. /\ alone' = [u \in Tools |-> u = t /\ Busy = {}]
        /\ amiss' = amiss \cup Clash(kind)
        /\ UNCHANGED <<uid, live, roles, policy, saw, held, base>>
        /\ at[t] = "idle" /\ op[t] = "none"
    BY KindOf DEF Begins, Ready, logto, IInv
  <1>3. Clean' => Clean
    BY <1>2 DEF Clean
  <1>4. ASSUME NEW u \in Tools \ {t}
        PROVE  ToolSound(u)'
    <2>1. Same(u) /\ (alone'[u] => alone[u])
      BY <1>1, <1>2 DEF Same
    <2>2. ToolSound(u)
      BY DEF IInv
    <2> QED
      BY <1>2, <1>3, <2>1, <2>2, SameStaysSound
  <1>5. ToolSound(t)'
    <2>1. /\ kind = "invite" => First(kind) = "check"
          /\ kind = "revoke" => First(kind) = "read"
          /\ kind = "sync"   => First(kind) = "users"
          /\ kind \notin {"invite", "revoke", "sync"} => First(kind) \in {"resend", "pick"}
      BY DEF First, Kinds
    <2>2. Inviting(t)' /\ Revoking(t)' /\ Syncing(t)' /\ Checked(t)'
      BY <1>1, <2>1 DEF Inviting, Revoking, Syncing, Checked
    <2> QED
      BY <2>2 DEF ToolSound
  <1>6. Apart'
    <2> SUFFICES ASSUME Clean'
                 PROVE  /\ \A u \in Tools : op'[u] # "undo"
                        /\ \A u, v \in Tools : op'[u] = "revoke" => op'[v] \notin {"invite", "sync"}
      BY DEF Apart
    <2>1. /\ \A u \in Tools : op[u] # "undo"
          /\ \A u, v \in Tools : op[u] = "revoke" => op[v] \notin {"invite", "sync"}
      BY <1>3 DEF IInv, Apart
    <2>2. "drift" \notin Clash(kind)
      BY <1>2 DEF Clean
    <2>3. /\ kind # "undo"
          /\ ~Beside(kind, "revoke", "invite") /\ ~Beside(kind, "revoke", "sync")
      BY <2>2 DEF Clash
    <2>4. \A u \in Tools, k \in {"revoke", "invite", "sync"} : op[u] = k => Running(k) # {}
      <3> SUFFICES ASSUME NEW u \in Tools, NEW k \in {"revoke", "invite", "sync"}, op[u] = k
                   PROVE  Running(k) # {}
        OBVIOUS
      <3>1. at[u] # "idle"
        BY KindOf DEF IInv
      <3>2. u \in Running(k)
        BY <3>1 DEF Running
      <3> QED
        BY <3>2
    <2>5. \A u \in Tools :
             /\ kind = "revoke" => op[u] \notin {"invite", "sync"}
             /\ kind \in {"invite", "sync"} => op[u] # "revoke"
      BY <2>3, <2>4 DEF Beside
    <2> QED
      BY <1>1, <2>1, <2>3, <2>5
  <1>7. AloneIsAlone'
    <2> SUFFICES ASSUME NEW u \in Tools, NEW v \in Tools, alone'[u], op'[u] # "none", v # u
                 PROVE  op'[v] = "none"
      BY DEF AloneIsAlone
    <2>1. u = t /\ Busy = {}
      BY <1>2
    <2>2. at[v] = "idle"
      BY <2>1 DEF Busy
    <2> QED
      BY <1>1, <2>1, <2>2, KindOf DEF IInv
  <1>8. NobodyBeyond'
    BY <1>2, <1>3 DEF IInv, NobodyBeyond, Active, Clean
  <1> QED
    BY <1>4, <1>5, <1>6, <1>7, <1>8 DEF IInv

\* A revoke whose tailnet half failed goes on with a drift; the others give up.
LEMMA TailnetFailsStep ==
    ASSUME IInv, TypeOK', NEW t \in Tools, TailnetFails(t), at[t] \in {"read", "write"},
           UNCHANGED <<uid, live, roles, policy>>
    PROVE  IInv'
  <1>1. CASE op[t] = "revoke"
    <2>1. /\ Goes(t, "lookup") /\ UNCHANGED <<op, arg, todo, saw, held, alone>>
          /\ base' = [base EXCEPT ![t] = Empty] /\ amiss' = amiss \cup {"drift"}
      BY <1>1 DEF TailnetFails
    <2>2. /\ at'[t] = "lookup" /\ op'[t] = op[t] /\ arg'[t] = arg[t]
          /\ \A u \in Tools \ {t} : at'[u] = at[u] /\ op'[u] = op[u] /\ arg'[u] = arg[u]
      BY <2>1, GoesLeaves DEF Steps, IInv
    <2>3. \A u \in Tools \ {t} : Same(u)
      BY <2>1, <2>2 DEF Same, IInv, TypeOK
    <2>4. ~Clean'
      BY <2>1 DEF Clean
    <2>5. ToolSound(t)
      BY DEF IInv
    <2>6. ToolSound(t)'
      BY <1>1, <2>1, <2>2, <2>4, <2>5 DEF ToolSound, Inviting, Revoking, Syncing, Checked
    <2> QED
      BY <2>1, <2>2, <2>3, <2>4, <2>6, LocalStep
  <1>2. CASE op[t] # "revoke"
    <2>1. Over(t) /\ alone' = alone /\ (Clean' => Clean)
      BY <1>2 DEF TailnetFails, GivesUp, Records, Clean
    <2> QED
      BY <2>1, EndStep
  <1> QED
    BY <1>1, <1>2

\* The tailnet half is through; a sync that was alone has ended any drift.
LEMMA HalfDoneStep ==
    ASSUME IInv, TypeOK', NEW t \in Tools, at[t] \in {"read", "write"},
           UNCHANGED <<uid, live, roles, alone>>, policy' = Mutated(t, policy),
           \/ Ends(t) \/ GivesUp(t)
           \/ /\ op[t] = "revoke" /\ Goes(t, "lookup") /\ UNCHANGED <<op, arg, todo, saw, held>>
              /\ base' = [base EXCEPT ![t] = Empty]
              /\ amiss \subseteq amiss'
    PROVE  IInv'
  <1>1. CASE Ends(t) \/ GivesUp(t)
    <2>1. Idles(t) /\ \A u \in Tools \ {t} : Same(u)
      BY <1>1, OverLeaves DEF Ends, GivesUp, Records, IInv
    <2>2. (Clean' => Clean) \/ (op[t] = "sync" /\ alone[t])
      BY <1>1 DEF Ends, GivesUp, Clean
    <2> QED
      BY <2>1, <2>2, PolicyStep
  <1>2. CASE /\ op[t] = "revoke" /\ Goes(t, "lookup") /\ UNCHANGED <<op, arg, todo, saw, held>>
             /\ base' = [base EXCEPT ![t] = Empty]
             /\ amiss \subseteq amiss'
    <2>1. /\ at'[t] = "lookup" /\ op'[t] = op[t] /\ arg'[t] = arg[t]
          /\ \A u \in Tools \ {t} : at'[u] = at[u] /\ op'[u] = op[u] /\ arg'[u] = arg[u]
      BY <1>2, GoesLeaves DEF Steps, IInv
    <2>2. \A u \in Tools \ {t} : Same(u)
      BY <1>2, <2>1 DEF Same, IInv, TypeOK
    <2>3. Clean' => Clean
      BY <1>2 DEF Clean
    <2> QED
      BY <1>2, <2>1, <2>2, <2>3, PolicyStep
  <1> QED
    BY <1>1, <1>2

LEMMA TailnetStep ==
    ASSUME IInv, TypeOK', NEW t \in Tools, Tailnet(t)
    PROVE  IInv'
  <1>0. /\ TypeOK /\ ToolSound(t) /\ at[t] \in {"read", "write"}
        /\ UNCHANGED <<uid, live, roles>>
    BY DEF IInv, Tailnet, Reads, NothingToWrite, Refused, WritesPolicy, Conflicts,
           TailnetCallFails, Ready, logto
  <1>1. CASE Reads(t)
    <2>1. /\ Goes(t, "write") /\ UNCHANGED <<op, arg, todo, held, saw, alone, policy, amiss>>
          /\ base' = [base EXCEPT ![t] = policy] /\ at[t] = "read" /\ ~Refuses(t, policy)
      BY <1>1 DEF Reads, Ready
    <2>2. /\ at'[t] = "write" /\ op'[t] = op[t] /\ arg'[t] = arg[t]
          /\ \A u \in Tools \ {t} : at'[u] = at[u] /\ op'[u] = op[u] /\ arg'[u] = arg[u]
      BY <1>0, <2>1, GoesLeaves DEF Steps
    <2>3. base'[t] = policy /\ \A u \in Tools \ {t} : base'[u] = base[u]
      BY <1>0, <2>1 DEF TypeOK
    <2>4. \A u \in Tools \ {t} : Same(u)
      BY <2>1, <2>2, <2>3 DEF Same
    <2>5. Checked(t)'
      BY <2>1, <2>2, <2>3 DEF Checked, Refuses
    <2>6. Inviting(t)' /\ Revoking(t)'
      BY <1>0, <2>1, <2>2 DEF ToolSound, Inviting, Revoking, Clean
    <2>7. Syncing(t)'
      BY <1>0, <2>1, <2>2 DEF ToolSound, Syncing, Clean, Active
    <2>8. ToolSound(t)' /\ (Clean' => Clean)
      BY <2>1, <2>5, <2>6, <2>7 DEF ToolSound, Clean
    <2> QED
      BY <1>0, <2>1, <2>2, <2>4, <2>8, LocalStep
  <1>2. CASE NothingToWrite(t)
    <2>1. policy' = Mutated(t, policy) /\ alone' = alone
      BY <1>2 DEF NothingToWrite, TailnetDone, Ends
    <2>2. \/ Ends(t)
          \/ /\ op[t] = "revoke" /\ Goes(t, "lookup") /\ UNCHANGED <<op, arg, todo, saw, held>>
             /\ base' = [base EXCEPT ![t] = Empty]
             /\ amiss \subseteq amiss'
      BY <1>2 DEF NothingToWrite, TailnetDone
    <2> QED
      BY <1>0, <2>1, <2>2, HalfDoneStep
  <1>3. CASE Refused(t)
    BY <1>0, <1>3, TailnetFailsStep DEF Refused
  <1>4. CASE WritesPolicy(t)
    <2>1. policy' = Mutated(t, policy) /\ alone' = alone
      BY <1>4 DEF WritesPolicy, Ends
    <2>2. \/ Ends(t)
          \/ /\ op[t] = "revoke" /\ Goes(t, "lookup") /\ UNCHANGED <<op, arg, todo, saw, held>>
             /\ base' = [base EXCEPT ![t] = Empty]
             /\ amiss \subseteq amiss'
      BY <1>4 DEF WritesPolicy
    <2> QED
      BY <1>0, <2>1, <2>2, HalfDoneStep
  <1>5. CASE Conflicts(t)
    <2>1. CASE retried[t]
      BY <1>0, <1>5, <2>1, TailnetFailsStep DEF Conflicts
    <2>2. CASE ~retried[t]
      <3>1. /\ Goes(t, "read") /\ UNCHANGED <<op, arg, todo, held, saw, alone, policy, amiss>>
            /\ base' = [base EXCEPT ![t] = Empty] /\ at[t] = "write"
        BY <1>5, <2>2 DEF Conflicts, Ready
      <3>2. /\ at'[t] = "read" /\ op'[t] = op[t] /\ arg'[t] = arg[t]
            /\ \A u \in Tools \ {t} : at'[u] = at[u] /\ op'[u] = op[u] /\ arg'[u] = arg[u]
        BY <1>0, <3>1, GoesLeaves DEF Steps
      <3>3. \A u \in Tools \ {t} : Same(u)
        BY <1>0, <3>1, <3>2 DEF Same, TypeOK
      <3>4. Inviting(t)' /\ Revoking(t)' /\ Checked(t)'
        BY <1>0, <3>1, <3>2 DEF ToolSound, Inviting, Revoking, Checked, Clean
      <3>5. Syncing(t)'
        BY <1>0, <3>1, <3>2 DEF ToolSound, Syncing, Clean, Active
      <3>6. ToolSound(t)' /\ (Clean' => Clean)
        BY <3>1, <3>4, <3>5 DEF ToolSound, Clean
      <3> QED
        BY <1>0, <3>1, <3>2, <3>3, <3>6, LocalStep
    <2> QED
      BY <2>1, <2>2
  <1>6. CASE TailnetCallFails(t)
    <2>1. TailnetFails(t)
      BY <1>6 DEF TailnetCallFails
    <2>2. CASE policy' = policy
      BY <1>0, <2>1, <2>2, TailnetFailsStep
    <2>3. CASE policy' # policy
      <3>1. policy' = Mutated(t, policy)
        BY <1>6, <2>3 DEF TailnetCallFails
      <3>2. alone' = alone
        BY <2>1 DEF TailnetFails, GivesUp
      <3>3. \/ GivesUp(t)
            \/ /\ op[t] = "revoke" /\ Goes(t, "lookup") /\ UNCHANGED <<op, arg, todo, saw, held>>
               /\ base' = [base EXCEPT ![t] = Empty]
               /\ amiss \subseteq amiss'
        BY <2>1 DEF TailnetFails
      <3> QED
        BY <1>0, <3>1, <3>2, <3>3, HalfDoneStep
    <2> QED
      BY <2>2, <2>3
  <1> QED
    BY <1>1, <1>2, <1>3, <1>4, <1>5, <1>6 DEF Tailnet

\* A step of a command that changes the account: what it must keep.
LEMMA AccountStep ==
    ASSUME IInv, TypeOK', NEW t \in Tools, UNCHANGED <<op, policy, alone>>, Clean' => Clean,
           \A u \in Tools : ToolSound(u)',
           Clean' => policy.groups \subseteq Active'
    PROVE  IInv'
  <1>1. Apart' /\ AloneIsAlone'
    BY DEF IInv, Apart, AloneIsAlone
  <1>2. NobodyBeyond'
    BY DEF NobodyBeyond, Clean
  <1> QED
    BY <1>1, <1>2 DEF IInv

\* An invite adds to the account: what others rely on stays.
LEMMA OthersUnderInvite ==
    ASSUME IInv, NEW t \in Tools, op[t] = "invite", UNCHANGED <<policy, alone>>, Clean' => Clean,
           NEW u \in Tools \ {t}, Same(u),
           \/ uid = 0
           \/ uid' = uid /\ roles \subseteq roles' /\ (live => live')
    PROVE  ToolSound(u)'
  <1>1. ToolSound(u) /\ uid \in Nat
    BY DEF IInv, TypeOK
  <1>2. Inviting(u)'
    BY <1>1 DEF ToolSound, Inviting, Same
  <1>3. Revoking(u)'
    <2>1. Clean => op[u] # "revoke"
      BY DEF IInv, Apart
    <2> QED
      BY <1>1, <2>1 DEF ToolSound, Revoking, Same
  <1>4. Syncing(u)'
    BY <1>1 DEF ToolSound, Syncing, Same, Active
  <1>5. Checked(u)'
    BY <1>1 DEF ToolSound, Checked, Same
  <1> QED
    BY <1>2, <1>3, <1>4, <1>5 DEF ToolSound

\* A revoke takes from the account: no invite or sync relies on what it takes.
LEMMA OthersUnderRevoke ==
    ASSUME IInv, NEW t \in Tools, op[t] = "revoke", UNCHANGED <<policy, alone, uid>>, Clean' => Clean,
           NEW u \in Tools \ {t}, Same(u), roles' \subseteq roles
    PROVE  ToolSound(u)'
  <1>1. ToolSound(u)
    BY DEF IInv
  <1>2. /\ Clean => op[u] \notin {"invite", "sync"}
        /\ alone[u] => op[u] = "none"
    BY DEF IInv, Apart, AloneIsAlone
  <1>3. Inviting(u)' /\ Syncing(u)'
    BY <1>1, <1>2 DEF ToolSound, Inviting, Syncing, Same
  <1>4. Revoking(u)' /\ Checked(u)'
    BY <1>1 DEF ToolSound, Revoking, Checked, Same
  <1> QED
    BY <1>3, <1>4 DEF ToolSound

LEMMA InviteStep ==
    ASSUME IInv, TypeOK', NEW t \in Tools,
           \/ CreatesUser(t) \/ Unsuspends(t)
           \/ \E r \in Rights : CreatesRole(t, r) \/ Grants(t, r)
    PROVE  IInv'
  <1>0. TypeOK /\ ToolSound(t) /\ op[t] = "invite" /\ UNCHANGED <<policy, alone, op>>
    BY KindOf DEF IInv, CreatesUser, Unsuspends, CreatesRole, Grants, Ready, Quiet, command
  <1>1. CASE CreatesUser(t) \/ Unsuspends(t)
    <2>1. /\ Goes(t, "role") /\ UNCHANGED <<op, arg, todo, held, base>>
          /\ at[t] \in {"create", "unsuspend"}
      BY <1>1 DEF CreatesUser, Unsuspends, Ready
    <2>2. Clean' => Clean
      BY <1>1 DEF CreatesUser, Unsuspends, Quiet, Clean
    <2>3. /\ at'[t] = "role" /\ op'[t] = op[t] /\ arg'[t] = arg[t]
          /\ \A u \in Tools \ {t} : at'[u] = at[u] /\ op'[u] = op[u] /\ arg'[u] = arg[u]
      BY <1>0, <2>1, GoesLeaves DEF Steps
    <2>4. \A u \in Tools \ {t} : saw'[u] = saw[u]
      BY <1>0, <1>1 DEF TypeOK, CreatesUser, Unsuspends
    <2>5. \A u \in Tools \ {t} : Same(u)
      BY <2>1, <2>3, <2>4 DEF Same
    <2>6. uid' # 0 /\ live' /\ (uid = 0 \/ (uid' = uid /\ roles' = roles))
      BY <1>0, <1>1 DEF CreatesUser, Unsuspends, Ready, TypeOK, ToolSound, Inviting
    <2>7. \A u \in Tools \ {t} : ToolSound(u)'
      BY <1>0, <2>2, <2>5, <2>6, OthersUnderInvite
    <2>8. Inviting(t)'
      <3>1. arg'[t] \ todo'[t] = {}
        BY <1>0, <2>1 DEF ToolSound, Inviting
      <3> QED
        BY <2>3, <2>6, <3>1 DEF Inviting
    <2>9. ToolSound(t)'
      BY <1>0, <2>3, <2>8 DEF ToolSound, Revoking, Syncing, Checked
    <2>10. Clean' => policy.groups \subseteq Active'
      BY <2>2, <2>6 DEF IInv, NobodyBeyond, Active, Clean
    <2> QED
      BY <1>0, <2>2, <2>7, <2>9, <2>10, AccountStep
  <1>2. ASSUME NEW r \in Rights, CreatesRole(t, r)
        PROVE  IInv'
    <2>1. UNCHANGED <<uid, live, roles, policy, alone, command>> /\ (Clean' => Clean)
      BY <1>2 DEF CreatesRole, Quiet, Clean
    <2>2. \A u \in Tools : Same(u)
      BY <2>1 DEF Same, command
    <2>3. ToolSound(t)'
      BY <1>0, <2>1, <2>2, SameStaysSound
    <2>4. op'[t] = op[t]
      BY <2>2 DEF Same
    <2> QED
      BY <2>1, <2>2, <2>3, <2>4, LocalStep
  <1>3. ASSUME NEW r \in Rights, Grants(t, r)
        PROVE  IInv'
    <2>1. /\ UNCHANGED <<at, op, arg, held, saw, base, uid, live, amiss>>
          /\ todo' = [todo EXCEPT ![t] = @ \ {r}] /\ roles' = roles \cup {r}
          /\ at[t] = "role"
      BY <1>3 DEF Grants, Quiet, Ready
    <2>2. todo'[t] = todo[t] \ {r} /\ \A u \in Tools \ {t} : Same(u)
      BY <1>0, <2>1 DEF TypeOK, Same
    <2>3. Clean' => Clean
      BY <2>1 DEF Clean
    <2>4. \A u \in Tools \ {t} : ToolSound(u)'
      BY <1>0, <2>1, <2>2, <2>3, OthersUnderInvite
    <2>5. Inviting(t)'
      BY <1>0, <2>1, <2>2, <2>3 DEF ToolSound, Inviting
    <2>6. ToolSound(t)'
      BY <1>0, <2>1, <2>5 DEF ToolSound, Revoking, Syncing, Checked
    <2>7. Clean' => policy.groups \subseteq Active'
      BY <2>1, <2>3 DEF IInv, NobodyBeyond, Active, Clean
    <2> QED
      BY <1>0, <2>3, <2>4, <2>6, <2>7, AccountStep
  <1> QED
    BY <1>1, <1>2, <1>3

LEMMA RevokeStep ==
    ASSUME IInv, TypeOK', NEW t \in Tools,
           Suspends(t) \/ \E r \in Rights : RemovesRole(t, r)
    PROVE  IInv'
  <1>0. /\ TypeOK /\ ToolSound(t) /\ op[t] = "revoke" /\ UNCHANGED <<policy, alone, op, uid>>
        /\ UNCHANGED <<arg, held, saw, base>>
        /\ (Clean' => Clean)
    BY KindOf DEF IInv, Suspends, RemovesRole, Ready, Quiet, Clean
  <1>1. CASE Suspends(t)
    <2>1. /\ Goes(t, "close") /\ UNCHANGED <<todo, roles>> /\ at[t] = "suspend"
      BY <1>1 DEF Suspends, Ready
    <2>2. /\ at'[t] = "close" /\ \A u \in Tools \ {t} : at'[u] = at[u]
      BY <1>0, <2>1, GoesLeaves DEF Steps
    <2>3. \A u \in Tools \ {t} : Same(u)
      BY <1>0, <2>1, <2>2 DEF Same
    <2>4. \A u \in Tools \ {t} : ToolSound(u)'
      BY <1>0, <2>1, <2>3, OthersUnderRevoke
    <2>5. Revoking(t)'
      BY <1>0, <2>1, <2>2 DEF ToolSound, Revoking
    <2>6. ToolSound(t)'
      BY <1>0, <2>2, <2>5 DEF ToolSound, Inviting, Syncing, Checked
    <2>7. Clean' => policy.groups \subseteq Active'
      <3> SUFFICES ASSUME Clean'
                   PROVE  policy.groups \subseteq Active'
        OBVIOUS
      <3>1. policy.groups \subseteq roles
        BY <1>0 DEF IInv, NobodyBeyond, Active, Clean
      <3>2. roles \subseteq arg[t] /\ policy.groups \cap arg[t] = {}
        BY <1>0, <2>1 DEF ToolSound, Revoking
      <3> QED
        BY <3>1, <3>2
    <2> QED
      BY <1>0, <2>4, <2>6, <2>7, AccountStep
  <1>2. ASSUME NEW r \in Rights, RemovesRole(t, r)
        PROVE  IInv'
    <2>1. /\ UNCHANGED <<at, live>> /\ at[t] = "remove" /\ r \in todo[t]
          /\ todo' = [todo EXCEPT ![t] = @ \ {r}] /\ roles' = roles \ {r}
      BY <1>2 DEF RemovesRole, Ready
    <2>2. todo'[t] = todo[t] \ {r} /\ \A u \in Tools \ {t} : Same(u)
      BY <1>0, <2>1 DEF TypeOK, Same
    <2>3. \A u \in Tools \ {t} : ToolSound(u)'
      BY <1>0, <2>1, <2>2, OthersUnderRevoke
    <2>4. Revoking(t)'
      BY <1>0, <2>1, <2>2 DEF ToolSound, Revoking
    <2>5. ToolSound(t)'
      BY <1>0, <2>1, <2>4 DEF ToolSound, Inviting, Syncing, Checked
    <2>6. Clean' => policy.groups \subseteq Active'
      <3> SUFFICES ASSUME Clean'
                   PROVE  policy.groups \subseteq Active'
        OBVIOUS
      <3>1. r \in arg[t] /\ policy.groups \cap arg[t] = {} /\ policy.groups \subseteq Active
        BY <1>0, <2>1 DEF ToolSound, Revoking, IInv, NobodyBeyond, Clean
      <3> QED
        BY <1>0, <2>1, <3>1 DEF Active
    <2> QED
      BY <1>0, <2>3, <2>5, <2>6, AccountStep
  <1> QED
    BY <1>1, <1>2

\* The steps of a command that only read, or decide.
LEMMA ReadingStep ==
    ASSUME IInv, TypeOK', NEW t \in Tools,
           \/ Checks(t) \/ Resends(t) \/ LooksUp(t) \/ Vets(t) \/ RolesDone(t) \/ UserMoved(t)
           \/ ListsRoles(t) \/ RolesRemoved(t) \/ Closes(t) \/ ListsUsers(t) \/ Wants(t) \/ Picks(t)
    PROVE  IInv'
  <1>0. /\ TypeOK /\ ToolSound(t) /\ UNCHANGED <<logto, uid, live, roles, policy, alone>>
        /\ (Clean' => Clean)
    BY DEF IInv, Checks, Resends, LooksUp, Vets, RolesDone, UserMoved, ListsRoles, RolesRemoved,
           Closes, ListsUsers, Wants, Picks, Quiet, GivesUp, logto, Clean
  <1>1. CASE Over(t)
    BY <1>0, <1>1, EndStep
  <1>g. ASSUME NEW step \in Steps, Goes(t, step), UNCHANGED <<op, arg, base>>, ToolSound(t)',
               \A u \in Tools \ {t} : saw'[u] = saw[u] /\ held'[u] = held[u] /\ todo'[u] = todo[u]
        PROVE  IInv'
    <2>1. /\ op'[t] = op[t]
          /\ \A u \in Tools \ {t} : at'[u] = at[u] /\ op'[u] = op[u] /\ arg'[u] = arg[u]
      BY <1>0, <1>g, GoesLeaves
    <2>2. \A u \in Tools \ {t} : Same(u)
      BY <1>g, <2>1 DEF Same
    <2> QED
      BY <1>0, <1>g, <2>1, <2>2, LocalStep
  <1>s. Active' = Active
    BY <1>0 DEF Active
  <1>a. at \in [Tools -> Steps]
    BY <1>0 DEF TypeOK
  <1>2. CASE (Checks(t) \/ Vets(t)) /\ ~Over(t)
    <2>1. /\ Goes(t, "lookup") \/ (Goes(t, "unsuspend") /\ at[t] = "vet")
          /\ UNCHANGED <<op, arg, todo, saw, held, base>>
          /\ at[t] \in {"check", "vet"}
      BY <1>2 DEF Checks, Vets, GivesUp, Records, Ready
    <2>2. op[t] = "invite" /\ (at'[t] = "lookup" \/ (at'[t] = "unsuspend" /\ at[t] = "vet"))
      BY <1>0, <1>a, <2>1, KindOf DEF Goes
    <2>3. Inviting(t)'
      BY <1>0, <2>1, <2>2 DEF ToolSound, Inviting
    <2>4. ToolSound(t)'
      BY <2>1, <2>2, <2>3 DEF ToolSound, Revoking, Syncing, Checked
    <2> QED
      BY <1>g, <2>1, <2>4 DEF Steps
  <1>3. CASE LooksUp(t)
    <2>1. /\ UNCHANGED <<op, arg, todo, held, base>> /\ at[t] = "lookup"
          /\ saw' = [saw EXCEPT ![t] = [id |-> uid, live |-> live]]
      BY <1>3 DEF LooksUp, Ready
    <2>2. /\ saw'[t].id = uid /\ saw'[t].live = live /\ \A u \in Tools \ {t} : saw'[u] = saw[u]
      BY <1>0, <2>1 DEF TypeOK
    <2>3. op[t] \in {"invite", "revoke"}
      BY <1>0, <2>1, KindOf
    <2>4. CASE op[t] = "revoke"
      <3>1. \E step \in {"close", "list"} : Goes(t, step)
        BY <1>3, <2>4 DEF LooksUp
      <3>2. PICK step \in {"close", "list"} : Goes(t, step)
        BY <3>1
      <3>3. at'[t] = step
        BY <1>a, <3>2 DEF Goes
      <3>4. Revoking(t)'
        BY <1>0, <2>1, <3>2, <3>3 DEF ToolSound, Revoking
      <3>5. ToolSound(t)'
        BY <2>1, <2>4, <3>2, <3>3, <3>4 DEF ToolSound, Inviting, Syncing, Checked
      <3> QED
        BY <1>g, <2>1, <2>2, <3>2, <3>5 DEF Steps
    <2>5. CASE op[t] = "invite"
      <3>1. \/ Goes(t, "create")
            \/ Goes(t, "vet") /\ uid # 0
            \/ Goes(t, "role") /\ uid # 0 /\ live
        BY <1>3, <2>5 DEF LooksUp
      <3>2. \/ at'[t] = "create"
            \/ at'[t] = "vet" /\ uid # 0
            \/ at'[t] = "role" /\ uid # 0 /\ live
        BY <1>a, <3>1 DEF Goes
      <3>3. todo[t] = arg[t]
        BY <1>0, <2>1, <2>5 DEF ToolSound, Inviting
      <3>4. Inviting(t)'
        BY <1>0, <2>1, <2>2, <3>2, <3>3 DEF Inviting
      <3>5. ToolSound(t)'
        BY <2>1, <2>5, <3>2, <3>4 DEF ToolSound, Revoking, Syncing, Checked
      <3> QED
        BY <1>g, <2>1, <2>2, <3>1, <3>5 DEF Steps
    <2> QED
      BY <2>3, <2>4, <2>5
  <1>4. CASE RolesDone(t)
    <2>1. /\ Goes(t, "read") /\ UNCHANGED <<op, arg, todo, held, saw, base>> /\ at[t] = "role"
          /\ todo[t] = {}
      BY <1>4 DEF RolesDone, Ready
    <2>2. op[t] = "invite" /\ at'[t] = "read"
      BY <1>0, <1>a, <2>1, KindOf DEF Goes
    <2>3. Inviting(t)'
      BY <1>0, <2>1, <2>2 DEF ToolSound, Inviting
    <2>4. ToolSound(t)'
      BY <2>1, <2>2, <2>3 DEF ToolSound, Revoking, Syncing, Checked
    <2> QED
      BY <1>g, <2>1, <2>4 DEF Steps
  <1>5. CASE ListsRoles(t)
    <2>1. /\ Goes(t, "remove") /\ UNCHANGED <<op, arg, saw, base>> /\ at[t] = "list"
          /\ held' = [held EXCEPT ![t] = roles] /\ todo' = [todo EXCEPT ![t] = arg[t] \cap roles]
      BY <1>5 DEF ListsRoles, Ready
    <2>2. op[t] = "revoke" /\ at'[t] = "remove"
      BY <1>0, <1>a, <2>1, KindOf DEF Goes
    <2>3. /\ held'[t] = roles /\ todo'[t] = arg[t] \cap roles
          /\ \A u \in Tools \ {t} : held'[u] = held[u] /\ todo'[u] = todo[u]
      BY <1>0, <2>1 DEF TypeOK
    <2>4. Revoking(t)'
      BY <1>0, <2>1, <2>2, <2>3 DEF ToolSound, Revoking
    <2>5. ToolSound(t)'
      BY <2>1, <2>2, <2>4 DEF ToolSound, Inviting, Syncing, Checked
    <2> QED
      BY <1>g, <2>1, <2>3, <2>5 DEF Steps
  <1>6. CASE RolesRemoved(t)
    <2>1. /\ Goes(t, "close") \/ (Goes(t, "suspend") /\ held[t] \subseteq arg[t])
          /\ UNCHANGED <<op, arg, todo, held, saw, base>> /\ at[t] = "remove"
      BY <1>6 DEF RolesRemoved, Ready, NoneLeft
    <2>2. /\ op[t] = "revoke"
          /\ at'[t] = "close" \/ (at'[t] = "suspend" /\ held[t] \subseteq arg[t])
      BY <1>0, <1>a, <2>1, KindOf DEF Goes
    <2>3. Revoking(t)'
      BY <1>0, <2>1, <2>2 DEF ToolSound, Revoking
    <2>4. ToolSound(t)'
      BY <2>1, <2>2, <2>3 DEF ToolSound, Inviting, Syncing, Checked
    <2> QED
      BY <1>g, <2>1, <2>4 DEF Steps
  <1>7. CASE ListsUsers(t)
    <2>1. /\ Goes(t, "roles") /\ UNCHANGED <<op, arg, todo, held, base>> /\ at[t] = "users"
          /\ saw' = [saw EXCEPT ![t] = [id |-> uid, live |-> live]]
      BY <1>7 DEF ListsUsers, Ready
    <2>2. op[t] = "sync" /\ at'[t] = "roles"
      BY <1>0, <1>a, <2>1, KindOf DEF Goes
    <2>3. saw'[t].id = uid /\ saw'[t].live = live /\ \A u \in Tools \ {t} : saw'[u] = saw[u]
      BY <1>0, <2>1 DEF TypeOK
    <2>4. Syncing(t)'
      BY <1>0, <2>2, <2>3 DEF Syncing
    <2>5. ToolSound(t)'
      BY <2>1, <2>2, <2>4 DEF ToolSound, Inviting, Revoking, Checked
    <2> QED
      BY <1>g, <2>1, <2>3, <2>5 DEF Steps
  <1>8. CASE Wants(t)
    <2>1. /\ Goes(t, "read") /\ UNCHANGED <<op, arg, todo, saw, base>> /\ at[t] = "roles"
          /\ held' = [held EXCEPT ![t] = IF saw[t].id # 0 /\ saw[t].live THEN roles ELSE {}]
      BY <1>8 DEF Wants, Ready
    <2>2. op[t] = "sync" /\ at'[t] = "read"
      BY <1>0, <1>a, <2>1, KindOf DEF Goes
    <2>3. /\ held'[t] = IF saw[t].id # 0 /\ saw[t].live THEN roles ELSE {}
          /\ \A u \in Tools \ {t} : held'[u] = held[u]
      BY <1>0, <2>1 DEF TypeOK
    <2>4. Syncing(t)'
      BY <1>0, <1>s, <2>1, <2>2, <2>3 DEF ToolSound, Syncing, Active
    <2>5. ToolSound(t)'
      BY <2>1, <2>2, <2>4 DEF ToolSound, Inviting, Revoking, Checked
    <2> QED
      BY <1>g, <2>1, <2>3, <2>5 DEF Steps
  <1>9. CASE Picks(t) /\ ~Over(t)
    <2>1. /\ Goes(t, "call") /\ UNCHANGED <<op, arg, todo, saw, held, base>> /\ at[t] = "pick"
      BY <1>9 DEF Picks, GivesUp, Records, Ready
    <2>2. op[t] = "undo" /\ at'[t] = "call"
      BY <1>0, <1>a, <2>1, KindOf DEF Goes
    <2>3. ToolSound(t)'
      BY <2>1, <2>2 DEF ToolSound, Inviting, Revoking, Syncing, Checked
    <2> QED
      BY <1>g, <2>1, <2>3 DEF Steps
  <1> QED
    BY <1>1, <1>2, <1>3, <1>4, <1>5, <1>6, <1>7, <1>8, <1>9
    DEF Resends, UserMoved, Closes, Records, GivesUp

\* undo works on a state that has been noted as drifted when it began.
LEMMA UndoStep ==
    ASSUME IInv, TypeOK', NEW t \in Tools, Undoes(t)
    PROVE  IInv'
  <1>1. /\ Over(t) /\ UNCHANGED <<policy, alone>> /\ at[t] = "call"
        /\ Inverts(ledger[pick[t]])
    BY DEF Undoes, Ready
  <1>2. op[t] = "undo"
    BY <1>1, KindOf DEF IInv
  <1>3. ~Clean'
    <2>1. ~Clean
      BY <1>2 DEF IInv, Apart
    <2>2. amiss \subseteq amiss'
      BY <1>1 DEF Inverts
    <2> QED
      BY <2>1, <2>2 DEF Clean
  <1>4. Idles(t) /\ \A u \in Tools \ {t} : Same(u)
    BY <1>1, OverLeaves DEF IInv
  <1>5. \A u \in Tools : alone'[u] => alone[u] /\ op'[u] # "sync"
    BY <1>1, <1>2, <1>4 DEF IInv, AloneIsAlone, Idles, Same
  <1> QED
    BY <1>3, <1>4, <1>5, DriftStep

LEMMA OwnerStep ==
    ASSUME IInv, TypeOK', Owner
    PROVE  IInv'
  <1>1. alone' = [t \in Tools |-> FALSE] /\ UNCHANGED <<uid, command>>
    BY DEF Owner, FlipsSuspension, FlipsRole, EditsPolicy, Edits
  <1>2. \A u \in Tools : Same(u) /\ ~alone'[u]
    BY <1>1 DEF Same, command
  <1>3. CASE FlipsSuspension \/ \E r \in Rights : FlipsRole(r)
    <2>1. ~Clean'
      BY <1>3 DEF FlipsSuspension, FlipsRole, Clean
    <2> QED
      BY <1>2, <2>1, DriftStep
  <1>4. ASSUME NEW groups \in SUBSET Rights, NEW open \in BOOLEAN, EditsPolicy(groups, open)
        PROVE  IInv'
    <2>1. CASE groups # policy.groups
      <3>1. ~Clean'
        BY <1>4, <2>1 DEF EditsPolicy, Clean
      <3> QED
        BY <1>2, <3>1, DriftStep
    <2>2. CASE groups = policy.groups
      <3>1. /\ policy'.groups = policy.groups /\ UNCHANGED <<live, roles, amiss>>
        BY <1>4, <2>2 DEF EditsPolicy
      <3>2. Active' = Active /\ (Clean' <=> Clean)
        BY <1>1, <3>1 DEF Active, Clean
      <3>3. ASSUME NEW u \in Tools
            PROVE  ToolSound(u)'
        <4>1. ToolSound(u) /\ Same(u) /\ ~alone'[u]
          BY <1>2 DEF IInv
        <4>2. Inviting(u)'
          BY <1>1, <3>1, <3>2, <4>1 DEF ToolSound, Inviting, Same
        <4>3. Revoking(u)'
          BY <3>1, <3>2, <4>1 DEF ToolSound, Revoking, Same
        <4>4. Syncing(u)'
          BY <1>1, <3>1, <3>2, <4>1 DEF ToolSound, Syncing, Same
        <4>5. Checked(u)'
          BY <4>1 DEF ToolSound, Checked, Same
        <4> QED
          BY <4>2, <4>3, <4>4, <4>5 DEF ToolSound
      <3>4. Apart' /\ AloneIsAlone'
        BY <1>2, <3>2 DEF IInv, Apart, AloneIsAlone, Same
      <3>5. NobodyBeyond'
        BY <3>1, <3>2 DEF IInv, NobodyBeyond, Clean
      <3> QED
        BY <3>3, <3>4, <3>5 DEF IInv
    <2> QED
      BY <2>1, <2>2
  <1> QED
    BY <1>3, <1>4 DEF Owner

LEMMA IInvStep == IInv /\ [Next]_vars => IInv'
  <1> SUFFICES ASSUME IInv, [Next]_vars
               PROVE  IInv'
    OBVIOUS
  <1>0. TypeOK /\ TypeOK'
    BY TypeStep DEF IInv
  <1>1. ASSUME NEW t \in Tools, Commands(t)
        PROVE  IInv'
    <2>1. PICK kind \in Kinds \ {"none"}, rights \in SUBSET Rights : Begins(t, kind, rights)
      BY <1>1 DEF Commands, Kinds
    <2> QED
      BY <1>0, <2>1, BeginsStep
  <1>2. ASSUME NEW t \in Tools, Tailnet(t)
        PROVE  IInv'
    BY <1>0, <1>2, TailnetStep
  <1>3. ASSUME NEW t \in Tools, Logto(t)
        PROVE  IInv'
    BY <1>0, <1>3, ReadingStep, InviteStep, RevokeStep, UndoStep DEF Logto
  <1>4. ASSUME NEW t \in Tools, Appends(t)
        PROVE  IInv'
    <2>1. UNCHANGED <<uid, live, roles, policy, alone, command>> /\ (Clean' => Clean)
      BY <1>4 DEF Appends, logto, Clean
    <2>2. \A u \in Tools : Same(u)
      BY <2>1 DEF Same, command
    <2>3. ToolSound(t)' /\ op'[t] = op[t]
      BY <2>1, <2>2, SameStaysSound DEF IInv, Same
    <2> QED
      BY <1>0, <2>1, <2>2, <2>3, LocalStep
  <1>5. ASSUME NEW t \in Tools, Fails(t) \/ Dies(t)
        PROVE  IInv'
    <2>1. /\ Over(t) /\ UNCHANGED <<uid, live, roles, policy, alone>>
          /\ (Clean' => Clean)
      BY <1>5 DEF Fails, Dies, GivesUp, Records, logto, Clean
    <2> QED
      BY <1>0, <2>1, EndStep
  <1>6. CASE Owner
    BY <1>0, <1>6, OwnerStep
  <1>7. CASE UNCHANGED vars
    <2>1. UNCHANGED <<uid, live, roles, policy, alone, amiss>> /\ \A u \in Tools : Same(u)
      BY <1>7 DEF vars, logto, command, Same
    <2>2. (Clean' => Clean) /\ \A u \in Tools : op'[u] = op[u]
      BY <2>1 DEF Clean, Same
    <2>3. \A u \in Tools : ToolSound(u)'
      BY <2>1, <2>2, SameStaysSound DEF IInv
    <2>4. Apart' /\ AloneIsAlone'
      BY <2>1, <2>2 DEF IInv, Apart, AloneIsAlone
    <2>5. NobodyBeyond'
      BY <2>1 DEF IInv, NobodyBeyond, Active
    <2> QED
      BY <1>0, <2>3, <2>4, <2>5 DEF IInv
  <1> QED
    BY <1>1, <1>2, <1>3, <1>4, <1>5, <1>6, <1>7 DEF Next

LEMMA IInvAlways == Spec => []IInv
  BY IInvInit, IInvStep, PTL DEF Spec

-----------------------------------------------------------------------------
(* The results                                                                *)

\* A write of the policy is of what was read: If-Match lets no other through.
LEMMA WriteKeepsEdits ==
    ASSUME IInv, NEW t \in Tools, at[t] \in {"read", "write"}, note[t] = Nothing,
           at[t] = "write", policy = base[t], policy' = Mutated(t, base[t])
    PROVE  PolicyWritten
  <1>1. policy \in Policies /\ op[t] \in {"invite", "revoke", "sync"}
    BY DEF IInv, TypeOK, Fits
  <1>2. /\ policy'.hand = policy.hand /\ policy'.open = policy.open
        /\ op[t] = "revoke" => policy'.groups = policy.groups \ arg[t]
    BY <1>1, MutatedTyped DEF IInv
  <1>3. op[t] # "revoke" => ~policy.open
    BY DEF IInv, ToolSound, Checked
  <1> QED
    BY <1>2, <1>3 DEF PolicyWritten

LEMMA PolicyIsKept ==
    ASSUME IInv, [Next]_vars
    PROVE  PolicyWritten \/ UNCHANGED policy
  <1>1. ASSUME NEW t \in Tools, Tailnet(t)
        PROVE  PolicyWritten \/ UNCHANGED policy
    <2>1. CASE WritesPolicy(t)
      BY <2>1, WriteKeepsEdits DEF WritesPolicy, Ready
    <2>2. CASE TailnetCallFails(t)
      BY <2>2, WriteKeepsEdits DEF TailnetCallFails
    <2>3. CASE Reads(t) \/ NothingToWrite(t) \/ Refused(t) \/ Conflicts(t)
      BY <2>3 DEF Reads, NothingToWrite, Refused, Conflicts
    <2> QED
      BY <1>1, <2>1, <2>2, <2>3 DEF Tailnet
  <1>2. ASSUME NEW t \in Tools, Logto(t)
        PROVE  UNCHANGED policy
    BY <1>2 DEF Logto, Checks, Resends, LooksUp, CreatesUser, Vets, Unsuspends, RolesDone,
                UserMoved, ListsRoles, RolesRemoved, Suspends, Closes, ListsUsers, Wants,
                Picks, Undoes, CreatesRole, Grants, RemovesRole
  <1>3. ASSUME NEW t \in Tools, Commands(t) \/ Appends(t) \/ Fails(t) \/ Dies(t)
        PROVE  UNCHANGED policy
    BY <1>3 DEF Commands, Begins, Appends, Fails, Dies
  <1>4. ASSUME NEW groups \in SUBSET Rights, NEW open \in BOOLEAN, EditsPolicy(groups, open)
        PROVE  PolicyWritten
    <2>1. policy'.hand = policy.hand + 1 /\ policy.hand \in Nat
      BY <1>4 DEF EditsPolicy, IInv, TypeOK, Policies
    <2> QED
      BY <2>1 DEF PolicyWritten
  <1>5. CASE Owner
    BY <1>4, <1>5 DEF Owner, FlipsSuspension, FlipsRole
  <1>6. CASE UNCHANGED vars
    BY <1>6 DEF vars
  <1> QED
    BY <1>1, <1>2, <1>3, <1>5, <1>6 DEF Next

\* The account, the policy and the commands are well formed (people.py).
THEOREM Typing == Spec => []TypeOK
  BY IInvAlways, PTL DEF IInv

\* At no moment do the tailnet's groups let the person in beyond the roles of an
\* active user, but for the drift the property excuses (people.py, tailnet.py).
THEOREM NobodyBeyondTheirRoles == Spec => []NobodyBeyond
  BY IInvAlways, PTL DEF IInv

\* No tool's write loses an edit of the owner's, or puts anybody in a group while
\* a grant opens a never_ports port (update_policy, check_policy).
THEOREM TheOwnersEditsAreKept == Spec => PolicyKept
  <1>1. IInv /\ [Next]_vars => [PolicyWritten]_policy
    BY PolicyIsKept
  <1> QED
    BY <1>1, IInvAlways, PTL DEF Spec, PolicyKept

-----------------------------------------------------------------------------
(* Everybody is let in: the strengthening                                     *)

Settled == {"drift", "lag"} \cap amiss = {}

\* The rights whose group a running command is still to bring in line with the roles.
Owing(t) == IF op[t] \in {"invite", "revoke"} THEN arg[t] ELSE {}

Covered == Settled => \A r \in Active : r \in policy.groups \/ \E t \in Tools : r \in Owing(t)

SyncApart == Settled => \A t, u \in Tools : op[t] = "sync" => op[u] # "invite"

\* An invite grants no more than it owes; a revoke leaves none of its roles, or a
\* suspended user; a sync's want takes in everybody, even of an unsettled state if
\* nothing else runs.
Fulfilling(t) ==
    /\ op[t] = "invite" => todo[t] \subseteq arg[t]
    /\ op[t] = "revoke" /\ Settled =>
          /\ at[t] = "remove"  => roles \cap arg[t] \subseteq todo[t]
          /\ at[t] = "suspend" => roles \cap arg[t] = {}
          /\ at[t] = "close"   => Active \cap arg[t] = {}
    /\ op[t] = "sync" /\ (Settled \/ alone[t]) =>
          /\ at[t] = "roles" => saw[t].id = uid /\ saw[t].live = live
          /\ at[t] \in {"read", "write"} => Active \subseteq held[t]

EInv ==
    /\ IInv
    /\ Covered
    /\ SyncApart
    /\ \A t \in Tools : Fulfilling(t)

\* What a running command still has to bring in line, with what already is.
Here(t) == policy.groups \cup Owing(t)

LEMMA StaysFulfilling ==
    ASSUME NEW u \in Tools, Fulfilling(u), Same(u),
           op[u] = "revoke" /\ Settled' =>
               Settled /\ roles' \subseteq roles /\ Active' \subseteq Active,
           op[u] = "sync" /\ (Settled' \/ alone'[u]) =>
               /\ Settled \/ alone[u]
               /\ uid' = uid /\ live' = live /\ Active' \subseteq Active
    PROVE  Fulfilling(u)'
  <1>1. op'[u] = "invite" => todo'[u] \subseteq arg'[u]
    BY DEF Fulfilling, Same
  <1>2. op'[u] = "revoke" /\ Settled' =>
          /\ at'[u] = "remove"  => roles' \cap arg'[u] \subseteq todo'[u]
          /\ at'[u] = "suspend" => roles' \cap arg'[u] = {}
          /\ at'[u] = "close"   => Active' \cap arg'[u] = {}
    BY DEF Fulfilling, Same
  <1>3. op'[u] = "sync" /\ (Settled' \/ alone'[u]) =>
          /\ at'[u] = "roles" => saw'[u].id = uid' /\ saw'[u].live = live'
          /\ at'[u] \in {"read", "write"} => Active' \subseteq held'[u]
    BY DEF Fulfilling, Same
  <1> QED
    BY <1>1, <1>2, <1>3 DEF Fulfilling

LEMMA IdleFulfils ==
    ASSUME NEW t \in Tools, Idles(t)
    PROVE  Fulfilling(t)' /\ Owing(t)' = {}
  BY DEF Idles, Fulfilling, Owing

\* Who is active stays covered if they are, or come to be, by the tool that steps.
LEMMA CoveredStays ==
    ASSUME Covered, NEW t \in Tools, Settled' => Settled,
           \A u \in Tools \ {t} : Same(u),
           Settled' => \A r \in Active' :
               /\ r \in Active \/ r \in Here(t)'
               /\ r \in Here(t) => r \in Here(t)'
    PROVE  Covered'
  <1> SUFFICES ASSUME Settled', NEW r \in Active'
               PROVE  r \in policy'.groups \/ \E u \in Tools : r \in Owing(u)'
    BY DEF Covered
  <1>1. CASE r \in Here(t)'
    BY <1>1 DEF Here
  <1>2. CASE r \notin Here(t)'
    <2>1. r \in Active /\ r \notin Here(t)
      BY <1>2
    <2>2. PICK u \in Tools : r \in Owing(u)
      BY <2>1 DEF Covered, Here
    <2>3. u # t
      BY <2>1, <2>2 DEF Here
    <2>4. r \in Owing(u)'
      BY <2>2, <2>3 DEF Owing, Same
    <2> QED
      BY <2>4
  <1> QED
    BY <1>1, <1>2

\* A step that leaves the account alone, and the groups of those whom it covers.
LEMMA QuietStep ==
    ASSUME EInv, IInv', NEW t \in Tools, UNCHANGED <<uid, live, roles, alone>>,
           Settled' => Settled,
           \A u \in Tools \ {t} : Same(u),
           op'[t] \in {op[t], "none"},
           Settled' => \A r \in Active : r \in Here(t) => r \in Here(t)',
           Fulfilling(t)'
    PROVE  EInv'
  <1>1. Active' = Active
    BY DEF Active
  <1>2. \A u \in Tools \ {t} : Fulfilling(u)'
    BY <1>1, StaysFulfilling DEF EInv
  <1>3. Covered'
    BY <1>1, CoveredStays DEF EInv
  <1>4. \A u \in Tools : op'[u] \in {op[u], "none"}
    BY DEF Same
  <1>5. SyncApart'
    BY <1>4 DEF EInv, SyncApart
  <1> QED
    BY <1>2, <1>3, <1>5 DEF EInv

\* A command goes on.
LEMMA OnStep ==
    ASSUME EInv, IInv', NEW t \in Tools, UNCHANGED <<uid, live, roles, alone, policy>>,
           Settled' => Settled,
           NEW step \in Steps, Goes(t, step), UNCHANGED <<op, arg, base>>,
           \A u \in Tools \ {t} : saw'[u] = saw[u] /\ held'[u] = held[u] /\ todo'[u] = todo[u],
           Fulfilling(t)'
    PROVE  EInv'
  <1>1. /\ op'[t] = op[t] /\ arg'[t] = arg[t]
        /\ \A u \in Tools \ {t} : at'[u] = at[u] /\ op'[u] = op[u] /\ arg'[u] = arg[u]
    BY GoesLeaves DEF EInv, IInv
  <1>2. \A u \in Tools \ {t} : Same(u)
    BY <1>1 DEF Same
  <1>3. Here(t)' = Here(t)
    BY <1>1 DEF Here, Owing
  <1> QED
    BY <1>1, <1>2, <1>3, QuietStep

\* A command ends: it is done with those it covers, or has failed them.
LEMMA OverStep ==
    ASSUME EInv, IInv', NEW t \in Tools, UNCHANGED <<uid, live, roles, alone>>,
           Settled' => Settled, Over(t),
           Settled' => \A r \in Active : r \in Here(t) => r \in policy'.groups
    PROVE  EInv'
  <1>1. Idles(t) /\ \A u \in Tools \ {t} : Same(u)
    BY OverLeaves DEF EInv, IInv
  <1>2. Fulfilling(t)'
    BY <1>1, IdleFulfils
  <1>3. \A r \in policy'.groups : r \in Here(t)'
    BY DEF Here
  <1> QED
    BY <1>1, <1>2, <1>3, QuietStep DEF Idles

\* What ends a command short unsettles the state.
LEMMA ShortStep ==
    ASSUME EInv, IInv', NEW t \in Tools, UNCHANGED <<uid, live, roles, alone>>,
           Over(t), amiss' = amiss \cup Lost(t)
    PROVE  EInv'
  <1>1. ~Settled'
    BY DEF Lost, Settled
  <1> QED
    BY <1>1, OverStep

-----------------------------------------------------------------------------
(* Everybody is let in: every action keeps it                                 *)

LEMMA EInvInit == Init => EInv
  <1> SUFFICES ASSUME Init
               PROVE  EInv
    OBVIOUS
  <1>1. IInv
    BY IInvInit
  <1>2. \A t \in Tools : op[t] = "none"
    BY DEF Init
  <1>3. Covered
    BY DEF Init, Covered, Active
  <1>4. SyncApart /\ \A t \in Tools : Fulfilling(t)
    BY <1>2 DEF SyncApart, Fulfilling
  <1> QED
    BY <1>1, <1>3, <1>4 DEF EInv

LEMMA EBegins ==
    ASSUME EInv, IInv', NEW t \in Tools, NEW kind \in Kinds \ {"none"},
           NEW rights \in SUBSET Rights, Begins(t, kind, rights)
    PROVE  EInv'
  <1>1. /\ op'[t] = kind /\ at'[t] = First(kind) /\ arg'[t] = rights /\ todo'[t] = rights
        /\ \A u \in Tools \ {t} :
              op'[u] = op[u] /\ at'[u] = at[u] /\ arg'[u] = arg[u] /\ todo'[u] = todo[u]
    BY BeginsTyped DEF EInv, IInv
  <1>2. /\ alone' = [u \in Tools |-> u = t /\ Busy = {}]
        /\ amiss' = amiss \cup Clash(kind)
        /\ UNCHANGED <<uid, live, roles, policy, saw, held, base>>
        /\ at[t] = "idle" /\ op[t] = "none"
    BY KindOf DEF Begins, Ready, logto, EInv, IInv
  <1>3. (Settled' => Settled) /\ Active' = Active
    BY <1>2 DEF Settled, Active
  <1>4. \A u \in Tools \ {t} : Same(u) /\ ~alone'[u]
    BY <1>1, <1>2 DEF Same
  <1>5. \A u \in Tools \ {t} : Fulfilling(u)'
    BY <1>2, <1>3, <1>4, StaysFulfilling DEF EInv
  <1>6. Fulfilling(t)'
    <2>1. /\ kind = "revoke" => First(kind) = "read"
          /\ kind = "sync"   => First(kind) = "users"
      BY DEF First
    <2> QED
      BY <1>1, <2>1 DEF Fulfilling
  <1>7. Covered'
    <2>1. Here(t) \subseteq Here(t)'
      BY <1>2 DEF Here, Owing
    <2> QED
      BY <1>3, <1>4, <2>1, CoveredStays DEF EInv
  <1>8. SyncApart'
    <2> SUFFICES ASSUME Settled'
                 PROVE  \A u, v \in Tools : op'[u] = "sync" => op'[v] # "invite"
      BY DEF SyncApart
    <2>1. \A u, v \in Tools : op[u] = "sync" => op[v] # "invite"
      BY <1>3 DEF EInv, SyncApart
    <2>2. ~Beside(kind, "sync", "invite")
      BY <1>2 DEF Settled, Clash
    <2>3. \A u \in Tools, k \in {"sync", "invite"} : op[u] = k => u \in Running(k)
      BY KindOf DEF EInv, IInv, Running
    <2>4. \A u \in Tools : /\ kind = "sync" => op[u] # "invite"
                           /\ kind = "invite" => op[u] # "sync"
      BY <2>2, <2>3 DEF Beside
    <2> QED
      BY <1>1, <2>1, <2>4
  <1> QED
    BY <1>5, <1>6, <1>7, <1>8 DEF EInv

\* The tailnet half has failed: a revoke goes on with a drift, the others give up.
LEMMA ETailnetFails ==
    ASSUME EInv, IInv', NEW t \in Tools, TailnetFails(t), UNCHANGED <<uid, live, roles>>
    PROVE  EInv'
  <1>1. CASE op[t] = "revoke"
    <2>1. /\ Goes(t, "lookup") /\ UNCHANGED <<op, arg, todo, saw, held, alone>>
          /\ base' = [base EXCEPT ![t] = Empty] /\ amiss' = amiss \cup {"drift"}
      BY <1>1 DEF TailnetFails
    <2>2. /\ op'[t] = op[t]
          /\ \A u \in Tools \ {t} : at'[u] = at[u] /\ op'[u] = op[u] /\ arg'[u] = arg[u]
      BY <2>1, GoesLeaves DEF Steps, EInv, IInv
    <2>3. \A u \in Tools \ {t} : Same(u)
      BY <2>1, <2>2 DEF Same, EInv, IInv, TypeOK
    <2>4. ~Settled'
      BY <2>1 DEF Settled
    <2>5. Fulfilling(t)'
      BY <1>1, <2>2, <2>4 DEF Fulfilling
    <2> QED
      BY <2>1, <2>2, <2>3, <2>4, <2>5, QuietStep
  <1>2. CASE op[t] # "revoke"
    <2>1. Over(t) /\ alone' = alone /\ amiss' = amiss \cup Lost(t)
      BY <1>2 DEF TailnetFails, GivesUp, Records
    <2> QED
      BY <2>1, ShortStep
  <1> QED
    BY <1>1, <1>2

\* The tailnet half is through: the groups are what the command makes of them.
LEMMA ETailnetDone ==
    ASSUME EInv, IInv', NEW t \in Tools, at[t] \in {"read", "write"},
           UNCHANGED <<uid, live, roles>>, policy' = Mutated(t, policy),
           \/ op[t] # "revoke" /\ Ends(t)
           \/ /\ op[t] = "revoke" /\ Goes(t, "lookup")
              /\ UNCHANGED <<op, arg, todo, saw, held, alone, amiss>>
              /\ base' = [base EXCEPT ![t] = Empty]
    PROVE  EInv'
  <1>0. /\ TypeOK /\ policy \in Policies /\ Fulfilling(t)
        /\ op[t] \in {"invite", "revoke", "sync"}
    BY KindOf DEF EInv, IInv, TypeOK
  <1>1. /\ op[t] = "invite" => policy'.groups = policy.groups \cup arg[t]
        /\ op[t] = "revoke" => policy'.groups = policy.groups \ arg[t]
        /\ op[t] = "sync"   => policy'.groups = held[t]
    BY <1>0, MutatedTyped
  <1>2. CASE op[t] = "revoke"
    <2>1. /\ Goes(t, "lookup") /\ UNCHANGED <<op, arg, todo, saw, held, alone, amiss>>
          /\ base' = [base EXCEPT ![t] = Empty]
      BY <1>2
    <2>2. /\ at'[t] = "lookup" /\ op'[t] = op[t] /\ arg'[t] = arg[t]
          /\ \A u \in Tools \ {t} : at'[u] = at[u] /\ op'[u] = op[u] /\ arg'[u] = arg[u]
      BY <1>0, <2>1, GoesLeaves DEF Steps
    <2>3. \A u \in Tools \ {t} : Same(u)
      BY <1>0, <2>1, <2>2 DEF Same, TypeOK
    <2>4. Fulfilling(t)'
      BY <1>2, <2>2 DEF Fulfilling
    <2>5. Settled' => Settled
      BY <2>1 DEF Settled
    <2>6. Here(t) \subseteq Here(t)'
      BY <1>1, <1>2, <2>2 DEF Here, Owing
    <2> QED
      BY <2>1, <2>2, <2>3, <2>4, <2>5, <2>6, QuietStep
  <1>3. CASE Ends(t) /\ op[t] # "revoke" /\ ~(op[t] = "sync" /\ alone[t])
    <2>1. Over(t) /\ alone' = alone /\ amiss' = amiss
      BY <1>3 DEF Ends, Records
    <2>2. Settled' => Settled
      BY <2>1 DEF Settled
    <2>3. Settled' => \A r \in Active : r \in Here(t) => r \in policy'.groups
      BY <1>0, <1>1, <1>3, <2>2 DEF Fulfilling, Here, Owing
    <2> QED
      BY <2>1, <2>2, <2>3, OverStep
  <1>4. CASE Ends(t) /\ op[t] = "sync" /\ alone[t]
    <2>1. Over(t) /\ alone' = alone
      BY <1>4 DEF Ends, Records
    <2>2. Idles(t) /\ \A u \in Tools \ {t} : Same(u) /\ op[u] = "none"
      BY <1>0, <1>4, <2>1, OverLeaves DEF EInv, IInv, AloneIsAlone
    <2>3. \A u \in Tools : op'[u] = "none"
      BY <2>2 DEF Idles, Same
    <2>4. Active' \subseteq policy'.groups
      BY <1>0, <1>1, <1>4 DEF Fulfilling, Active
    <2>5. Covered' /\ SyncApart' /\ \A u \in Tools : Fulfilling(u)'
      BY <2>3, <2>4 DEF Covered, SyncApart, Fulfilling
    <2> QED
      BY <2>5 DEF EInv
  <1> QED
    BY <1>2, <1>3, <1>4

LEMMA ETailnet ==
    ASSUME EInv, IInv', NEW t \in Tools, Tailnet(t)
    PROVE  EInv'
  <1>0. /\ TypeOK /\ Fulfilling(t) /\ at[t] \in {"read", "write"}
        /\ UNCHANGED <<uid, live, roles>>
    BY DEF EInv, IInv, Tailnet, Reads, NothingToWrite, Refused, WritesPolicy, Conflicts,
           TailnetCallFails, Ready, logto
  <1>1. CASE Reads(t) \/ (Conflicts(t) /\ ~retried[t])
    <2>1. PICK step \in {"read", "write"} : Goes(t, step)
      BY <1>1 DEF Reads, Conflicts
    <2>2. UNCHANGED <<op, arg, todo, held, saw, alone, policy, amiss>>
      BY <1>1 DEF Reads, Conflicts
    <2>3. /\ at'[t] = step /\ op'[t] = op[t] /\ arg'[t] = arg[t]
          /\ \A u \in Tools \ {t} : at'[u] = at[u] /\ op'[u] = op[u] /\ arg'[u] = arg[u]
      BY <1>0, <2>1, <2>2, GoesLeaves DEF Steps
    <2>4. \A u \in Tools \ {t} : base'[u] = base[u]
      BY <1>0, <1>1 DEF TypeOK, Reads, Conflicts
    <2>5. \A u \in Tools \ {t} : Same(u)
      BY <2>2, <2>3, <2>4 DEF Same
    <2>6. (Settled' <=> Settled) /\ Here(t)' = Here(t) /\ Active' = Active
      BY <1>0, <2>2, <2>3 DEF Settled, Here, Owing, Active
    <2>7. Fulfilling(t)'
      BY <1>0, <2>2, <2>3, <2>6 DEF Fulfilling
    <2> QED
      BY <1>0, <2>2, <2>3, <2>5, <2>6, <2>7, QuietStep
  <1>2. CASE NothingToWrite(t) \/ WritesPolicy(t)
    <2>1. policy' = Mutated(t, policy)
      BY <1>2 DEF NothingToWrite, WritesPolicy
    <2>2. \/ op[t] # "revoke" /\ Ends(t)
          \/ /\ op[t] = "revoke" /\ Goes(t, "lookup")
             /\ UNCHANGED <<op, arg, todo, saw, held, alone, amiss>>
             /\ base' = [base EXCEPT ![t] = Empty]
      BY <1>2 DEF NothingToWrite, TailnetDone, WritesPolicy
    <2> QED
      BY <1>0, <2>1, <2>2, ETailnetDone
  <1>3. CASE Refused(t) \/ TailnetCallFails(t) \/ (Conflicts(t) /\ retried[t])
    BY <1>0, <1>3, ETailnetFails DEF Refused, TailnetCallFails, Conflicts
  <1> QED
    BY <1>1, <1>2, <1>3 DEF Tailnet

LEMMA EReading ==
    ASSUME EInv, IInv', NEW t \in Tools,
           \/ Checks(t) \/ Resends(t) \/ LooksUp(t) \/ Vets(t) \/ RolesDone(t) \/ UserMoved(t)
           \/ ListsRoles(t) \/ RolesRemoved(t) \/ Closes(t) \/ ListsUsers(t) \/ Wants(t) \/ Picks(t)
    PROVE  EInv'
  <1>0. /\ TypeOK /\ Fulfilling(t) /\ at \in [Tools -> Steps]
        /\ UNCHANGED <<logto, uid, live, roles, policy, alone>> /\ Active' = Active
    BY DEF EInv, IInv, TypeOK, Checks, Resends, LooksUp, Vets, RolesDone, UserMoved, ListsRoles,
           RolesRemoved, Closes, ListsUsers, Wants, Picks, Quiet, GivesUp, logto, Active
  <1>1. CASE GivesUp(t)
    BY <1>0, <1>1, ShortStep DEF GivesUp, Records
  <1>2. CASE Resends(t) \/ Closes(t)
    <2>1. Over(t) /\ amiss' = amiss /\ at[t] \in {"resend", "close"}
      BY <1>2 DEF Resends, Closes, Records, Quiet, Ready
    <2>2. op[t] = "resend" \/ (op[t] = "revoke" /\ at[t] = "close")
      BY <1>0, <2>1, KindOf
    <2>3. Settled' => Settled
      BY <2>1 DEF Settled
    <2>4. Settled => \A r \in Active : r \in Here(t) => r \in policy'.groups
      BY <1>0, <2>2 DEF Fulfilling, Here, Owing
    <2> QED
      BY <1>0, <2>1, <2>3, <2>4, OverStep
  <1>3. CASE ~GivesUp(t) /\ ~Resends(t) /\ ~Closes(t)
    <2>0. amiss' = amiss /\ UNCHANGED <<op, arg, base>> /\ ~UserMoved(t)
      BY <1>3 DEF Checks, LooksUp, Vets, RolesDone, UserMoved, ListsRoles, RolesRemoved,
                  ListsUsers, Wants, Picks, Quiet
    <2>s. (Settled' <=> Settled) /\ op'[t] = op[t] /\ arg'[t] = arg[t]
      BY <2>0 DEF Settled
    <2>1. CASE Checks(t) \/ Vets(t) \/ RolesDone(t)
      <3>1. PICK step \in {"lookup", "unsuspend", "read"} : Goes(t, step)
        BY <1>3, <2>1 DEF Checks, Vets, RolesDone
      <3>2. UNCHANGED <<todo, saw, held>> /\ op[t] = "invite"
        BY <1>0, <1>3, <2>1, KindOf DEF Checks, Vets, RolesDone, Ready
      <3>3. Fulfilling(t)'
        BY <1>0, <2>s, <3>2 DEF Fulfilling
      <3> QED
        BY <1>0, <2>0, <2>s, <3>1, <3>2, <3>3, OnStep DEF Steps
    <2>2. CASE LooksUp(t)
      <3>1. /\ UNCHANGED <<todo, held>> /\ at[t] = "lookup"
            /\ saw' = [saw EXCEPT ![t] = [id |-> uid, live |-> live]]
        BY <2>2 DEF LooksUp, Ready
      <3>2. op[t] \in {"invite", "revoke"} /\ \A u \in Tools \ {t} : saw'[u] = saw[u]
        BY <1>0, <3>1, KindOf DEF TypeOK
      <3>3. PICK step \in {"close", "list", "create", "vet", "role"} :
              /\ Goes(t, step)
              /\ op[t] = "revoke" => step = "list" \/ (step = "close" /\ uid = 0)
        <4>1. CASE op[t] = "revoke"
          <5>1. (Goes(t, "close") /\ uid = 0) \/ Goes(t, "list")
            BY <2>2, <4>1 DEF LooksUp
          <5> QED
            BY <5>1
        <4>2. CASE op[t] = "invite"
          <5>1. Goes(t, "create") \/ Goes(t, "vet") \/ Goes(t, "role")
            BY <2>2, <4>2 DEF LooksUp
          <5> QED
            BY <4>2, <5>1
        <4> QED
          BY <3>2, <4>1, <4>2
      <3>4. at'[t] = step
        BY <1>0, <3>3 DEF Goes
      <3>5. Fulfilling(t)'
        <4>1. op[t] = "revoke" /\ step = "close" => Active = {}
          BY <3>3 DEF Active
        <4> QED
          BY <1>0, <2>s, <3>1, <3>2, <3>3, <3>4, <4>1 DEF Fulfilling
      <3> QED
        BY <1>0, <2>0, <2>s, <3>1, <3>2, <3>3, <3>5, OnStep DEF Steps
    <2>3. CASE ListsRoles(t)
      <3>1. /\ Goes(t, "remove") /\ UNCHANGED saw /\ at[t] = "list"
            /\ held' = [held EXCEPT ![t] = roles] /\ todo' = [todo EXCEPT ![t] = arg[t] \cap roles]
        BY <2>3 DEF ListsRoles, Ready
      <3>2. op[t] = "revoke" /\ at'[t] = "remove"
        BY <1>0, <3>1, KindOf DEF Goes
      <3>3. /\ todo'[t] = arg[t] \cap roles
            /\ \A u \in Tools \ {t} : held'[u] = held[u] /\ todo'[u] = todo[u]
        BY <1>0, <3>1 DEF TypeOK
      <3>4. Fulfilling(t)'
        BY <1>0, <2>s, <3>2, <3>3 DEF Fulfilling
      <3> QED
        BY <1>0, <2>0, <2>s, <3>1, <3>3, <3>4, OnStep DEF Steps
    <2>4. CASE RolesRemoved(t)
      <3>1. PICK step \in {"suspend", "close"} : Goes(t, step)
        BY <2>4 DEF RolesRemoved
      <3>2. UNCHANGED <<todo, held, saw>> /\ at[t] = "remove" /\ todo[t] = {}
        BY <2>4 DEF RolesRemoved, Ready
      <3>3. op[t] = "revoke" /\ at'[t] = step
        BY <1>0, <3>1, <3>2, KindOf DEF Goes
      <3>4. Settled => roles \cap arg[t] = {}
        BY <1>0, <3>2, <3>3 DEF Fulfilling
      <3>5. Fulfilling(t)'
        BY <1>0, <2>s, <3>3, <3>4 DEF Fulfilling, Active
      <3> QED
        BY <1>0, <2>0, <2>s, <3>1, <3>2, <3>5, OnStep DEF Steps
    <2>5. CASE ListsUsers(t)
      <3>1. /\ Goes(t, "roles") /\ UNCHANGED <<todo, held>> /\ at[t] = "users"
            /\ saw' = [saw EXCEPT ![t] = [id |-> uid, live |-> live]]
        BY <2>5 DEF ListsUsers, Ready
      <3>2. op[t] = "sync" /\ at'[t] = "roles"
        BY <1>0, <3>1, KindOf DEF Goes
      <3>3. saw'[t].id = uid /\ saw'[t].live = live /\ \A u \in Tools \ {t} : saw'[u] = saw[u]
        BY <1>0, <3>1 DEF TypeOK
      <3>4. Fulfilling(t)'
        BY <1>0, <2>s, <3>2, <3>3 DEF Fulfilling
      <3> QED
        BY <1>0, <2>0, <2>s, <3>1, <3>3, <3>4, OnStep DEF Steps
    <2>6. CASE Wants(t)
      <3>1. /\ Goes(t, "read") /\ UNCHANGED <<todo, saw>> /\ at[t] = "roles"
            /\ held' = [held EXCEPT ![t] = IF saw[t].id # 0 /\ saw[t].live THEN roles ELSE {}]
        BY <2>6 DEF Wants, Ready
      <3>2. op[t] = "sync" /\ at'[t] = "read"
        BY <1>0, <3>1, KindOf DEF Goes
      <3>3. /\ held'[t] = IF saw[t].id # 0 /\ saw[t].live THEN roles ELSE {}
            /\ \A u \in Tools \ {t} : held'[u] = held[u]
        BY <1>0, <3>1 DEF TypeOK
      <3>4. Settled \/ alone[t] => held'[t] = Active
        BY <1>0, <3>1, <3>2, <3>3 DEF Fulfilling, Active
      <3>5. Fulfilling(t)'
        BY <1>0, <2>s, <3>2, <3>4 DEF Fulfilling
      <3> QED
        BY <1>0, <2>0, <2>s, <3>1, <3>3, <3>5, OnStep DEF Steps
    <2>7. CASE Picks(t)
      <3>1. Goes(t, "call") /\ UNCHANGED <<todo, saw, held>> /\ at[t] = "pick"
        BY <1>3, <2>7 DEF Picks, Ready
      <3>2. op[t] = "undo"
        BY <1>0, <3>1, KindOf
      <3>3. Fulfilling(t)'
        BY <2>s, <3>2 DEF Fulfilling
      <3> QED
        BY <1>0, <2>0, <2>s, <3>1, <3>3, OnStep DEF Steps
    <2> QED
      BY <1>3, <2>0, <2>1, <2>2, <2>3, <2>4, <2>5, <2>6, <2>7
  <1> QED
    BY <1>1, <1>2, <1>3

\* An invite's writes: a new user has no role, an enabled one none or one the next
\* sync has to see to, and a role it grants is one whose group it owes.
LEMMA EInvite ==
    ASSUME EInv, IInv', NEW t \in Tools,
           \/ CreatesUser(t) \/ Unsuspends(t)
           \/ \E r \in Rights : CreatesRole(t, r) \/ Grants(t, r)
    PROVE  EInv'
  <1>0. /\ TypeOK /\ Fulfilling(t) /\ op[t] = "invite" /\ at \in [Tools -> Steps]
        /\ UNCHANGED <<policy, alone, op, arg, held, base>> /\ (Settled' => Settled)
    BY KindOf DEF EInv, IInv, TypeOK, CreatesUser, Unsuspends, CreatesRole, Grants, Ready, Quiet,
                  command, Settled
  <1>1. \A u \in Tools \ {t} :
           /\ Settled => op[u] \notin {"revoke", "sync"}
           /\ alone[u] => op[u] = "none"
    BY <1>0 DEF EInv, IInv, Apart, AloneIsAlone, SyncApart, Settled, Clean
  <1>2. ASSUME \A u \in Tools \ {t} : Same(u)
        PROVE  SyncApart' /\ \A u \in Tools \ {t} : Fulfilling(u)'
    <2>1. SyncApart'
      BY <1>0 DEF EInv, SyncApart
    <2>2. \A u \in Tools \ {t} : Fulfilling(u)'
      BY <1>0, <1>1, <1>2, StaysFulfilling DEF EInv
    <2> QED
      BY <2>1, <2>2
  <1>3. CASE CreatesUser(t) \/ Unsuspends(t)
    <2>1. Goes(t, "role") /\ UNCHANGED todo
      BY <1>3 DEF CreatesUser, Unsuspends
    <2>2. /\ at'[t] = "role"
          /\ \A u \in Tools \ {t} : at'[u] = at[u]
      BY <1>0, <2>1, GoesLeaves DEF Steps
    <2>3. \A u \in Tools \ {t} : saw'[u] = saw[u]
      BY <1>0, <1>3 DEF TypeOK, CreatesUser, Unsuspends
    <2>4. \A u \in Tools \ {t} : Same(u)
      BY <1>0, <2>1, <2>2, <2>3 DEF Same
    <2>5. Settled' => Active' = {}
      BY <1>3 DEF CreatesUser, Unsuspends, Active, Settled
    <2>6. Covered'
      BY <2>5 DEF Covered
    <2>7. Fulfilling(t)'
      BY <1>0, <2>1 DEF Fulfilling
    <2> QED
      BY <1>2, <2>4, <2>6, <2>7 DEF EInv
  <1>4. ASSUME NEW r \in Rights, CreatesRole(t, r) \/ Grants(t, r)
        PROVE  EInv'
    <2>1. /\ UNCHANGED <<at, saw, uid, live>>
          /\ todo' = todo \/ todo' = [todo EXCEPT ![t] = @ \ {r}]
          /\ roles' = roles \/ (roles' = roles \cup {r} /\ r \in todo[t])
      BY <1>4 DEF CreatesRole, Grants, command
    <2>2. todo'[t] \subseteq todo[t] /\ \A u \in Tools \ {t} : Same(u)
      BY <1>0, <2>1 DEF TypeOK, Same
    <2>3. Fulfilling(t)' /\ todo[t] \subseteq arg[t]
      BY <1>0, <2>2 DEF Fulfilling
    <2>4. Here(t)' = Here(t) /\ arg[t] \subseteq Here(t)
      BY <1>0 DEF Here, Owing
    <2>5. \A x \in Active' : x \in Active \/ x \in Here(t)'
      BY <2>1, <2>3, <2>4 DEF Active
    <2>6. Covered'
      BY <1>0, <2>2, <2>4, <2>5, CoveredStays DEF EInv
    <2> QED
      BY <1>2, <2>2, <2>3, <2>6 DEF EInv
  <1> QED
    BY <1>3, <1>4

\* A revoke's writes take from who is active.
LEMMA ERevoke ==
    ASSUME EInv, IInv', NEW t \in Tools,
           Suspends(t) \/ \E r \in Rights : RemovesRole(t, r)
    PROVE  EInv'
  <1>0. /\ TypeOK /\ Fulfilling(t) /\ op[t] = "revoke" /\ at \in [Tools -> Steps]
        /\ UNCHANGED <<policy, alone, op, uid, arg, held, saw, base>> /\ (Settled' <=> Settled)
    BY KindOf DEF EInv, IInv, TypeOK, Suspends, RemovesRole, Ready, Quiet, Settled
  <1>1. \A u \in Tools \ {t} :
           /\ Settled => op[u] # "sync"
           /\ alone[u] => op[u] = "none"
    BY <1>0 DEF EInv, IInv, Apart, AloneIsAlone, Settled, Clean
  <1>2. roles' \subseteq roles /\ Active' \subseteq Active
    BY <1>0 DEF Suspends, RemovesRole, Active
  <1>3. \A u \in Tools \ {t} : Same(u)
    <2>1. CASE Suspends(t)
      <3>1. Goes(t, "close") /\ UNCHANGED todo
        BY <2>1 DEF Suspends
      <3>2. \A u \in Tools \ {t} : at'[u] = at[u]
        BY <1>0, <3>1, GoesLeaves DEF Steps
      <3> QED
        BY <1>0, <3>1, <3>2 DEF Same
    <2>2. CASE \E r \in Rights : RemovesRole(t, r)
      BY <1>0, <2>2 DEF RemovesRole, Same, TypeOK
    <2> QED
      BY <2>1, <2>2
  <1>4. \A u \in Tools \ {t} : Fulfilling(u)'
    BY <1>0, <1>1, <1>2, <1>3, StaysFulfilling DEF EInv
  <1>5. Fulfilling(t)'
    <2>1. CASE Suspends(t)
      <3>1. at'[t] = "close" /\ Active' = {}
        BY <1>0, <2>1 DEF Suspends, Goes, Active
      <3> QED
        BY <1>0, <3>1 DEF Fulfilling
    <2>2. ASSUME NEW r \in Rights, RemovesRole(t, r)
          PROVE  Fulfilling(t)'
      <3>1. at'[t] = "remove" /\ at[t] = "remove" /\ roles' = roles \ {r} /\ todo'[t] = todo[t] \ {r}
        BY <1>0, <2>2 DEF RemovesRole, TypeOK, Ready
      <3> QED
        BY <1>0, <3>1 DEF Fulfilling
    <2> QED
      BY <2>1, <2>2
  <1>6. SyncApart'
    BY <1>0 DEF EInv, SyncApart
  <1>7. Covered'
    <2>1. Here(t)' = Here(t)
      BY <1>0 DEF Here, Owing
    <2> QED
      BY <1>0, <1>2, <1>3, <2>1, CoveredStays DEF EInv
  <1> QED
    BY <1>4, <1>5, <1>6, <1>7 DEF EInv

\* In an unsettled state there is only an undisturbed sync to answer for.
LEMMA UnsettledStep ==
    ASSUME EInv, IInv', ~Settled', \A u \in Tools : Same(u) \/ Idles(u),
           \A u \in Tools : ~alone'[u] \/ op'[u] # "sync"
    PROVE  EInv'
  <1>1. ASSUME NEW u \in Tools
        PROVE  Fulfilling(u)'
    <2>1. CASE Idles(u)
      BY <2>1, IdleFulfils
    <2>2. CASE Same(u)
      <3>1. op'[u] = "invite" => todo'[u] \subseteq arg'[u]
        BY <2>2 DEF EInv, Fulfilling, Same
      <3> QED
        BY <3>1 DEF Fulfilling
    <2> QED
      BY <2>1, <2>2
  <1> QED
    BY <1>1 DEF EInv, Covered, SyncApart

LEMMA EUndo ==
    ASSUME EInv, IInv', NEW t \in Tools, Undoes(t)
    PROVE  EInv'
  <1>1. /\ Over(t) /\ alone' = alone /\ at[t] = "call" /\ Inverts(ledger[pick[t]])
    BY DEF Undoes, Ready
  <1>2. op[t] = "undo"
    BY <1>1, KindOf DEF EInv, IInv
  <1>3. ~Settled'
    <2>1. ~Clean
      BY <1>2 DEF EInv, IInv, Apart
    <2>2. amiss \subseteq amiss'
      BY <1>1 DEF Inverts
    <2> QED
      BY <2>1, <2>2 DEF Clean, Settled
  <1>4. Idles(t) /\ \A u \in Tools \ {t} : Same(u)
    BY <1>1, OverLeaves DEF EInv, IInv
  <1>5. \A u \in Tools : ~alone'[u] \/ op'[u] # "sync"
    BY <1>1, <1>2, <1>4 DEF EInv, IInv, AloneIsAlone, Idles, Same
  <1> QED
    BY <1>3, <1>4, <1>5, UnsettledStep

LEMMA EOwner ==
    ASSUME EInv, IInv', Owner
    PROVE  EInv'
  <1>1. alone' = [t \in Tools |-> FALSE] /\ UNCHANGED <<uid, command>>
    BY DEF Owner, FlipsSuspension, FlipsRole, EditsPolicy, Edits
  <1>2. \A u \in Tools : Same(u) /\ ~alone'[u]
    BY <1>1 DEF Same, command
  <1>3. CASE ~Settled'
    BY <1>2, <1>3, UnsettledStep
  <1>4. CASE Settled'
    <2>1. PICK groups \in SUBSET Rights, open \in BOOLEAN : EditsPolicy(groups, open)
      BY <1>4 DEF Owner, FlipsSuspension, FlipsRole, Settled
    <2>2. groups = policy.groups
      BY <1>4, <2>1 DEF EditsPolicy, Settled
    <2>3. policy'.groups = policy.groups /\ UNCHANGED <<live, roles, amiss>>
      BY <2>1, <2>2 DEF EditsPolicy
    <2>4. Active' = Active /\ (Settled' <=> Settled)
      BY <1>1, <2>3 DEF Active, Settled
    <2>5. \A u \in Tools : Fulfilling(u)'
      BY <1>1, <1>2, <2>3, <2>4, StaysFulfilling DEF EInv
    <2>6. Covered' /\ SyncApart'
      BY <1>1, <2>3, <2>4 DEF EInv, Covered, SyncApart, Owing, command
    <2> QED
      BY <2>5, <2>6 DEF EInv
  <1> QED
    BY <1>3, <1>4

LEMMA EInvStep == EInv /\ [Next]_vars => EInv'
  <1> SUFFICES ASSUME EInv, [Next]_vars
               PROVE  EInv'
    OBVIOUS
  <1>0. IInv'
    BY IInvStep DEF EInv
  <1>1. ASSUME NEW t \in Tools, Commands(t)
        PROVE  EInv'
    <2>1. PICK kind \in Kinds \ {"none"}, rights \in SUBSET Rights : Begins(t, kind, rights)
      BY <1>1 DEF Commands, Kinds
    <2> QED
      BY <1>0, <2>1, EBegins
  <1>2. ASSUME NEW t \in Tools, Tailnet(t)
        PROVE  EInv'
    BY <1>0, <1>2, ETailnet
  <1>3. ASSUME NEW t \in Tools, Logto(t)
        PROVE  EInv'
    BY <1>0, <1>3, EReading, EInvite, ERevoke, EUndo DEF Logto
  <1>4. ASSUME NEW t \in Tools, Fails(t) \/ Dies(t)
        PROVE  EInv'
    <2>1. /\ Over(t) /\ UNCHANGED <<uid, live, roles, policy, alone>>
          /\ amiss' = amiss \cup Lost(t)
      BY <1>4 DEF Fails, Dies, GivesUp, Records, logto
    <2> QED
      BY <1>0, <2>1, ShortStep
  <1>5. CASE Owner
    BY <1>0, <1>5, EOwner
  <1>6. CASE UNCHANGED vars \/ \E t \in Tools : Appends(t)
    <2>1. UNCHANGED <<uid, live, roles, policy, alone, command>> /\ amiss \subseteq amiss'
      BY <1>6 DEF vars, Appends, logto
    <2>2. (Settled' => Settled) /\ Active' = Active /\ \A u \in Tools : Same(u)
      BY <2>1 DEF Settled, Active, Same, command
    <2>3. \A u \in Tools : Fulfilling(u)'
      BY <2>1, <2>2, StaysFulfilling DEF EInv
    <2>4. Covered' /\ SyncApart'
      BY <2>1, <2>2 DEF EInv, Covered, SyncApart, Owing, command
    <2> QED
      BY <1>0, <2>3, <2>4 DEF EInv
  <1> QED
    BY <1>1, <1>2, <1>3, <1>4, <1>5, <1>6 DEF Next

LEMMA EInvAlways == Spec => []EInv
  BY EInvInit, EInvStep, PTL DEF Spec

\* The tailnet's groups agree with the roles: at every moment nobody is let in
\* beyond them, and when no command runs everybody is, but for what the property
\* excuses (people.py, tailnet.py).
THEOREM TheGroupsAgree == Spec => []AccessAgrees
  <1>1. EInv => AccessAgrees
    <2> SUFFICES ASSUME EInv
                 PROVE  NobodyBeyond /\ EverybodyIn
      BY DEF AccessAgrees
    <2>1. NobodyBeyond
      BY DEF EInv, IInv
    <2>2. ASSUME Busy = {}, Settled
          PROVE  Active \subseteq policy.groups
      <3>1. \A t \in Tools : op[t] = "none"
        BY <2>2, KindOf DEF EInv, IInv, Busy
      <3>2. \A t \in Tools : Owing(t) = {}
        BY <3>1 DEF Owing
      <3> QED
        BY <2>2, <3>2 DEF EInv, Covered
    <2> QED
      BY <2>1, <2>2 DEF EverybodyIn, Settled
  <1> QED
    BY <1>1, EInvAlways, PTL

-----------------------------------------------------------------------------
(* What the ledger holds and what each tool is about to write to it           *)

Acts    == Undoable \cup {"undo", "people-request", "people-revoke"}
Entries == [n : Nat, act : Acts, user : Nat, role : Nat, of : Nat]
Notes   == [act : Acts \cup {"none"}, user : Nat, role : Nat, of : Nat, from : Nat]

\* Ids of users and roles are given out once; a role that is held exists.
Ids ==
    /\ uid <= issued
    /\ rid \in [Rights -> Nat]
    /\ \A r \in Rights : rid[r] <= issued /\ (r \in roles => rid[r] # 0)
    /\ \A r, q \in Rights : rid[r] = rid[q] /\ rid[r] # 0 => r = q

\* An entry names what has been there.
Names(e) ==
    /\ e.user <= issued /\ e.role <= issued
    /\ e.act \in {"suspend-user", "unsuspend-user"} => e.user # 0 /\ e.role = 0
    /\ e.act \in {"assign-role", "remove-role"} => e.role # 0

\* An undo's entry has the number of the line it reverses.
Reverses(e) == e.act = "undo" => e.of \in DOMAIN ledger /\ ledger[e.of].act \in Undoable

\* But for two tools that write at once, the lines are numbered as they stand.
Lines ==
    /\ ledger \in Seq(Entries)
    /\ \A i \in DOMAIN ledger : Names(ledger[i])
    /\ "raced" \notin amiss =>
          \A i \in DOMAIN ledger : ledger[i].n = i /\ Reverses(ledger[i])

NoteSound(t) ==
    /\ Names(note[t])
    /\ note[t] = Nothing \/ note[t].act \in Acts
    /\ "raced" \notin amiss /\ note[t] # Nothing =>
          note[t].from = Len(ledger) + 1 /\ Reverses(note[t])
    /\ note[t].act = "suspend-user" => at[t] = "close" /\ changed[t]

StepSound(t) ==
    /\ at[t] \in {"vet", "unsuspend"} => note[t] = Nothing
    /\ at[t] \in {"vet", "unsuspend", "list", "remove", "suspend"} => saw[t].id # 0
    /\ saw[t].id <= issued
    /\ at[t] = "call" => pick[t] \in DOMAIN ledger /\ ledger[pick[t]].act \in Undoable

Kept ==
    /\ note \in [Tools -> Notes]
    /\ changed \in [Tools -> BOOLEAN]
    /\ pick \in [Tools -> Nat]

LInv ==
    /\ TypeOK
    /\ Kept
    /\ Ids
    /\ Lines
    /\ \A t \in Tools : NoteSound(t) /\ StepSound(t)

LEMMA LInvInit == Init => LInv
  <1> SUFFICES ASSUME Init
               PROVE  LInv
    OBVIOUS
  <1>1. TypeOK
    BY TypeInit
  <1>2. Kept
    <2>1. Nothing \in Notes
      BY DEF Nothing, Notes
    <2> QED
      BY <2>1 DEF Init, Kept
  <1>3. Ids
    BY DEF Init, Ids
  <1>4. Lines
    BY DEF Init, Lines
  <1>5. \A t \in Tools : NoteSound(t)
    BY DEF Init, NoteSound, Names, Nothing
  <1>6. \A t \in Tools : StepSound(t)
    BY DEF Init, StepSound, NoUser
  <1> QED
    BY <1>1, <1>2, <1>3, <1>4, <1>5, <1>6 DEF LInv

-----------------------------------------------------------------------------
(* The steps of a tool                                                        *)

\* What a tool's step leaves of another.
Untouched(u) ==
    /\ at'[u] = at[u] /\ op'[u] = op[u] /\ note'[u] = note[u] /\ saw'[u] = saw[u]
    /\ changed'[u] = changed[u] /\ pick'[u] = pick[u]

\* What is noted as amiss stays noted, but for what a sync mends.
Remembers == amiss \ {"drift", "lag"} \subseteq amiss'

\* The step of t writes no line; n is the entry it owes after it.
Leaves(t, n) ==
    /\ ledger' = ledger /\ issued <= issued' /\ issued' \in Nat
    /\ Remembers
    /\ note' = [note EXCEPT ![t] = n]
    /\ changed' \in [Tools -> BOOLEAN] /\ pick' \in [Tools -> Nat]
    /\ \A u \in Tools \ {t} : Untouched(u)

Told == Undoable \cup {"undo"}    \* the entries that tell who has what
Flips == {"suspend-user", "unsuspend-user"}

\* t has still to write the closing entry of a revoke.
Concludes(t) == (at[t] = "close" /\ changed[t]) \/ note[t].act = "people-revoke"

\* A step of t that changes neither the user nor a suspension, and loses nothing unnoted.
Besides(t) ==
    /\ UNCHANGED <<uid, live, by, ledger>> /\ Remembers
    /\ \A u \in Tools \ {t} : Untouched(u)
    /\ note'[t].act \notin Flips
    /\ note[t].act \in Told => "unlogged" \in amiss'
    /\ Concludes(t) => note'[t].act = "people-revoke" \/ "parted" \in amiss'
    /\ at'[t] = "unsuspend" => SuspendedByRevoke(saw'[t].id)

\* One that changes no role either.
Passes(t) == Besides(t) /\ UNCHANGED <<roles, rid>> /\ note'[t].act \notin Told

\* A step of t that finds nothing owed and lets the others be.
Wrote(t) ==
    /\ ledger' = ledger /\ Remembers
    /\ \A u \in Tools \ {t} : Untouched(u)
    /\ note[t] = Nothing /\ at[t] # "close" /\ at'[t] # "unsuspend"

LEMMA SoundStays ==
    ASSUME LInv, NEW u \in Tools, Untouched(u), ledger' = ledger, issued <= issued', issued' \in Nat,
           Remembers
    PROVE  NoteSound(u)' /\ StepSound(u)'
  <1>1. issued \in Nat /\ note[u] \in Notes /\ saw[u].id \in Nat
    BY DEF LInv, TypeOK, Kept
  <1>2. note[u].user \in Nat /\ note[u].role \in Nat
    BY <1>1 DEF Notes
  <1>3. "raced" \notin amiss' => "raced" \notin amiss
    BY DEF Remembers
  <1>4. NoteSound(u)'
    BY <1>1, <1>2, <1>3 DEF LInv, NoteSound, Names, Reverses, Untouched
  <1>5. StepSound(u)'
    BY <1>1 DEF LInv, StepSound, Untouched
  <1> QED
    BY <1>4, <1>5

LEMMA LinesStay ==
    ASSUME LInv, ledger' = ledger, issued <= issued', issued' \in Nat, Remembers
    PROVE  Lines'
  <1>1. issued \in Nat /\ ("raced" \notin amiss' => "raced" \notin amiss)
    BY DEF LInv, TypeOK, Remembers
  <1>2. ASSUME NEW i \in DOMAIN ledger
        PROVE  Names(ledger[i])'
    <2>1. ledger[i] \in Entries /\ Names(ledger[i])
      BY DEF LInv, Lines
    <2>2. ledger[i].user \in Nat /\ ledger[i].role \in Nat
      BY <2>1 DEF Entries
    <2> QED
      BY <2>1, <2>2 DEF Names, LInv, TypeOK
  <1>3. ASSUME "raced" \notin amiss', NEW i \in DOMAIN ledger
        PROVE  ledger'[i].n = i /\ Reverses(ledger[i])'
    <2>1. ledger[i].n = i /\ Reverses(ledger[i])
      BY <1>1, <1>3 DEF LInv, Lines
    <2> QED
      BY <2>1 DEF Reverses
  <1>4. ledger' \in Seq(Entries)
    BY DEF LInv, Lines
  <1> QED
    BY <1>2, <1>3, <1>4 DEF Lines

\* A step that leaves the ledger alone keeps the lines and every other tool sound.
LEMMA LeavesSound ==
    ASSUME LInv, TypeOK', NEW t \in Tools, NEW n \in Notes, Leaves(t, n), Ids',
           NoteSound(t)', StepSound(t)'
    PROVE  LInv'
  <1>1. Kept'
    BY DEF LInv, Kept, Leaves
  <1>2. \A u \in Tools \ {t} : NoteSound(u)' /\ StepSound(u)'
    BY SoundStays DEF Leaves
  <1>3. Lines'
    BY LinesStay DEF Leaves
  <1> QED
    BY <1>1, <1>2, <1>3 DEF LInv

\* The end of a command, whatever it owes.
LEMMA OverSound ==
    ASSUME LInv, NEW t \in Tools, NEW n \in Notes, Over(t), issued' \in Nat,
           note' = [note EXCEPT ![t] = n]
    PROVE  /\ \A u \in Tools \ {t} : Untouched(u)
           /\ changed' \in [Tools -> BOOLEAN] /\ pick' \in [Tools -> Nat]
           /\ StepSound(t)' /\ at'[t] = "idle" /\ note'[t] = n
  <1>1. /\ at' = [at EXCEPT ![t] = "idle"] /\ op' = [op EXCEPT ![t] = "none"]
        /\ saw' = [saw EXCEPT ![t] = NoUser]
        /\ changed' = [changed EXCEPT ![t] = FALSE] /\ pick' = [pick EXCEPT ![t] = 0]
    BY DEF Over, Goes
  <1>2. /\ at \in [Tools -> Steps] /\ op \in [Tools -> Kinds]
        /\ saw \in [Tools -> [id : Nat, live : BOOLEAN]]
        /\ changed \in [Tools -> BOOLEAN] /\ pick \in [Tools -> Nat] /\ note \in [Tools -> Notes]
    BY DEF LInv, TypeOK, Kept
  <1>3. at'[t] = "idle" /\ saw'[t] = NoUser /\ note'[t] = n
    BY <1>1, <1>2
  <1>4. StepSound(t)'
    BY <1>3 DEF StepSound, NoUser
  <1> QED
    BY <1>1, <1>2, <1>3, <1>4 DEF Untouched

\* A person's request, the closing entry of a revoke and nothing at all name nobody.
Nobodys(n) ==
    \/ n = Nothing
    \/ n = [act |-> "people-request", user |-> 0, role |-> 0, of |-> 0, from |-> Len(ledger) + 1]
    \/ n = [act |-> "people-revoke", user |-> 0, role |-> 0, of |-> 0, from |-> Len(ledger) + 1]

LEMMA LengthIsNat == ledger \in Seq(Entries) => Len(ledger) \in Nat
  OBVIOUS

LEMMA NobodysSound ==
    ASSUME LInv, NEW t \in Tools, NEW n, Nobodys(n), ledger' = ledger, issued' \in Nat,
           note'[t] = n
    PROVE  n \in Notes /\ NoteSound(t)'
  <1>1. Len(ledger) \in Nat
    BY LengthIsNat DEF LInv, Lines
  <1>2. n \in Notes /\ n.act \in {"none", "people-request", "people-revoke"} /\ n.user = 0 /\ n.role = 0
    BY <1>1 DEF Nobodys, Nothing, Notes, Acts, Undoable
  <1>3. n = Nothing \/ (n.act \in Acts /\ n.from = Len(ledger) + 1)
    BY DEF Nobodys, Acts
  <1>4. Names(n)'
    BY <1>2 DEF Names
  <1> QED
    BY <1>2, <1>3, <1>4 DEF NoteSound, Reverses, Names

\* How a command ends.
LEMMA Endings ==
    ASSUME LInv, NEW t \in Tools, ledger' = ledger, issued' = issued,
           \/ Ends(t) \/ GivesUp(t) \/ (Records(t) /\ amiss' = amiss)
           \/ Over(t) /\ note' = [note EXCEPT ![t] = Nothing] /\ Remembers
           \/ Closes(t)
    PROVE  /\ Over(t)
           /\ \E n \in Notes : Nobodys(n) /\ Leaves(t, n)
           /\ NoteSound(t)' /\ StepSound(t)'
  <1>1. Over(t) /\ Remembers /\ issued' \in Nat /\ issued <= issued'
    BY DEF Ends, GivesUp, Records, Closes, Remembers, Quiet, LInv, TypeOK
  <1>2. PICK n : Nobodys(n) /\ note' = [note EXCEPT ![t] = n]
    <2>1. CASE Over(t) /\ note' = [note EXCEPT ![t] = Nothing]
      BY <2>1 DEF Nobodys
    <2>2. CASE Records(t)
      BY <2>1, <2>2 DEF Records, Owes, Nobodys
    <2>3. CASE Closes(t)
      <3>1. CASE changed[t]
        BY <2>3, <3>1 DEF Closes, Owes, Nobodys
      <3>2. CASE ~changed[t]
        <4>1. note' = note /\ note[t] = Nothing
          BY <2>3, <3>2 DEF Closes, Ready
        <4>2. note' = [note EXCEPT ![t] = Nothing]
          BY <4>1 DEF LInv, Kept
        <4> QED
          BY <4>2 DEF Nobodys
      <3> QED
        BY <3>1, <3>2
    <2> QED
      BY <2>1, <2>2, <2>3 DEF Ends, GivesUp
  <1>3. note'[t] = n
    BY <1>2 DEF LInv, Kept
  <1>4. n \in Notes /\ NoteSound(t)'
    BY <1>1, <1>2, <1>3, NobodysSound
  <1>5. /\ \A u \in Tools \ {t} : Untouched(u)
        /\ changed' \in [Tools -> BOOLEAN] /\ pick' \in [Tools -> Nat]
        /\ StepSound(t)'
    BY <1>1, <1>2, <1>4, OverSound
  <1>6. Leaves(t, n)
    BY <1>1, <1>2, <1>5 DEF Leaves
  <1> QED
    BY <1>1, <1>2, <1>4, <1>5, <1>6

\* An entry that t owes for a Logto call on a person or a role that is there.
LEMMA OwesSound ==
    ASSUME LInv, NEW t \in Tools, NEW act \in Acts, NEW user \in Nat, NEW role \in Nat, NEW of \in Nat,
           Owes(t, act, user, role, of), ledger' = ledger, issued' \in Nat,
           user <= issued', role <= issued',
           act \in {"suspend-user", "unsuspend-user"} => user # 0 /\ role = 0,
           act \in {"assign-role", "remove-role"} => role # 0,
           "raced" \notin amiss' /\ act = "undo" => of \in DOMAIN ledger /\ ledger[of].act \in Undoable,
           act = "suspend-user" => at'[t] = "close" /\ changed'[t]
    PROVE  \E n \in Notes :
              /\ note' = [note EXCEPT ![t] = n] /\ note'[t] = n
              /\ n.act = act /\ n.user = user /\ n.role = role /\ n.of = of
              /\ NoteSound(t)'
  <1> DEFINE n == [act |-> act, user |-> user, role |-> role, of |-> of, from |-> Len(ledger) + 1]
  <1>1. Len(ledger) \in Nat
    BY LengthIsNat DEF LInv, Lines
  <1>2. n \in Notes
    BY <1>1 DEF Notes
  <1>3. note' = [note EXCEPT ![t] = n] /\ note'[t] = n
    BY DEF Owes, LInv, Kept
  <1>4. NoteSound(t)'
    <2>1. Names(n)'
      BY DEF Names
    <2>2. "raced" \notin amiss' => Reverses(n)'
      BY DEF Reverses
    <2> QED
      BY <1>3, <2>1, <2>2 DEF NoteSound, Names, Reverses
  <1> QED
    BY <1>2, <1>3, <1>4

LEMMA IdsStay ==
    ASSUME Ids, UNCHANGED <<uid, rid, roles, issued>>
    PROVE  Ids'
  BY DEF Ids

\* A command ends and Logto's ids stay.
LEMMA EndingSound ==
    ASSUME LInv, TypeOK', NEW t \in Tools, ledger' = ledger,
           UNCHANGED <<uid, live, by, rid, roles, issued>>,
           \/ Ends(t) \/ GivesUp(t) \/ (Records(t) /\ amiss' = amiss)
           \/ Over(t) /\ note' = [note EXCEPT ![t] = Nothing] /\ Remembers
           \/ Closes(t),
           (note[t] = Nothing /\ at[t] # "close") \/ Closes(t) \/ Lost(t) \subseteq amiss'
    PROVE  LInv' /\ Passes(t)
  <1>1. PICK n \in Notes : Nobodys(n) /\ Leaves(t, n)
    BY Endings
  <1>2. NoteSound(t)' /\ StepSound(t)' /\ Over(t)
    BY Endings
  <1>3. Ids'
    BY IdsStay DEF LInv
  <1>4. LInv'
    BY <1>1, <1>2, <1>3, LeavesSound
  <1>5. /\ note'[t] = n /\ n.act \in {"none", "people-request", "people-revoke"}
        /\ at'[t] = "idle"
    BY <1>1, <1>2 DEF Leaves, Nobodys, Nothing, LInv, Kept, TypeOK, Over, Goes
  <1>6. note'[t].act \notin Flips \cup Told
    BY <1>5 DEF Flips, Told, Undoable
  <1>7. note[t].act \in Told => "unlogged" \in amiss'
    BY DEF Told, Undoable, Nothing, Closes, Ready, Lost
  <1>8. Concludes(t) => note'[t].act = "people-revoke" \/ "parted" \in amiss'
    <2>1. CASE Lost(t) \subseteq amiss'
      BY <2>1 DEF Concludes, Lost, Closing
    <2>2. CASE note[t] = Nothing /\ at[t] # "close"
      BY <2>2 DEF Concludes, Nothing
    <2>3. CASE Closes(t)
      BY <1>5, <2>3 DEF Concludes, Closes, Ready, Nothing, Owes, LInv, Kept
    <2> QED
      BY <2>1, <2>2, <2>3
  <1> QED
    BY <1>1, <1>4, <1>5, <1>6, <1>7, <1>8 DEF Passes, Besides, Leaves

\* A command goes on and owes nothing.
LEMMA OnSound ==
    ASSUME LInv, TypeOK', NEW t \in Tools, note[t] = Nothing, note' = note, ledger' = ledger,
           UNCHANGED <<uid, live, by, rid, roles, issued>>, Remembers,
           at[t] # "close", at'[t] = "unsuspend" => SuspendedByRevoke(saw'[t].id),
           changed' \in [Tools -> BOOLEAN], pick' \in [Tools -> Nat],
           \A u \in Tools \ {t} : Untouched(u), StepSound(t)'
    PROVE  LInv' /\ Passes(t)
  <1>1. Nothing \in Notes /\ note' = [note EXCEPT ![t] = Nothing]
    <2>1. Nothing \in Notes
      BY DEF Notes, Nothing
    <2>2. note \in [Tools -> Notes]
      BY DEF LInv, Kept
    <2> QED
      BY <2>1, <2>2
  <1>0. issued' \in Nat /\ issued <= issued'
    BY DEF LInv, TypeOK
  <1>2. Leaves(t, Nothing)
    BY <1>0, <1>1 DEF Leaves
  <1>3. NoteSound(t)'
    BY <1>0, NobodysSound DEF Nobodys
  <1>4. Ids'
    BY IdsStay DEF LInv
  <1>5. LInv'
    BY <1>1, <1>2, <1>3, <1>4, LeavesSound
  <1>6. note'[t].act \notin Flips \cup Told /\ note[t].act \notin Told /\ note[t].act # "people-revoke"
    BY DEF Flips, Told, Undoable, Nothing
  <1>7. Passes(t)
    BY <1>2, <1>6 DEF Passes, Besides, Leaves, Concludes
  <1> QED
    BY <1>5, <1>7

LEMMA LBegins ==
    ASSUME LInv, TypeOK', NEW t \in Tools, NEW kind \in Kinds \ {"none"}, NEW rights \in SUBSET Rights,
           Begins(t, kind, rights)
    PROVE  LInv' /\ Passes(t)
  <1>1. /\ at[t] = "idle" /\ note[t] = Nothing /\ note' = note /\ amiss' = amiss \cup Clash(kind)
        /\ UNCHANGED <<uid, live, by, roles, rid, issued, ledger, saw, pick, changed>>
    BY DEF Begins, Ready, logto
  <1>2. /\ at'[t] = First(kind)
        /\ \A u \in Tools \ {t} : op'[u] = op[u] /\ at'[u] = at[u]
    BY BeginsTyped DEF LInv
  <1>3. \A u \in Tools \ {t} : Untouched(u)
    BY <1>1, <1>2 DEF Untouched
  <1>4. First(kind) \in {"check", "read", "resend", "users", "pick"}
    BY DEF First, Kinds
  <1>5. StepSound(t)'
    BY <1>1, <1>2, <1>4 DEF LInv, StepSound
  <1>6. Remembers
    BY <1>1 DEF Remembers
  <1>7. changed' \in [Tools -> BOOLEAN] /\ pick' \in [Tools -> Nat]
    BY <1>1 DEF LInv, Kept
  <1> QED
    BY <1>1, <1>2, <1>3, <1>4, <1>5, <1>6, <1>7, OnSound

\* The tailnet half of a command.
LEMMA LHalf ==
    ASSUME LInv, TypeOK', NEW t \in Tools, TailnetDone(t) \/ TailnetFails(t), note[t] = Nothing,
           at[t] \in {"read", "write"},
           UNCHANGED <<logto, ledger>>
    PROVE  LInv' /\ Passes(t)
  <1>1. UNCHANGED <<uid, live, by, rid, roles, issued>>
    BY DEF logto, TailnetDone, TailnetFails, Ends, GivesUp
  <1>2. CASE Ends(t) \/ GivesUp(t)
    BY <1>1, <1>2, EndingSound
  <1>3. CASE /\ Goes(t, "lookup") /\ UNCHANGED <<op, saw, pick, changed, note>>
             /\ amiss \subseteq amiss'
    <2>1. /\ at'[t] = "lookup" /\ \A u \in Tools \ {t} : Untouched(u)
      BY <1>3 DEF Goes, Untouched, LInv, TypeOK
    <2>2. StepSound(t)'
      BY <1>1, <1>3, <2>1 DEF LInv, StepSound
    <2>3. Remembers /\ changed' \in [Tools -> BOOLEAN] /\ pick' \in [Tools -> Nat]
      BY <1>3 DEF Remembers, LInv, Kept
    <2> QED
      BY <1>1, <1>3, <2>1, <2>2, <2>3, OnSound
  <1> QED
    BY <1>2, <1>3 DEF TailnetDone, TailnetFails

LEMMA LTailnet ==
    ASSUME LInv, TypeOK', NEW t \in Tools, Tailnet(t)
    PROVE  LInv' /\ Passes(t)
  <1>1. note[t] = Nothing /\ at[t] \in {"read", "write"} /\ UNCHANGED <<logto, ledger>>
    BY DEF Tailnet, Reads, NothingToWrite, Refused, WritesPolicy, Conflicts, TailnetCallFails, Ready
  <1>2. UNCHANGED <<uid, live, by, rid, roles, issued>>
    BY <1>1 DEF logto, Tailnet, Reads, NothingToWrite, Refused, WritesPolicy, Conflicts,
                TailnetCallFails, TailnetDone, TailnetFails, Ends, GivesUp
  <1>3. CASE TailnetDone(t) \/ TailnetFails(t)
    BY <1>1, <1>3, LHalf
  <1>4. CASE Ends(t)
    BY <1>1, <1>2, <1>4, EndingSound
  <1>5. ASSUME NEW step \in {"read", "write", "lookup"}, Goes(t, step),
               UNCHANGED <<op, saw, pick, note, amiss>>,
               changed' = changed \/ changed' = [changed EXCEPT ![t] = TRUE]
        PROVE  LInv' /\ Passes(t)
    <2>1. /\ at'[t] = step /\ \A u \in Tools \ {t} : Untouched(u)
      BY <1>5 DEF Goes, Untouched, LInv, TypeOK, Kept
    <2>2. StepSound(t)'
      BY <1>1, <1>2, <1>5, <2>1 DEF LInv, StepSound
    <2>3. Remembers /\ changed' \in [Tools -> BOOLEAN] /\ pick' \in [Tools -> Nat]
      BY <1>5 DEF Remembers, LInv, Kept
    <2> QED
      BY <1>1, <1>2, <1>5, <2>1, <2>2, <2>3, OnSound
  <1>6. CASE Reads(t)
    BY <1>5, <1>6 DEF Reads
  <1>7. CASE WritesPolicy(t) \/ Conflicts(t)
    BY <1>3, <1>4, <1>5, <1>7 DEF WritesPolicy, Conflicts
  <1> QED
    BY <1>3, <1>6, <1>7 DEF Tailnet, NothingToWrite, Refused, TailnetCallFails

\* The steps that read, and those that end a command.
LEMMA LReading ==
    ASSUME LInv, TypeOK', NEW t \in Tools,
           \/ Checks(t) \/ Resends(t) \/ LooksUp(t) \/ Vets(t) \/ RolesDone(t) \/ UserMoved(t)
           \/ ListsRoles(t) \/ RolesRemoved(t) \/ Closes(t) \/ ListsUsers(t) \/ Wants(t) \/ Picks(t)
    PROVE  LInv' /\ Passes(t)
  <1>1. note[t] = Nothing /\ UNCHANGED <<uid, live, by, rid, roles, issued, ledger>>
    BY DEF Checks, Resends, LooksUp, Vets, RolesDone, UserMoved, ListsRoles, RolesRemoved, Closes,
           ListsUsers, Wants, Picks, Ready, logto, Quiet, GivesUp
  <1>2. CASE Closes(t) \/ (at[t] # "close" /\ (GivesUp(t) \/ (Records(t) /\ amiss' = amiss)))
    BY <1>1, <1>2, EndingSound
  <1>3. ASSUME NEW step \in {"lookup", "read", "remove", "suspend", "close", "unsuspend"},
               Goes(t, step), UNCHANGED <<op, saw, pick, changed, note, amiss>>,
               at[t] # "close",
               step = "unsuspend" => at[t] = "vet" /\ SuspendedByRevoke(saw[t].id),
               step \in {"remove", "suspend"} => at[t] \in {"list", "remove"}
        PROVE  LInv' /\ Passes(t)
    <2>1. /\ at'[t] = step /\ \A u \in Tools \ {t} : Untouched(u)
      BY <1>3 DEF Goes, Untouched, LInv, TypeOK
    <2>2. StepSound(t)'
      BY <1>1, <1>3, <2>1 DEF LInv, StepSound
    <2>3. Remembers /\ changed' \in [Tools -> BOOLEAN] /\ pick' \in [Tools -> Nat]
      BY <1>3 DEF Remembers, LInv, Kept
    <2> QED
      BY <1>1, <1>3, <2>1, <2>2, <2>3, OnSound
  <1>4. ASSUME NEW step \in {"close", "list", "create", "vet", "role", "roles"},
               Goes(t, step), UNCHANGED <<op, pick, changed, note, amiss>>,
               saw' = [saw EXCEPT ![t] = [id |-> uid, live |-> live]],
               at[t] # "close", step \in {"list", "vet"} => uid # 0
        PROVE  LInv' /\ Passes(t)
    <2>1. /\ at'[t] = step /\ saw'[t].id = uid /\ \A u \in Tools \ {t} : Untouched(u)
      BY <1>4 DEF Goes, Untouched, LInv, TypeOK
    <2>2. StepSound(t)'
      BY <1>1, <1>4, <2>1 DEF LInv, StepSound, Ids
    <2>3. Remembers /\ changed' \in [Tools -> BOOLEAN] /\ pick' \in [Tools -> Nat]
      BY <1>4 DEF Remembers, LInv, Kept
    <2> QED
      BY <1>1, <1>4, <2>1, <2>2, <2>3, OnSound
  <1>5. CASE Checks(t) \/ Resends(t)
    BY <1>2, <1>3, <1>5 DEF Checks, Resends, Quiet, Ready
  <1>6. CASE LooksUp(t)
    <2>1. op[t] \in {"invite", "revoke"} /\ live \in BOOLEAN
      BY <1>6, KindOf DEF LInv, LooksUp, Ready, TypeOK
    <2>2. PICK step \in {"close", "list", "create", "vet", "role"} :
             Goes(t, step) /\ (step \in {"list", "vet"} => uid # 0)
      BY <1>6, <2>1 DEF LooksUp
    <2> QED
      BY <1>4, <1>6, <2>2 DEF LooksUp, Quiet, Ready
  <1>7. CASE Vets(t)
    BY <1>2, <1>3, <1>7 DEF Vets, Quiet, Ready
  <1>8. CASE RolesDone(t) \/ UserMoved(t) \/ Closes(t) \/ Wants(t)
    BY <1>2, <1>3, <1>8 DEF RolesDone, UserMoved, Wants, Quiet, Ready
  <1>9. CASE ListsRoles(t) \/ RolesRemoved(t)
    BY <1>3, <1>9 DEF ListsRoles, RolesRemoved, Quiet, Ready
  <1>10. CASE ListsUsers(t)
    BY <1>4, <1>10 DEF ListsUsers, Quiet, Ready
  <1>11. CASE Picks(t)
    <2>0. at[t] = "pick"
      BY <1>11 DEF Picks, Ready
    <2>1. CASE GivesUp(t)
      BY <1>2, <2>0, <2>1
    <2>2. CASE ~GivesUp(t)
      <3>1. PICK i \in DOMAIN ledger :
               ledger[i].act \in Undoable /\ pick' = [pick EXCEPT ![t] = i]
        BY <1>11, <2>2 DEF Picks
      <3>2. Goes(t, "call") /\ UNCHANGED <<op, saw, changed, note, amiss>>
        BY <1>11, <2>2 DEF Picks, Quiet
      <3>3. i \in Nat
        BY <3>1 DEF LInv, Lines
      <3>4. /\ at'[t] = "call" /\ pick'[t] = i /\ pick' \in [Tools -> Nat]
            /\ \A u \in Tools \ {t} : Untouched(u)
        BY <3>1, <3>2, <3>3 DEF Goes, Untouched, LInv, TypeOK, Kept
      <3>5. StepSound(t)'
        BY <1>1, <3>1, <3>2, <3>4 DEF LInv, StepSound
      <3>6. Remembers /\ changed' \in [Tools -> BOOLEAN]
        BY <3>2 DEF Remembers, LInv, Kept
      <3> QED
        BY <1>1, <2>0, <3>2, <3>4, <3>5, <3>6, OnSound
    <2> QED
      BY <2>1, <2>2
  <1> QED
    BY <1>5, <1>6, <1>7, <1>8, <1>9, <1>10, <1>11

\* The steps that change Logto, each of which owes an entry.
LEMMA LWriting ==
    ASSUME LInv, TypeOK', NEW t \in Tools, Ids',
           NEW act \in Acts \ {"undo"}, NEW user \in Nat, NEW role \in Nat,
           Owes(t, act, user, role, 0), ledger' = ledger, issued <= issued', Remembers, pick' = pick,
           user <= issued', role <= issued',
           note[t] = Nothing, at[t] # "close", at'[t] # "unsuspend",
           act \in {"suspend-user", "unsuspend-user"} => user # 0 /\ role = 0,
           act \in {"assign-role", "remove-role"} => role # 0,
           act = "suspend-user" => at'[t] = "close" /\ changed'[t],
           changed' \in [Tools -> BOOLEAN],
           \A u \in Tools \ {t} : Untouched(u), StepSound(t)'
    PROVE  LInv' /\ Wrote(t)
  <1>1. issued' \in Nat
    BY DEF TypeOK
  <1>2. PICK n \in Notes : note' = [note EXCEPT ![t] = n] /\ NoteSound(t)'
    BY <1>1, OwesSound
  <1>3. Leaves(t, n)
    BY <1>1, <1>2 DEF Leaves, LInv, Kept
  <1>4. Wrote(t)
    BY DEF Wrote
  <1> QED
    BY <1>2, <1>3, <1>4, LeavesSound

LEMMA LWrites ==
    ASSUME LInv, TypeOK', NEW t \in Tools,
           \/ CreatesUser(t) \/ Unsuspends(t) \/ Suspends(t)
           \/ \E r \in Rights : CreatesRole(t, r) \/ Grants(t, r) \/ RemovesRole(t, r)
    PROVE  LInv' /\ Wrote(t)
  <1>0. /\ uid \in Nat /\ issued \in Nat /\ uid <= issued /\ issued' \in Nat
        /\ saw[t].id \in Nat /\ saw[t].id <= issued /\ roles \subseteq Rights
        /\ at \in [Tools -> Steps] /\ saw \in [Tools -> [id : Nat, live : BOOLEAN]]
        /\ changed \in [Tools -> BOOLEAN] /\ note \in [Tools -> Notes] /\ pick \in [Tools -> Nat]
    BY DEF LInv, TypeOK, Ids, StepSound, Kept
  <1>1. {"create-user", "create-role", "assign-role", "remove-role", "suspend-user", "unsuspend-user"}
           \subseteq Acts \ {"undo"}
    BY DEF Acts, Undoable
  <1>2. CASE CreatesUser(t)
    <2>1. /\ saw' = [saw EXCEPT ![t] = [id |-> issued + 1, live |-> TRUE]]
          /\ at' = [at EXCEPT ![t] = "role"] /\ uid' = issued + 1 /\ issued' = issued + 1 /\ roles' = {}
          /\ UNCHANGED <<rid, ledger, op, pick, changed, amiss>>
          /\ Owes(t, "create-user", issued + 1, 0, 0) /\ note[t] = Nothing /\ at[t] = "create"
      BY <1>2 DEF CreatesUser, Goes, Quiet, Ready
    <2>2. \A u \in Tools \ {t} : Untouched(u)
      BY <1>0, <2>1 DEF Untouched, Owes
    <2>3. StepSound(t)'
      BY <1>0, <2>1 DEF StepSound
    <2>4. Ids'
      BY <1>0, <2>1 DEF LInv, Ids
    <2>5. issued <= issued' /\ Remembers
      BY <1>0, <2>1 DEF Remembers
    <2>6. issued + 1 \in Nat /\ issued + 1 <= issued' /\ 0 <= issued' /\ 0 \in Nat
      BY <1>0, <2>1
    <2>7. "create-user" \in Acts \ {"undo"}
      BY <1>1
    <2>8. changed' \in [Tools -> BOOLEAN] /\ pick' = pick /\ ledger' = ledger
      BY <1>0, <2>1
    <2> QED
      BY <2>1, <2>2, <2>3, <2>4, <2>5, <2>6, <2>7, <2>8, LWriting
  <1>3. CASE Unsuspends(t)
    <2>1. /\ at[t] = "unsuspend" /\ uid = saw[t].id /\ at' = [at EXCEPT ![t] = "role"]
          /\ UNCHANGED <<uid, roles, rid, issued, ledger, op, saw, pick, changed>>
          /\ amiss \subseteq amiss' /\ Owes(t, "unsuspend-user", uid, 0, 0)
          /\ note[t] = Nothing
      BY <1>3 DEF Unsuspends, Goes, Ready
    <2>2. \A u \in Tools \ {t} : Untouched(u)
      BY <1>0, <2>1 DEF Untouched, Owes
    <2>3. StepSound(t)'
      BY <1>0, <2>1 DEF StepSound
    <2>4. uid # 0
      BY <2>1 DEF LInv, StepSound
    <2>5. issued <= issued' /\ Remembers /\ Ids'
      BY <1>0, <2>1, IdsStay DEF Remembers, LInv
    <2> QED
      BY <1>0, <1>1, <2>1, <2>2, <2>3, <2>4, <2>5, LWriting
  <1>4. CASE Suspends(t)
    <2>1. /\ at[t] = "suspend" /\ uid = saw[t].id /\ at' = [at EXCEPT ![t] = "close"]
          /\ UNCHANGED <<uid, roles, rid, issued, ledger, op, saw, pick, amiss>>
          /\ changed' = [changed EXCEPT ![t] = TRUE] /\ Owes(t, "suspend-user", uid, 0, 0)
          /\ note[t] = Nothing
      BY <1>4 DEF Suspends, Goes, Ready
    <2>2. \A u \in Tools \ {t} : Untouched(u)
      BY <1>0, <2>1 DEF Untouched, Owes
    <2>3. StepSound(t)' /\ at'[t] = "close" /\ changed'[t] /\ changed' \in [Tools -> BOOLEAN]
      BY <1>0, <2>1 DEF StepSound
    <2>6. 0 \in Nat /\ 0 <= issued' /\ uid <= issued' /\ "suspend-user" \in Acts \ {"undo"}
      BY <1>0, <1>1, <2>1
    <2>4. uid # 0
      BY <2>1 DEF LInv, StepSound
    <2>5. issued <= issued' /\ Remembers /\ Ids'
      BY <1>0, <2>1, IdsStay DEF Remembers, LInv
    <2> QED
      BY <1>0, <2>1, <2>2, <2>3, <2>4, <2>5, <2>6, LWriting
  <1>5. ASSUME NEW r \in Rights, CreatesRole(t, r)
        PROVE  LInv' /\ Wrote(t)
    <2>1. /\ note[t] = Nothing /\ at[t] = "role" /\ rid[r] = 0 /\ rid' = [rid EXCEPT ![r] = issued + 1]
          /\ issued' = issued + 1 /\ Owes(t, "create-role", 0, issued + 1, 0)
          /\ UNCHANGED <<uid, roles, ledger, command, amiss>>
      BY <1>5 DEF CreatesRole, Ready, Quiet
    <2>2. UNCHANGED <<at, op, saw, pick, changed>>
      BY <2>1 DEF command
    <2>3. \A u \in Tools \ {t} : Untouched(u)
      BY <1>0, <2>1, <2>2 DEF Untouched, Owes
    <2>4. StepSound(t)'
      BY <1>0, <2>1, <2>2 DEF StepSound
    <2>5. Ids'
      <3>1. rid \in [Rights -> Nat] /\ \A q \in Rights : rid[q] <= issued
        BY DEF LInv, Ids
      <3>2. rid' \in [Rights -> Nat] /\ rid'[r] = issued + 1 /\ \A q \in Rights \ {r} : rid'[q] = rid[q]
        BY <1>0, <2>1, <3>1
      <3>3. \A q \in Rights : rid'[q] <= issued' /\ (q \in roles' => rid'[q] # 0)
        BY <1>0, <2>1, <3>1, <3>2 DEF LInv, Ids
      <3>4. \A p, q \in Rights : rid'[p] = rid'[q] /\ rid'[p] # 0 => p = q
        BY <1>0, <2>1, <3>1, <3>2 DEF LInv, Ids
      <3> QED
        BY <1>0, <2>1, <3>2, <3>3, <3>4 DEF Ids
    <2>6. issued <= issued' /\ Remembers /\ 0 <= issued' /\ 0 \in Nat /\ issued + 1 \in Nat
      BY <1>0, <2>1 DEF Remembers
    <2>7. "create-role" \in Acts \ {"undo"} /\ issued + 1 <= issued'
      BY <1>0, <1>1, <2>1
    <2>8. changed' \in [Tools -> BOOLEAN] /\ pick' = pick /\ at'[t] = "role"
      BY <1>0, <2>1, <2>2
    <2> QED
      BY <2>1, <2>3, <2>4, <2>5, <2>6, <2>7, <2>8, LWriting
  <1>6. ASSUME NEW r \in Rights, Grants(t, r)
        PROVE  LInv' /\ Wrote(t)
    <2>1. /\ at[t] = "role" /\ rid[r] # 0 /\ roles' = roles \cup {r} /\ note[t] = Nothing
          /\ UNCHANGED <<uid, live, by, rid, issued, ledger, at, op, saw, pick, changed, amiss>>
      BY <1>6 DEF Grants, Ready, Quiet
    <2>2. rid[r] \in Nat /\ rid[r] <= issued
      BY DEF LInv, Ids
    <2>3. Ids'
      BY <2>1, <2>2 DEF LInv, Ids
    <2>4. StepSound(t)'
      BY <1>0, <2>1 DEF StepSound
    <2>5. issued <= issued' /\ Remembers /\ 0 <= issued'
      BY <1>0, <2>1 DEF Remembers
    <2>6. CASE r \in roles
      <3>1. note' = note /\ UNCHANGED <<uid, rid, roles, issued>>
        BY <1>6, <2>1, <2>6 DEF Grants
      <3>2. \A u \in Tools \ {t} : Untouched(u)
        BY <2>1, <3>1 DEF Untouched
      <3> QED
        BY <1>0, <2>1, <2>4, <2>5, <3>1, <3>2, OnSound DEF Wrote
    <2>7. CASE r \notin roles
      <3>1. Owes(t, "assign-role", uid, rid[r], 0)
        BY <1>6, <2>7 DEF Grants
      <3>2. \A u \in Tools \ {t} : Untouched(u)
        BY <1>0, <2>1, <3>1 DEF Untouched, Owes
      <3> QED
        BY <1>0, <1>1, <2>1, <2>2, <2>3, <2>4, <2>5, <3>1, <3>2, LWriting
    <2> QED
      BY <2>6, <2>7
  <1>7. ASSUME NEW r \in Rights, RemovesRole(t, r)
        PROVE  LInv' /\ Wrote(t)
    <2>1. /\ note[t] = Nothing /\ at[t] = "remove" /\ r \in roles /\ roles' = roles \ {r}
          /\ Owes(t, "remove-role", uid, rid[r], 0) /\ changed' = [changed EXCEPT ![t] = TRUE]
          /\ UNCHANGED <<uid, rid, issued, ledger, at, op, saw, pick, amiss>>
      BY <1>7 DEF RemovesRole, Ready, Quiet
    <2>2. rid[r] \in Nat /\ rid[r] <= issued /\ rid[r] # 0
      BY <2>1 DEF LInv, Ids
    <2>3. Ids'
      BY <2>1, <2>2 DEF LInv, Ids
    <2>4. StepSound(t)' /\ changed' \in [Tools -> BOOLEAN]
      BY <1>0, <2>1 DEF StepSound, LInv
    <2>5. issued <= issued' /\ Remembers /\ 0 <= issued'
      BY <1>0, <2>1 DEF Remembers
    <2>6. \A u \in Tools \ {t} : Untouched(u)
      BY <1>0, <2>1 DEF Untouched, Owes
    <2> QED
      BY <1>0, <1>1, <2>1, <2>2, <2>3, <2>4, <2>5, <2>6, LWriting
  <1> QED
    BY <1>2, <1>3, <1>4, <1>5, <1>6, <1>7

LEMMA LUndoes ==
    ASSUME LInv, TypeOK', NEW t \in Tools, Undoes(t)
    PROVE  LInv'
  <1> DEFINE e == ledger[pick[t]]
  <1>1. /\ Over(t) /\ Inverts(e) /\ Owes(t, "undo", 0, 0, e.n) /\ at[t] = "call"
        /\ ledger' = ledger
    BY DEF Undoes, Ready
  <1>2. pick[t] \in DOMAIN ledger /\ e.act \in Undoable /\ e \in Entries /\ Names(e)
    BY <1>1 DEF LInv, StepSound, Lines
  <1>3. Remembers /\ issued' = issued /\ issued \in Nat
    BY <1>1 DEF Inverts, Remembers, LInv, TypeOK, logto
  <1>4. "raced" \notin amiss' => "raced" \notin amiss
    BY <1>3 DEF Remembers
  <1>5. "raced" \notin amiss' => e.n \in DOMAIN ledger /\ ledger[e.n].act \in Undoable
    BY <1>2, <1>4 DEF LInv, Lines
  <1>6. e.n \in Nat /\ "undo" \in Acts /\ issued' \in Nat /\ 0 \in Nat /\ 0 <= issued'
    BY <1>2, <1>3 DEF Entries, Acts
  <1>7. PICK n \in Notes : note' = [note EXCEPT ![t] = n] /\ NoteSound(t)'
    BY <1>1, <1>3, <1>5, <1>6, OwesSound
  <1>8. /\ \A u \in Tools \ {t} : Untouched(u)
        /\ changed' \in [Tools -> BOOLEAN] /\ pick' \in [Tools -> Nat]
        /\ StepSound(t)'
    BY <1>1, <1>3, <1>7, OverSound
  <1>9. Leaves(t, n)
    BY <1>1, <1>3, <1>7, <1>8 DEF Leaves
  <1>10. Ids'
    <2>1. CASE UNCHANGED <<uid, rid, roles, issued>>
      BY <2>1, IdsStay DEF LInv
    <2>2. CASE uid' = 0 /\ roles' = {} /\ UNCHANGED <<rid, issued>>
      BY <1>3, <2>2 DEF LInv, Ids
    <2>3. CASE /\ \E r \in Rights : rid' = [rid EXCEPT ![r] = 0] /\ roles' = roles \ {r}
               /\ UNCHANGED <<uid, issued>>
      <3>1. PICK r \in Rights : rid' = [rid EXCEPT ![r] = 0] /\ roles' = roles \ {r}
        BY <2>3
      <3>2. rid \in [Rights -> Nat]
        BY DEF LInv, Ids
      <3>3. rid' \in [Rights -> Nat] /\ rid'[r] = 0 /\ \A q \in Rights \ {r} : rid'[q] = rid[q]
        BY <3>1, <3>2
      <3>4. \A q \in Rights : rid'[q] <= issued' /\ (q \in roles' => rid'[q] # 0)
        BY <1>3, <2>3, <3>1, <3>3 DEF LInv, Ids
      <3>5. \A p, q \in Rights : rid'[p] = rid'[q] /\ rid'[p] # 0 => p = q
        BY <3>3 DEF LInv, Ids
      <3> QED
        BY <1>3, <2>3, <3>3, <3>4, <3>5 DEF LInv, Ids
    <2>4. CASE /\ e.act \in {"assign-role", "remove-role"}
               /\ \E r \in Rights : rid[r] = e.role /\ roles' = RolesUndone(e, r)
               /\ UNCHANGED <<uid, rid, issued>>
      <3>1. PICK r \in Rights : rid[r] = e.role /\ roles' = RolesUndone(e, r)
        BY <2>4
      <3>2. rid[r] # 0
        BY <1>2, <2>4, <3>1 DEF Names
      <3>3. roles' \subseteq roles \cup {r}
        BY <3>1 DEF RolesUndone
      <3> QED
        BY <2>4, <3>2, <3>3 DEF LInv, Ids
    <2> QED
      BY <1>1, <2>1, <2>2, <2>3, <2>4 DEF Inverts, logto
  <1> QED
    BY <1>7, <1>8, <1>9, <1>10, LeavesSound

\* A tool's entry is written: it is numbered as it stands unless another is pending.
LEMMA LAppends ==
    ASSUME LInv, TypeOK', NEW t \in Tools, Appends(t)
    PROVE  /\ LInv'
           /\ \E e \in Entries :
                 /\ ledger' = Append(ledger, e)
                 /\ e.act = note[t].act /\ e.user = note[t].user /\ e.role = note[t].role
                 /\ e.of = note[t].of
  <1>1. PICK n \in note[t].from .. Len(ledger) + 1 :
           ledger' = Append(ledger, [n |-> n, act |-> note[t].act, user |-> note[t].user,
                                     role |-> note[t].role, of |-> note[t].of])
    BY DEF Appends
  <1> DEFINE e == [n |-> n, act |-> note[t].act, user |-> note[t].user,
                   role |-> note[t].role, of |-> note[t].of]
  <1>2. /\ note[t] # Nothing /\ note' = [note EXCEPT ![t] = Nothing]
        /\ UNCHANGED <<uid, live, roles, rid, issued, at, op, saw, changed, pick>>
        /\ amiss \cup Racing(t) \subseteq amiss'
    BY DEF Appends, Pending, logto, command
  <1>3. /\ ledger \in Seq(Entries) /\ Len(ledger) \in Nat /\ issued \in Nat
        /\ note \in [Tools -> Notes] /\ note[t].act \in Acts /\ Names(note[t])
    BY <1>2, LengthIsNat DEF LInv, Lines, TypeOK, Kept, NoteSound
  <1>4. e \in Entries
    <2>1. note[t] \in Notes
      BY <1>3
    <2>2. note[t].from \in Nat /\ note[t].user \in Nat /\ note[t].role \in Nat /\ note[t].of \in Nat
      BY <2>1 DEF Notes
    <2>3. n \in Nat
      BY <1>1, <1>3, <2>2
    <2> QED
      BY <1>3, <2>2, <2>3 DEF Entries
  <1>5. /\ ledger' \in Seq(Entries) /\ Len(ledger') = Len(ledger) + 1
        /\ ledger'[Len(ledger) + 1] = e
        /\ \A i \in DOMAIN ledger : i \in DOMAIN ledger' /\ ledger'[i] = ledger[i]
        /\ \A i \in DOMAIN ledger' : i \in DOMAIN ledger \/ i = Len(ledger) + 1
    BY <1>1, <1>3, <1>4
  <1>6. note'[t] = Nothing /\ \A u \in Tools \ {t} : note'[u] = note[u]
    BY <1>2, <1>3
  <1>7. "raced" \notin amiss' => "raced" \notin amiss /\ \A u \in Tools \ {t} : note[u] = Nothing
    BY <1>2 DEF Racing, Pending
  <1>8. Kept'
    <2>1. Nothing \in Notes
      BY DEF Nothing, Notes
    <2>2. note' \in [Tools -> Notes]
      BY <1>2, <1>3, <2>1
    <2> QED
      BY <1>2, <2>2 DEF LInv, Kept
  <1>9. Ids'
    BY <1>2, IdsStay DEF LInv
  <1>10. ASSUME "raced" \notin amiss', NEW i \in DOMAIN ledger'
         PROVE  ledger'[i].n = i /\ Reverses(ledger[i])'
    <2>1. "raced" \notin amiss
      BY <1>7, <1>10
    <2>2. CASE i \in DOMAIN ledger
      <3>1. ledger'[i] = ledger[i] /\ ledger[i].n = i /\ Reverses(ledger[i])
        BY <1>5, <2>1, <2>2 DEF LInv, Lines
      <3> QED
        BY <1>5, <3>1 DEF Reverses
    <2>3. CASE i = Len(ledger) + 1
      <3>1. note[t].from = Len(ledger) + 1 /\ Reverses(note[t])
        BY <1>2, <2>1 DEF LInv, NoteSound
      <3>2. e.n = i
        BY <1>1, <1>3, <2>3, <3>1
      <3>3. note[t].act = "undo" =>
               note[t].of \in DOMAIN ledger' /\ ledger'[note[t].of].act \in Undoable
        BY <1>5, <3>1 DEF Reverses
      <3>4. /\ ledger'[i].n = n /\ ledger'[i].act = note[t].act /\ ledger'[i].of = note[t].of
        BY <1>5, <2>3
      <3> QED
        BY <3>2, <3>3, <3>4 DEF Reverses
    <2> QED
      BY <1>5, <2>2, <2>3
  <1>11. Lines'
    <2>1. ASSUME NEW i \in DOMAIN ledger'
          PROVE  Names(ledger[i])'
      <3>1. Names(e)
        BY <1>3 DEF Names
      <3>2. Names(ledger'[i])
        BY <1>5, <3>1 DEF LInv, Lines
      <3> QED
        BY <1>2, <3>2 DEF Names
    <2> QED
      BY <1>5, <1>10, <2>1 DEF Lines
  <1>12. ASSUME NEW u \in Tools
         PROVE  NoteSound(u)' /\ StepSound(u)'
    <2>1. StepSound(u)'
      BY <1>2, <1>5, <1>6 DEF LInv, StepSound
    <2>2. CASE u = t
      BY <1>3, <1>6, <2>1, <2>2 DEF NoteSound, Names, Nothing, LInv, TypeOK
    <2>3. CASE u # t
      <3>1. note'[u] = note[u] /\ ("raced" \notin amiss' => note[u] = Nothing) /\ NoteSound(u)
        BY <1>6, <1>7, <2>3 DEF LInv
      <3>2. Names(note[u])'
        BY <1>2, <3>1 DEF NoteSound, Names
      <3> QED
        BY <1>2, <2>1, <3>1, <3>2 DEF NoteSound, Names
    <2> QED
      BY <2>2, <2>3
  <1>13. LInv'
    BY <1>8, <1>9, <1>11, <1>12 DEF LInv
  <1> QED
    BY <1>1, <1>4, <1>13

LEMMA LFails ==
    ASSUME LInv, TypeOK', NEW t \in Tools, Fails(t) \/ Dies(t)
    PROVE  LInv' /\ Passes(t)
  <1>1. UNCHANGED <<uid, live, by, rid, roles, issued, ledger>> /\ Lost(t) \subseteq amiss'
    BY DEF Fails, Dies, GivesUp, logto
  <1>2. GivesUp(t) \/ (Over(t) /\ note' = [note EXCEPT ![t] = Nothing] /\ Remembers)
    BY DEF Fails, Dies, Remembers
  <1> QED
    BY <1>1, <1>2, EndingSound

LEMMA LOwner ==
    ASSUME LInv, TypeOK', Owner
    PROVE  LInv'
  <1>1. /\ UNCHANGED <<uid, rid, issued, ledger, at, op, note, saw, changed, pick>> /\ amiss \subseteq amiss'
        /\ \/ roles' = roles
           \/ \E r \in Rights : rid[r] # 0 /\ roles' \subseteq roles \cup {r}
    BY DEF Owner, FlipsSuspension, FlipsRole, EditsPolicy, Edits, command
  <1>2. issued \in Nat /\ issued <= issued' /\ issued' \in Nat /\ Remembers
    BY <1>1 DEF LInv, TypeOK, Remembers
  <1>3. \A u \in Tools : NoteSound(u)' /\ StepSound(u)'
    <2> TAKE u \in Tools
    <2>1. Untouched(u)
      BY <1>1 DEF Untouched
    <2> QED
      BY <1>1, <1>2, <2>1, SoundStays
  <1>4. Ids'
    BY <1>1 DEF LInv, Ids
  <1>5. Lines'
    BY <1>1, <1>2, LinesStay
  <1>6. Kept'
    BY <1>1 DEF LInv, Kept
  <1> QED
    BY <1>3, <1>4, <1>5, <1>6 DEF LInv

LEMMA LInvStep == LInv /\ [Next]_vars => LInv'
  <1> SUFFICES ASSUME LInv, [Next]_vars
               PROVE  LInv'
    OBVIOUS
  <1>0. TypeOK'
    BY TypeStep DEF LInv
  <1>1. ASSUME NEW t \in Tools, Commands(t)
        PROVE  LInv'
    <2>1. PICK kind \in Kinds \ {"none"}, rights \in SUBSET Rights : Begins(t, kind, rights)
      BY <1>1 DEF Commands, Kinds
    <2> QED
      BY <1>0, <2>1, LBegins
  <1>2. ASSUME NEW t \in Tools, Appends(t) \/ Tailnet(t)
        PROVE  LInv'
    BY <1>0, <1>2, LAppends, LTailnet
  <1>3. ASSUME NEW t \in Tools, Logto(t)
        PROVE  LInv'
    BY <1>0, <1>3, LReading, LWrites, LUndoes DEF Logto
  <1>4. ASSUME NEW t \in Tools, Fails(t) \/ Dies(t)
        PROVE  LInv'
    BY <1>0, <1>4, LFails
  <1>5. CASE Owner
    BY <1>0, <1>5, LOwner
  <1>6. CASE UNCHANGED vars
    BY <1>0, <1>6 DEF vars, logto, command, LInv, Kept, Ids, Lines, NoteSound, StepSound, Names, Reverses
  <1> QED
    BY <1>1, <1>2, <1>3, <1>4, <1>5, <1>6 DEF Next

LEMMA LInvAlways == Spec => []LInv
  BY LInvInit, LInvStep, PTL DEF Spec

-----------------------------------------------------------------------------
(* Whose a suspension is                                                      *)

Suspending == \E t \in Tools : note[t].act = "suspend-user" /\ note[t].user = uid
Freeing    == \E t \in Tools : note[t].act = "unsuspend-user" /\ note[t].user = uid
EndsSuspended ==
    /\ ledger # <<>>
    /\ ledger[Len(ledger)].act = "suspend-user" /\ ledger[Len(ledger)].user = uid

Clear == {"hidden", "raced", "unlogged"} \cap amiss = {}
Whole == {"parted", "raced", "unlogged"} \cap amiss = {}

\* If the ledger says that revoke suspended the user, or is about to, it did; or the
\* user is enabled again and the entry of that is on its way.
SaysTrue ==
    Clear /\ (SuspendedByRevoke(uid) \/ EndsSuspended \/ Suspending)
        => by = "revoke" \/ (live /\ Freeing)

\* An invite that has been let through still meets revoke's suspension or none.
Vetted ==
    Clear => \A t \in Tools : at[t] = "unsuspend" /\ saw[t].id = uid => by \in {"revoke", "nobody"}

\* If revoke suspended the user the ledger says so, or is about to.
IsSaid ==
    Whole /\ by = "revoke" =>
        /\ SuspendedByRevoke(uid) \/ Suspending \/ (EndsSuspended /\ \E t \in Tools : Concludes(t))
        /\ Freeing => Suspending

ByWhom == (live <=> by = "nobody") /\ (uid = 0 => live)

SInv == LInv /\ ByWhom /\ SaysTrue /\ Vetted /\ IsSaid

LEMMA SInvInit == Init => SInv
  <1> SUFFICES ASSUME Init
               PROVE  SInv
    OBVIOUS
  <1>1. LInv /\ ByWhom /\ IsSaid /\ Vetted
    BY LInvInit DEF Init, ByWhom, IsSaid, Vetted
  <1>2. SaysTrue
    BY DEF Init, SaysTrue, SuspendedByRevoke, EndsSuspended, Suspending, Nothing
  <1> QED
    BY <1>1, <1>2 DEF SInv

\* The ledger says the same while neither it nor the user changes.
LEMMA SameWords ==
    ASSUME UNCHANGED <<uid, ledger>>
    PROVE  /\ SuspendedByRevoke(uid)' <=> SuspendedByRevoke(uid)
           /\ EndsSuspended' <=> EndsSuspended
  BY DEF SuspendedByRevoke, EndsSuspended

LEMMA FlagsStay ==
    ASSUME Remembers
    PROVE  (Clear' => Clear) /\ (Whole' => Whole)
  BY DEF Remembers, Clear, Whole

LEMMA SBesides ==
    ASSUME SInv, LInv', NEW t \in Tools, Besides(t)
    PROVE  SInv'
  <1>1. /\ UNCHANGED <<uid, live, by, ledger>> /\ (Clear' => Clear) /\ (Whole' => Whole)
        /\ \A u \in Tools \ {t} : Untouched(u)
    BY FlagsStay DEF Besides
  <1>2. Suspending' => Suspending
    BY <1>1 DEF Suspending, Besides, Untouched, Flips
  <1>3. Freeing' => Freeing
    BY <1>1 DEF Freeing, Besides, Untouched, Flips
  <1>4. {"suspend-user", "unsuspend-user"} \subseteq Told
    BY DEF Told, Undoable
  <1>5. (Clear' \/ Whole') /\ Suspending => Suspending'
    BY <1>1, <1>4 DEF Suspending, Besides, Untouched, Clear, Whole
  <1>6. Clear' /\ Freeing => Freeing'
    BY <1>1, <1>4 DEF Freeing, Besides, Untouched, Clear
  <1>7. SaysTrue'
    BY <1>1, <1>2, <1>6, SameWords DEF SInv, SaysTrue
  <1>8. Vetted'
    <2> SUFFICES ASSUME Clear', NEW u \in Tools, at'[u] = "unsuspend", saw'[u].id = uid'
                 PROVE  by' \in {"revoke", "nobody"}
      BY DEF Vetted
    <2>1. CASE u = t
      <3>1. SuspendedByRevoke(uid)
        BY <1>1, <2>1 DEF Besides
      <3> QED
        BY <1>1, <3>1 DEF SInv, SaysTrue, ByWhom
    <2>2. CASE u # t
      BY <1>1, <2>2 DEF SInv, Vetted, Untouched
    <2> QED
      BY <2>1, <2>2
  <1>9. IsSaid'
    <2> SUFFICES ASSUME Whole', by' = "revoke"
                 PROVE  /\ SuspendedByRevoke(uid)' \/ Suspending' \/ (EndsSuspended' /\ \E u \in Tools : Concludes(u)')
                        /\ Freeing' => Suspending'
      BY DEF IsSaid
    <2>1. \A u \in Tools : Concludes(u) => Concludes(u)'
      BY <1>1 DEF Besides, Concludes, Untouched, Whole
    <2> QED
      BY <1>1, <1>3, <1>5, <2>1, SameWords DEF SInv, IsSaid
  <1>10. ByWhom'
    BY <1>1 DEF SInv, ByWhom
  <1> QED
    BY <1>7, <1>8, <1>9, <1>10 DEF SInv

\* What one more line changes of what the ledger says of the user.
LEMMA OneMoreLine ==
    ASSUME ledger \in Seq(Entries), NEW e \in Entries, ledger' = Append(ledger, e), uid' = uid
    PROVE  /\ SuspendedByRevoke(uid)' =>
                 /\ ~(e.user = uid /\ e.act \in Flips)
                 /\ SuspendedByRevoke(uid) \/ (EndsSuspended /\ e.act = "people-revoke")
           /\ SuspendedByRevoke(uid) /\ ~(e.user = uid /\ e.act \in Flips) => SuspendedByRevoke(uid)'
           /\ EndsSuspended /\ e.act = "people-revoke" => SuspendedByRevoke(uid)'
           /\ EndsSuspended' <=> e.act = "suspend-user" /\ e.user = uid
  <1> DEFINE n == Len(ledger)
             Flip(i) == ledger[i].user = uid /\ ledger[i].act \in Flips
             More(i) == ledger'[i].user = uid /\ ledger'[i].act \in Flips
  <1>1. /\ n \in Nat /\ DOMAIN ledger = 1 .. n /\ DOMAIN ledger' = 1 .. (n + 1)
        /\ ledger'[n + 1] = e /\ Len(ledger') = n + 1
        /\ \A i \in 1 .. n : ledger'[i] = ledger[i]
    OBVIOUS
  <1> HIDE DEF n
  <1>2. SuspendedByRevoke(uid) <=>
           \E i \in 1 .. n :
              /\ Flip(i) /\ \A j \in 1 .. n : Flip(j) => j <= i
              /\ ledger[i].act = "suspend-user" /\ i + 1 <= n /\ ledger[i + 1].act = "people-revoke"
    BY <1>1 DEF SuspendedByRevoke, Flips
  <1>3. SuspendedByRevoke(uid)' <=>
           \E i \in 1 .. (n + 1) :
              /\ More(i) /\ \A j \in 1 .. (n + 1) : More(j) => j <= i
              /\ ledger'[i].act = "suspend-user" /\ i + 1 <= n + 1 /\ ledger'[i + 1].act = "people-revoke"
    BY <1>1 DEF SuspendedByRevoke, Flips
  <1>4. /\ \A i \in 1 .. n : More(i) <=> Flip(i)
        /\ More(n + 1) <=> e.user = uid /\ e.act \in Flips
    BY <1>1
  <1>5. EndsSuspended <=> n # 0 /\ ledger[n].act = "suspend-user" /\ ledger[n].user = uid
    BY <1>1 DEF EndsSuspended, n
  <1>6. EndsSuspended' <=> e.act = "suspend-user" /\ e.user = uid
    BY <1>1 DEF EndsSuspended
  <1>7. "people-revoke" \notin Flips /\ "suspend-user" \in Flips
    BY DEF Flips
  <1>8. ASSUME SuspendedByRevoke(uid)'
        PROVE  /\ ~(e.user = uid /\ e.act \in Flips)
               /\ SuspendedByRevoke(uid) \/ (EndsSuspended /\ e.act = "people-revoke")
    <2>1. PICK i \in 1 .. (n + 1) :
              /\ More(i) /\ \A j \in 1 .. (n + 1) : More(j) => j <= i
              /\ ledger'[i].act = "suspend-user" /\ i + 1 <= n + 1 /\ ledger'[i + 1].act = "people-revoke"
      BY <1>3, <1>8
    <2>2. i \in 1 .. n /\ ~More(n + 1)
      BY <1>1, <2>1
    <2>3. Flip(i) /\ (\A j \in 1 .. n : Flip(j) => j <= i) /\ ledger[i].act = "suspend-user"
      BY <1>1, <1>4, <2>1, <2>2
    <2>4. CASE i = n
      BY <1>1, <1>4, <1>5, <2>1, <2>2, <2>3, <2>4
    <2>5. CASE i # n
      <3>1. i + 1 \in 1 .. n
        BY <1>1, <2>2, <2>5
      <3>2. ledger[i + 1].act = "people-revoke"
        BY <1>1, <2>1, <3>1
      <3>3. i + 1 <= n /\ (e.user = uid /\ e.act \in Flips => FALSE)
        BY <1>1, <1>4, <2>2, <3>1
      <3>4. SuspendedByRevoke(uid)
        BY <1>2, <2>2, <2>3, <3>2, <3>3
      <3> QED
        BY <3>3, <3>4
    <2> QED
      BY <2>4, <2>5
  <1>9. ASSUME SuspendedByRevoke(uid), ~(e.user = uid /\ e.act \in Flips)
        PROVE  SuspendedByRevoke(uid)'
    <2>1. PICK i \in 1 .. n :
              /\ Flip(i) /\ \A j \in 1 .. n : Flip(j) => j <= i
              /\ ledger[i].act = "suspend-user" /\ i + 1 <= n /\ ledger[i + 1].act = "people-revoke"
      BY <1>2, <1>9
    <2>2. i \in 1 .. (n + 1) /\ i + 1 \in 1 .. n
      BY <1>1, <2>1
    <2>3. \A j \in 1 .. (n + 1) : More(j) => j <= i
      BY <1>1, <1>4, <1>9, <2>1
    <2> QED
      BY <1>1, <1>3, <1>4, <2>1, <2>2, <2>3
  <1>10. ASSUME EndsSuspended, e.act = "people-revoke"
         PROVE  SuspendedByRevoke(uid)'
    <2>1. n \in 1 .. n /\ n \in 1 .. (n + 1) /\ Flip(n) /\ ~More(n + 1)
      BY <1>1, <1>4, <1>5, <1>7, <1>10
    <2>2. \A j \in 1 .. (n + 1) : More(j) => j <= n
      BY <1>1, <2>1
    <2>3. ledger'[n].act = "suspend-user" /\ ledger'[n + 1].act = "people-revoke" /\ More(n)
      BY <1>1, <1>4, <1>5, <1>10, <2>1
    <2> QED
      BY <1>1, <1>3, <2>1, <2>2, <2>3
  <1> QED
    BY <1>6, <1>8, <1>9, <1>10

LEMMA SAppends ==
    ASSUME SInv, LInv', NEW t \in Tools, Appends(t)
    PROVE  SInv'
  <1>1. PICK e \in Entries :
           /\ ledger' = Append(ledger, e)
           /\ e.act = note[t].act /\ e.user = note[t].user
    BY LAppends DEF SInv, LInv
  <1>2. /\ UNCHANGED <<uid, live, by, at, saw, changed>> /\ note' = [note EXCEPT ![t] = Nothing]
        /\ amiss' = amiss \cup Racing(t) \cup Parting(t)
    BY DEF Appends, logto, command
  <1>3. \A u \in Tools : note'[u] = IF u = t THEN Nothing ELSE note[u]
    BY <1>2 DEF SInv, LInv, Kept
  <1>4. Clear' \/ Whole' => \A u \in Tools \ {t} : note[u] = Nothing
    BY <1>2 DEF Clear, Whole, Racing, Pending
  <1>5. (Clear' => Clear) /\ (Whole' => Whole)
    BY <1>2 DEF Clear, Whole
  <1>6. Clear' \/ Whole' => ~Suspending' /\ ~Freeing'
    BY <1>3, <1>4 DEF Suspending, Freeing, Nothing
  <1>7. ledger \in Seq(Entries)
    BY DEF SInv, LInv, Lines
  <1>8. SaysTrue'
    <2> SUFFICES ASSUME Clear', SuspendedByRevoke(uid)' \/ EndsSuspended'
                 PROVE  by' = "revoke"
      BY <1>6 DEF SaysTrue
    <2>1. SuspendedByRevoke(uid) \/ EndsSuspended \/ Suspending
      BY <1>1, <1>2, <1>7, OneMoreLine DEF Suspending
    <2>2. CASE by = "revoke"
      BY <1>2, <2>2
    <2>3. CASE Freeing
      <3>1. note[t].act = "unsuspend-user" /\ note[t].user = uid
        BY <1>4, <2>3 DEF Freeing, Nothing
      <3>2. e.act \in Flips /\ e.user = uid /\ e.act # "suspend-user"
        BY <1>1, <3>1 DEF Flips
      <3> QED
        BY <1>1, <1>2, <1>7, <3>2, OneMoreLine
    <2> QED
      BY <1>5, <2>1, <2>2, <2>3 DEF SInv, SaysTrue
  <1>9. Vetted'
    BY <1>2, <1>5 DEF SInv, Vetted
  <1>10. IsSaid'
    <2> SUFFICES ASSUME Whole', by' = "revoke"
                 PROVE  SuspendedByRevoke(uid)' \/ (EndsSuspended' /\ \E u \in Tools : Concludes(u)')
      BY <1>6 DEF IsSaid
    <2>1. /\ SuspendedByRevoke(uid) \/ Suspending \/ (EndsSuspended /\ \E u \in Tools : Concludes(u))
          /\ Freeing => Suspending
      BY <1>2, <1>5 DEF SInv, IsSaid
    <2>2. CASE note[t].act = "suspend-user" /\ note[t].user = uid
      <3>1. EndsSuspended'
        BY <1>1, <1>2, <1>7, <2>2, OneMoreLine
      <3>2. Concludes(t)'
        BY <1>2, <2>2 DEF SInv, LInv, NoteSound, Concludes
      <3> QED
        BY <3>1, <3>2
    <2>3. CASE ~(note[t].act = "suspend-user" /\ note[t].user = uid)
      <3>1. ~Suspending
        BY <1>4, <2>3 DEF Suspending, Nothing
      <3>2. CASE SuspendedByRevoke(uid)
        <4>1. ~(e.user = uid /\ e.act \in Flips)
          BY <1>1, <2>1, <2>3, <3>1 DEF Freeing, Flips
        <4> QED
          BY <1>1, <1>2, <1>7, <3>2, <4>1, OneMoreLine
      <3>3. CASE EndsSuspended
        <4>1. note[t].act = "people-revoke"
          BY <1>2, <3>3 DEF EndsSuspended, Parting, Whole
        <4> QED
          BY <1>1, <1>2, <1>7, <3>3, <4>1, OneMoreLine
      <3> QED
        BY <2>1, <3>1, <3>2, <3>3
    <2> QED
      BY <2>2, <2>3
  <1>11. ByWhom'
    BY <1>2 DEF SInv, ByWhom
  <1> QED
    BY <1>8, <1>9, <1>10, <1>11 DEF SInv

\* What an entry that is owed says.
LEMMA OwedNote ==
    ASSUME LInv, NEW t \in Tools, NEW act, NEW user, NEW role, NEW of, Owes(t, act, user, role, of)
    PROVE  /\ note'[t].act = act /\ note'[t].user = user /\ note'[t].role = role /\ note'[t].of = of
           /\ note'[t].from = Len(ledger) + 1
  BY DEF Owes, LInv, Kept

LEMMA WroteBesides ==
    ASSUME NEW t \in Tools, Wrote(t), UNCHANGED <<uid, live, by>>, note'[t].act \notin Flips
    PROVE  Besides(t)
  BY DEF Wrote, Besides, Concludes, Nothing, Told, Undoable

LEMMA SWrites ==
    ASSUME SInv, LInv', NEW t \in Tools, Wrote(t),
           \/ CreatesUser(t) \/ Unsuspends(t) \/ Suspends(t)
           \/ \E r \in Rights : CreatesRole(t, r) \/ Grants(t, r) \/ RemovesRole(t, r)
    PROVE  SInv'
  <1>0. /\ (Clear' => Clear) /\ (Whole' => Whole) /\ \A u \in Tools \ {t} : Untouched(u)
        /\ ledger' = ledger
    BY FlagsStay DEF Wrote
  <1>1. CASE CreatesUser(t)
    <2>1. /\ uid = 0 /\ uid' = issued + 1 /\ live' = TRUE /\ by' = by
          /\ Owes(t, "create-user", issued + 1, 0, 0) /\ issued \in Nat
      BY <1>1 DEF CreatesUser, Quiet, SInv, LInv, TypeOK
    <2>2. by = "nobody"
      BY <2>1 DEF SInv, ByWhom
    <2>3. ~Suspending'
      <3>1. note'[t].act = "create-user"
        BY <2>1, OwedNote DEF SInv
      <3>2. \A u \in Tools \ {t} : note'[u] = note[u] /\ note[u].user <= issued /\ note[u].user \in Nat
        BY <1>0 DEF Untouched, SInv, LInv, NoteSound, Names, Kept, Notes
      <3> QED
        BY <2>1, <3>1, <3>2 DEF Suspending
    <2>4. \A i \in DOMAIN ledger : ledger[i].user <= issued /\ ledger[i].user \in Nat
      <3>1. ledger \in Seq(Entries) /\ \A i \in DOMAIN ledger : Names(ledger[i])
        BY DEF SInv, LInv, Lines
      <3>2. \A i \in DOMAIN ledger : ledger[i] \in Entries
        BY <3>1
      <3> QED
        BY <3>1, <3>2 DEF Names, Entries
    <2>5. ~SuspendedByRevoke(uid)'
      BY <1>0, <2>1, <2>4 DEF SuspendedByRevoke
    <2>6. ~EndsSuspended'
      <3>1. ledger # <<>> => Len(ledger) \in DOMAIN ledger
        BY DEF SInv, LInv, Lines
      <3> QED
        BY <1>0, <2>1, <2>4, <3>1 DEF EndsSuspended
    <2>7. SaysTrue'
      BY <2>3, <2>5, <2>6 DEF SaysTrue
    <2>8. Vetted' /\ IsSaid'
      BY <2>1, <2>2 DEF Vetted, IsSaid
    <2>9. ByWhom'
      BY <2>1, <2>2 DEF ByWhom
    <2> QED
      BY <2>7, <2>8, <2>9 DEF SInv
  <1>2. CASE Unsuspends(t)
    <2>1. uid' = uid /\ live' = TRUE /\ by' = "nobody" /\ Owes(t, "unsuspend-user", uid, 0, 0)
      BY <1>2 DEF Unsuspends
    <2>2. Freeing'
      BY <2>1, OwedNote DEF SInv, Freeing
    <2> QED
      BY <2>1, <2>2 DEF SInv, SaysTrue, Vetted, IsSaid, ByWhom
  <1>3. CASE Suspends(t)
    <2>1. /\ uid' = uid /\ live' = FALSE /\ by' = "revoke" /\ Owes(t, "suspend-user", uid, 0, 0)
          /\ at[t] = "suspend" /\ uid = saw[t].id
      BY <1>3 DEF Suspends, Ready
    <2>2. Suspending'
      BY <2>1, OwedNote DEF SInv, Suspending
    <2>3. uid # 0
      BY <2>1 DEF SInv, LInv, StepSound
    <2> QED
      BY <2>1, <2>2, <2>3 DEF SInv, SaysTrue, Vetted, IsSaid, ByWhom
  <1>4. CASE \E r \in Rights : CreatesRole(t, r) \/ Grants(t, r) \/ RemovesRole(t, r)
    <2>1. UNCHANGED <<uid, live, by>>
      BY <1>4 DEF CreatesRole, Grants, RemovesRole, Quiet
    <2>2. note'[t].act \notin Flips
      <3>1. ASSUME NEW r \in Rights, CreatesRole(t, r) \/ Grants(t, r) \/ RemovesRole(t, r)
            PROVE  note'[t].act \notin Flips
        <4>1. CASE note' = note
          BY <4>1 DEF Wrote, Nothing, Flips
        <4>2. CASE note' # note
          <5>1. PICK act \in {"create-role", "assign-role", "remove-role"}, user \in {0, uid},
                     role \in {issued + 1, rid[r]} : Owes(t, act, user, role, 0)
            BY <3>1, <4>2 DEF CreatesRole, Grants, RemovesRole
          <5> QED
            BY <5>1, OwedNote DEF SInv, Flips
        <4> QED
          BY <4>1, <4>2
      <3> QED
        BY <1>4, <3>1
    <2> QED
      BY <2>1, <2>2, WroteBesides, SBesides
  <1> QED
    BY <1>1, <1>2, <1>3, <1>4

\* The user is suspended or enabled by other hands, while nobody is on the way to it.
LEMMA SFlips ==
    ASSUME SInv, LInv', UNCHANGED <<uid, ledger>>, uid # 0,
           live' \in BOOLEAN, by' # "revoke", live' <=> by' = "nobody",
           \A u \in Tools : note'[u].act \in Flips \/ note[u].act \in Flips => note'[u] = note[u],
           \A u \in Tools : at'[u] = "unsuspend" => at[u] = "unsuspend",
           Clear' => /\ Clear
                     /\ \/ ~Freeing /\ by # "revoke" /\ \A u \in Tools : at[u] # "unsuspend"
                        \/ live' /\ by # "revoke"
    PROVE  SInv'
  <1>1. (Suspending' <=> Suspending) /\ (Freeing' <=> Freeing)
    BY DEF Suspending, Freeing, Flips
  <1>2. SaysTrue'
    BY <1>1, SameWords DEF SInv, SaysTrue
  <1>3. Vetted'
    BY DEF Vetted
  <1>4. IsSaid' /\ ByWhom'
    BY DEF IsSaid, ByWhom, SInv
  <1> QED
    BY <1>2, <1>3, <1>4 DEF SInv

LEMMA SUndoes ==
    ASSUME SInv, LInv', NEW t \in Tools, Undoes(t)
    PROVE  SInv'
  <1> DEFINE e == ledger[pick[t]]
  <1>1. /\ Over(t) /\ Inverts(e) /\ Owes(t, "undo", 0, 0, e.n) /\ at[t] = "call" /\ note[t] = Nothing
        /\ ledger' = ledger
    BY DEF Undoes, Ready
  <1>2. pick[t] \in DOMAIN ledger /\ e.act \in Undoable /\ e \in Entries /\ Names(e)
    BY <1>1 DEF SInv, LInv, StepSound, Lines
  <1>3. note'[t].act = "undo" /\ (\A u \in Tools \ {t} : Untouched(u)) /\ at'[t] = "idle"
    BY <1>1, OwedNote DEF SInv, LInv, Over, Goes, Untouched, Owes, Kept, TypeOK
  <1>4. Remembers
    BY <1>1 DEF Inverts, Remembers, logto
  <1>5. (Clear' => Clear) /\ (Whole' => Whole)
    BY <1>4, FlagsStay
  <1>6. \A u \in Tools : note'[u].act \in Flips \/ note[u].act \in Flips => note'[u] = note[u]
    BY <1>1, <1>3 DEF Flips, Nothing, Untouched
  <1>7. \A u \in Tools : at'[u] = "unsuspend" => at[u] = "unsuspend"
    BY <1>3 DEF Untouched
  <1>8. CASE UNCHANGED <<uid, live, by>>
    <2>1. Wrote(t)
      BY <1>1, <1>3, <1>4 DEF Wrote
    <2> QED
      BY <1>3, <1>8, <2>1, WroteBesides, SBesides DEF Flips
  <1>9. CASE e.act = "create-user" /\ uid' = 0 /\ live' = TRUE /\ by' = "nobody"
    <2>1. \A i \in DOMAIN ledger : ledger[i].act = "suspend-user" => ledger[i].user # 0
      BY DEF SInv, LInv, Lines, Names
    <2>2. ~SuspendedByRevoke(uid)'
      BY <1>1, <1>9, <2>1 DEF SuspendedByRevoke
    <2>3. ~EndsSuspended'
      <3>1. ledger # <<>> => Len(ledger) \in DOMAIN ledger
        BY DEF SInv, LInv, Lines
      <3> QED
        BY <1>1, <1>9, <2>1, <3>1 DEF EndsSuspended
    <2>4. ~Suspending'
      BY <1>9 DEF LInv, NoteSound, Names, Suspending
    <2> QED
      BY <1>9, <2>2, <2>3, <2>4 DEF SInv, SaysTrue, Vetted, IsSaid, ByWhom
  <1>10. CASE /\ e.act = "suspend-user" /\ e.user = uid /\ uid' = uid
              /\ live' = TRUE /\ by' = "nobody"
              /\ amiss' = IF by = "revoke" THEN amiss \cup {"hidden"} ELSE amiss
    <2>1. uid # 0
      BY <1>2, <1>10 DEF Names
    <2>2. Clear' => by # "revoke"
      BY <1>10 DEF Clear
    <2> QED
      BY <1>1, <1>5, <1>6, <1>7, <1>10, <2>1, <2>2, SFlips
  <1>11. CASE /\ e.act = "unsuspend-user" /\ e.user = uid /\ uid' = uid
              /\ live' = FALSE /\ by' = (IF live THEN "undo" ELSE by)
              /\ amiss' = IF live /\ Midway THEN amiss \cup {"hidden"} ELSE amiss
    <2>1. uid # 0
      BY <1>2, <1>11 DEF Names
    <2>2. CASE ~live
      BY <1>8, <1>11, <2>2 DEF SInv, LInv, TypeOK
    <2>3. CASE live
      <3>1. Clear' => ~Midway
        BY <1>11, <2>3 DEF Clear
      <3>2. \A u \in Tools : at[u] = "unsuspend" => op[u] = "invite"
        BY KindOf DEF SInv, LInv
      <3>3. ~Midway => ~Freeing /\ \A u \in Tools : at[u] # "unsuspend"
        BY <3>2 DEF Midway, Freeing, Nothing
      <3>4. by # "revoke"
        BY <2>3 DEF SInv, ByWhom
      <3> QED
        BY <1>1, <1>5, <1>6, <1>7, <1>11, <2>1, <2>3, <3>1, <3>3, <3>4, SFlips
    <2> QED
      BY <2>2, <2>3 DEF SInv, LInv, TypeOK
  <1> QED
    BY <1>1, <1>8, <1>9, <1>10, <1>11 DEF Inverts, logto

LEMMA SOwner ==
    ASSUME SInv, LInv', Owner
    PROVE  SInv'
  <1>1. UNCHANGED <<uid, ledger, at, op, saw, changed, note>> /\ amiss \subseteq amiss'
    BY DEF Owner, FlipsSuspension, FlipsRole, EditsPolicy, Edits, command
  <1>2. (Clear' => Clear) /\ (Whole' => Whole)
    BY <1>1 DEF Clear, Whole
  <1>3. CASE UNCHANGED <<live, by>>
    <2>1. (Suspending' <=> Suspending) /\ (Freeing' <=> Freeing) /\ \A u \in Tools : Concludes(u)' <=> Concludes(u)
      BY <1>1 DEF Suspending, Freeing, Concludes
    <2>2. SaysTrue' /\ IsSaid'
      BY <1>1, <1>2, <1>3, <2>1, SameWords DEF SInv, SaysTrue, IsSaid
    <2>3. Vetted' /\ ByWhom'
      BY <1>1, <1>2, <1>3 DEF SInv, Vetted, ByWhom
    <2> QED
      BY <2>2, <2>3 DEF SInv
  <1>4. CASE FlipsSuspension
    <2>1. /\ uid # 0 /\ live' = ~live /\ by' = (IF live THEN "console" ELSE "nobody")
          /\ Clear' => by # "revoke" /\ ~Midway
      BY <1>4 DEF FlipsSuspension, Clear
    <2>2. \A u \in Tools : at[u] = "unsuspend" => op[u] = "invite"
      BY KindOf DEF SInv, LInv
    <2>3. ~Midway => ~Freeing /\ \A u \in Tools : at[u] # "unsuspend"
      BY <2>2 DEF Midway, Freeing, Nothing
    <2>4. live' \in BOOLEAN /\ (live' <=> by' = "nobody") /\ by' # "revoke"
      BY <2>1
    <2> QED
      BY <1>1, <1>2, <2>1, <2>3, <2>4, SFlips
  <1> QED
    BY <1>3, <1>4 DEF Owner, FlipsRole, EditsPolicy

\* The steps there are, by what they leave alone.
Writes(t) ==
    /\ Wrote(t)
    /\ \/ CreatesUser(t) \/ Unsuspends(t) \/ Suspends(t)
       \/ \E r \in Rights : CreatesRole(t, r) \/ Grants(t, r) \/ RemovesRole(t, r)

LEMMA StepsOfATool ==
    ASSUME LInv, [Next]_vars, NEW t \in Tools,
           Commands(t) \/ Appends(t) \/ Tailnet(t) \/ Logto(t) \/ Fails(t) \/ Dies(t)
    PROVE  Passes(t) \/ Writes(t) \/ Undoes(t) \/ Appends(t)
  <1>0. TypeOK'
    BY TypeStep DEF LInv
  <1>1. CASE Commands(t) \/ Tailnet(t) \/ Fails(t) \/ Dies(t)
    <2>1. Commands(t) => \E kind \in Kinds \ {"none"}, rights \in SUBSET Rights : Begins(t, kind, rights)
      BY DEF Commands, Kinds
    <2> QED
      BY <1>0, <1>1, <2>1, LBegins, LTailnet, LFails
  <1>2. CASE Logto(t)
    BY <1>0, <1>2, LReading, LWrites DEF Logto, Writes
  <1> QED
    BY <1>1, <1>2

LEMMA StepsThereAre ==
    ASSUME LInv, [Next]_vars
    PROVE  \/ \E t \in Tools : Passes(t) \/ Writes(t) \/ Undoes(t) \/ Appends(t)
           \/ Owner
           \/ UNCHANGED vars
  BY StepsOfATool DEF Next

LEMMA SInvStep == SInv /\ [Next]_vars => SInv'
  <1> SUFFICES ASSUME SInv, [Next]_vars
               PROVE  SInv'
    OBVIOUS
  <1>0. LInv' /\ LInv
    BY LInvStep DEF SInv
  <1>1. ASSUME NEW t \in Tools, Passes(t) \/ Writes(t) \/ Undoes(t) \/ Appends(t)
        PROVE  SInv'
    BY <1>0, <1>1, SBesides, SWrites, SUndoes, SAppends DEF Passes, Writes
  <1>2. CASE Owner
    BY <1>0, <1>2, SOwner
  <1>3. CASE UNCHANGED vars
    <2>1. UNCHANGED <<uid, live, by, ledger, at, saw, changed, note, amiss>>
      BY <1>3 DEF vars, logto, command
    <2>2. /\ (Suspending' <=> Suspending) /\ (Freeing' <=> Freeing) /\ (Clear' <=> Clear) /\ (Whole' <=> Whole)
          /\ \A u \in Tools : Concludes(u)' <=> Concludes(u)
      BY <2>1 DEF Suspending, Freeing, Concludes, Clear, Whole
    <2>3. SaysTrue' /\ IsSaid'
      BY <2>1, <2>2, SameWords DEF SInv, SaysTrue, IsSaid
    <2> QED
      BY <1>0, <2>1, <2>2, <2>3 DEF SInv, Vetted, ByWhom
  <1> QED
    BY <1>0, <1>1, <1>2, <1>3, StepsThereAre

LEMMA SInvAlways == Spec => []SInv
  BY SInvInit, SInvStep, PTL DEF Spec

LEMMA NoteOfAnother ==
    ASSUME LInv, NEW t \in Tools, NEW u \in Tools \ {t},
           Passes(u) \/ Writes(u) \/ Undoes(u) \/ Appends(u)
    PROVE  note'[t] = note[t] /\ at'[t] = at[t]
  BY DEF LInv, Kept, TypeOK, Passes, Besides, Writes, Wrote, Untouched, Undoes, Owes, Over, Goes,
         Appends, command

\* An invite ends no suspension but revoke's, whatever runs beside it, but for what
\* the property excuses (people.py suspended_by_revoke, ensure_user).
THEOREM NoOthersSuspensionIsLifted == Spec => SuspensionStands
  <1>1. ASSUME SInv, [Next]_vars, NEW t \in Tools,
               at[t] = "unsuspend", ~live, live', note'[t].act = "unsuspend-user"
        PROVE  by = "revoke" \/ {"hidden", "raced", "unlogged"} \cap amiss # {}
    <2>1. note[t] = Nothing /\ note[t].act = "none"
      BY <1>1 DEF SInv, LInv, StepSound, Nothing
    <2>2. PICK u \in Tools : Passes(u) \/ Writes(u) \/ Undoes(u) \/ Appends(u)
      BY <1>1, <2>1, StepsThereAre
         DEF SInv, vars, Owner, FlipsSuspension, FlipsRole, EditsPolicy, Edits
    <2>3. u = t
      BY <1>1, <2>1, <2>2, NoteOfAnother DEF SInv
    <2>4. Unsuspends(t)
      BY <1>1, <2>1, <2>2, <2>3
         DEF Passes, Besides, Flips, Writes, Undoes, Appends, Pending, Ready,
             CreatesUser, Suspends, CreatesRole, Grants, RemovesRole
    <2>5. saw[t].id = uid
      BY <2>4 DEF Unsuspends
    <2> QED
      BY <1>1, <2>5 DEF SInv, Vetted, ByWhom, Clear
  <1>2. SInv /\ [Next]_vars =>
           [\A t \in Tools :
              at[t] = "unsuspend" /\ ~live /\ live' /\ note'[t].act = "unsuspend-user"
              => by = "revoke" \/ {"hidden", "raced", "unlogged"} \cap amiss # {}]_vars
    BY <1>1
  <1> QED
    BY <1>2, SInvAlways, PTL DEF Spec, SuspensionStands

Counted == troubles \in Nat

LEMMA TroublesCounted == Spec => []Counted
  <1>1. Init => Counted
    BY DEF Init, Counted
  <1>2. Counted /\ [Next]_vars => Counted'
    <2> SUFFICES ASSUME Counted, [Next]_vars
                 PROVE  troubles' \in {troubles, troubles + 1}
      BY DEF Counted
    <2>1. ASSUME NEW t \in Tools, Commands(t) \/ Appends(t) \/ Fails(t) \/ Dies(t)
          PROVE  troubles' \in {troubles, troubles + 1}
      BY <2>1 DEF Commands, Begins, Appends, Fails, Dies, Trouble, bounds
    <2>2. ASSUME NEW t \in Tools, Tailnet(t)
          PROVE  troubles' \in {troubles, troubles + 1}
      BY <2>2 DEF Tailnet, Reads, NothingToWrite, Refused, WritesPolicy, Conflicts, TailnetCallFails,
                  Trouble, bounds
    <2>3. ASSUME NEW t \in Tools, Logto(t)
          PROVE  troubles' = troubles
      BY <2>3 DEF Logto, Checks, Resends, LooksUp, CreatesUser, Vets, Unsuspends, RolesDone, UserMoved,
                  ListsRoles, RolesRemoved, Suspends, Closes, ListsUsers, Wants, Picks, Undoes,
                  CreatesRole, Grants, RemovesRole, bounds
    <2>4. CASE Owner
      BY <2>4 DEF Owner, FlipsSuspension, FlipsRole, EditsPolicy, Edits, Trouble
    <2> QED
      BY <2>1, <2>2, <2>3, <2>4 DEF Next, vars, bounds
  <1> QED
    BY <1>1, <1>2, PTL DEF Spec

\* Whom revoke has suspended can be invited back: the ledger says that it was revoke,
\* or is about to (people.py suspended_by_revoke, revoke).
THEOREM TheSuspendedAreInvitedBack == Spec => InvitedBack
  <1>1. ASSUME SInv, Counted, [Next]_vars, NEW t \in Tools,
               at[t] = "vet", note[t] = Nothing, at'[t] = "idle", troubles' = troubles,
               by = "revoke", saw[t].id = uid
        PROVE  {"parted", "raced", "unlogged"} \cap amiss # {} \/ \E u \in Tools : Closing(u)
    <2>1. ~SuspendedByRevoke(uid)
      <3>1. ASSUME NEW u \in Tools \ {t}, Passes(u) \/ Writes(u) \/ Undoes(u) \/ Appends(u)
            PROVE  FALSE
        BY <1>1, <3>1, NoteOfAnother DEF SInv
      <3>2. ~Owner /\ ~UNCHANGED vars
        BY <1>1 DEF Owner, FlipsSuspension, FlipsRole, EditsPolicy, Edits, vars, command
      <3>3. ASSUME NEW u \in Tools, Commands(u) \/ Appends(u) \/ Tailnet(u) \/ Logto(u) \/ Fails(u) \/ Dies(u)
            PROVE  Passes(u) \/ Writes(u) \/ Undoes(u) \/ Appends(u)
        BY <1>1, <3>3, StepsOfATool DEF SInv
      <3>4. PICK u \in Tools : Commands(u) \/ Appends(u) \/ Tailnet(u) \/ Logto(u) \/ Fails(u) \/ Dies(u)
        BY <1>1, <3>2 DEF Next
      <3>5. u = t
        BY <3>1, <3>3, <3>4
      <3>6. ~Fails(t) /\ ~Dies(t)
        BY <1>1 DEF Fails, Dies, Trouble, Counted
      <3>7. ~Commands(t) /\ ~Appends(t) /\ ~Tailnet(t)
        BY <1>1 DEF Commands, Begins, Appends, Pending, Ready, Tailnet, Reads, NothingToWrite, Refused,
                    WritesPolicy, Conflicts, TailnetCallFails
      <3>8. Vets(t)
        BY <1>1, <3>4, <3>5, <3>6, <3>7
           DEF Logto, Ready, Checks, Resends, LooksUp, CreatesUser, Unsuspends, RolesDone, UserMoved,
               ListsRoles, RolesRemoved, Suspends, Closes, ListsUsers, Wants, Picks, Undoes,
               CreatesRole, Grants, RemovesRole
      <3> QED
        BY <1>1, <3>8 DEF Vets, Goes, SInv, LInv, TypeOK
    <2>2. CASE ~Whole
      BY <2>2 DEF Whole
    <2>3. CASE Whole
      <3>1. Suspending \/ \E u \in Tools : Concludes(u)
        BY <1>1, <2>1, <2>3 DEF SInv, IsSaid
      <3> QED
        BY <3>1 DEF Suspending, Concludes, Closing
    <2> QED
      BY <2>2, <2>3
  <1>2. SInv /\ Counted /\ [Next]_vars =>
           [\A t \in Tools :
              /\ at[t] = "vet" /\ note[t] = Nothing /\ at'[t] = "idle" /\ troubles' = troubles
              /\ by = "revoke" /\ saw[t].id = uid
              => {"parted", "raced", "unlogged"} \cap amiss # {} \/ \E u \in Tools : Closing(u)]_vars
    BY <1>1
  <1> QED
    BY <1>2, SInvAlways, TroublesCounted, PTL DEF Spec, InvitedBack

-----------------------------------------------------------------------------
(* What the ledger tells                                                      *)

\* The line an entry is about, in a ledger L whose lines are numbered as they stand.
Real(L, e) == IF e.act = "undo" THEN L[e.of] ELSE e

\* An entry is about the user's suspension, or about their role of that id.
On(L, user, e, act, contrary, role) ==
    /\ Real(L, e).act \in {act, contrary} /\ Real(L, e).user = user
    /\ act = "assign-role" => Real(L, e).role = role

Yes(L, e, act, contrary) ==
    IF e.act = "undo" THEN Real(L, e).act = contrary ELSE e.act = act

LastYes(L, user, act, contrary, role) ==
    \E i \in DOMAIN L :
        /\ On(L, user, L[i], act, contrary, role)
        /\ \A j \in DOMAIN L : On(L, user, L[j], act, contrary, role) => j <= i
        /\ Yes(L, L[i], act, contrary)

\* With one more entry to come.
Latest(L, user, e, act, contrary, role) ==
    IF On(L, user, e, act, contrary, role) THEN Yes(L, e, act, contrary)
    ELSE LastYes(L, user, act, contrary, role)

Tells(L, user, on, has, ids, e) ==
    /\ \A r \in Rights : ids[r] # 0 =>
          (r \in has <=> Latest(L, user, e, "assign-role", "remove-role", ids[r]))
    /\ ~on <=> Latest(L, user, e, "suspend-user", "unsuspend-user", 0)

Sure == {"unlogged", "byhand", "raced"} \cap amiss = {}

\* Together with the one entry that is owed, the ledger tells who holds what. (When
\* two are owed it will be noted that they were written at once, or that one is lost.)
TellsAll ==
    Sure /\ uid # 0 =>
        /\ (\A u \in Tools : note[u].act \notin Told)
              => Tells(ledger, uid, live, roles, rid, Nothing)
        /\ \A t \in Tools :
              note[t].act \in Told /\ (\A u \in Tools \ {t} : note[u].act \notin Told)
              => Tells(ledger, uid, live, roles, rid, note[t])

TInv == SInv /\ TellsAll

LEMMA TInvInit == Init => TInv
  <1> SUFFICES ASSUME Init
               PROVE  TellsAll
    BY SInvInit DEF TInv
  <1>1. Tells(ledger, uid, live, roles, rid, Nothing)
    BY DEF Init, Tells, Latest, LastYes, On, Real, Nothing
  <1>2. \A u \in Tools : note[u].act \notin Told
    BY DEF Init, Nothing, Told, Undoable
  <1> QED
    BY <1>1, <1>2 DEF TellsAll

\* An entry of another kind tells nothing.
LEMMA TellsNothing ==
    ASSUME NEW L, NEW user, NEW on, NEW has, NEW ids, NEW e, e.act \notin Told
    PROVE  Tells(L, user, on, has, ids, e) <=> Tells(L, user, on, has, ids, Nothing)
  <1>1. \A role : \A act, contrary \in Told \ {"undo"} :
           ~On(L, user, e, act, contrary, role) /\ ~On(L, user, Nothing, act, contrary, role)
    BY DEF On, Real, Nothing, Told, Undoable
  <1>2. {"assign-role", "remove-role", "suspend-user", "unsuspend-user"} \subseteq Told \ {"undo"}
    BY DEF Told, Undoable
  <1> QED
    BY <1>1, <1>2 DEF Tells, Latest

\* Once the entry is written it is the last word.
LEMMA Written ==
    ASSUME NEW L \in Seq(Entries), NEW e \in Entries, NEW n, NEW user, NEW act, NEW contrary, NEW role,
           n.act = e.act, n.user = e.user, n.role = e.role, n.of = e.of,
           e.act = "undo" => e.of \in DOMAIN L,
           \A i \in DOMAIN L : L[i].act = "undo" => L[i].of \in DOMAIN L
    PROVE  LastYes(Append(L, e), user, act, contrary, role)
              <=> Latest(L, user, n, act, contrary, role)
  <1> DEFINE M == Append(L, e)
             k == Len(L) + 1
  <1>1. /\ Len(L) \in Nat /\ DOMAIN L = 1 .. Len(L) /\ DOMAIN M = 1 .. k /\ k \in Nat
        /\ M[k] = e /\ \A i \in DOMAIN L : M[i] = L[i]
    OBVIOUS
  <1>2. \A i \in DOMAIN L : /\ On(M, user, M[i], act, contrary, role) <=> On(L, user, L[i], act, contrary, role)
                            /\ Yes(M, M[i], act, contrary) <=> Yes(L, L[i], act, contrary)
    BY <1>1 DEF On, Yes, Real
  <1>3. /\ On(M, user, M[k], act, contrary, role) <=> On(L, user, n, act, contrary, role)
        /\ Yes(M, M[k], act, contrary) <=> Yes(L, n, act, contrary)
    BY <1>1 DEF On, Yes, Real
  <1> HIDE DEF M
  <1>4. CASE On(L, user, n, act, contrary, role)
    <2>1. On(M, user, M[k], act, contrary, role) /\ \A j \in DOMAIN M : j <= k
      BY <1>1, <1>3, <1>4
    <2>2. LastYes(M, user, act, contrary, role) <=> Yes(M, M[k], act, contrary)
      <3>1. ASSUME NEW i \in DOMAIN M, \A j \in DOMAIN M : On(M, user, M[j], act, contrary, role) => j <= i
            PROVE  i = k
        BY <1>1, <2>1, <3>1
      <3>2. k \in DOMAIN M
        BY <1>1
      <3> HIDE DEF k
      <3> QED
        BY <2>1, <3>1, <3>2 DEF LastYes
    <2> QED
      BY <1>3, <1>4, <2>2 DEF Latest, M
  <1>5. CASE ~On(L, user, n, act, contrary, role)
    <2>1. ~On(M, user, M[k], act, contrary, role)
      BY <1>3, <1>5
    <2>2. \A j \in DOMAIN M : On(M, user, M[j], act, contrary, role) => j \in DOMAIN L
      BY <1>1, <2>1
    <2>3. LastYes(M, user, act, contrary, role) <=> LastYes(L, user, act, contrary, role)
      <3>1. DOMAIN L \subseteq DOMAIN M
        BY <1>1
      <3> HIDE DEF k
      <3> QED
        BY <1>2, <2>2, <3>1 DEF LastYes
    <2> QED
      BY <1>5, <2>3 DEF Latest, M
  <1> QED
    BY <1>4, <1>5

\* A step that changes nothing a line tells of, and owes no such line.
LEMMA TIdle ==
    ASSUME TInv, SInv', UNCHANGED <<uid, live, roles, rid, ledger>>, Sure' => Sure,
           Sure' => \A u \in Tools : note'[u] = note[u] \/ (note[u].act \notin Told /\ note'[u].act \notin Told)
    PROVE  TInv'
  BY DEF TInv, TellsAll

LEMMA SureStays == Remembers => (Sure' => Sure)
  BY DEF Remembers, Sure

LEMMA TPasses ==
    ASSUME TInv, SInv', NEW t \in Tools, Passes(t)
    PROVE  TInv'
  <1>1. /\ UNCHANGED <<uid, live, roles, rid, ledger>> /\ (Sure' => Sure)
        /\ \A u \in Tools \ {t} : note'[u] = note[u]
        /\ note'[t].act \notin Told /\ (note[t].act \in Told => "unlogged" \in amiss')
    BY SureStays DEF Passes, Besides, Untouched
  <1> QED
    BY <1>1, TIdle DEF Sure

\* A step that owes a line: of the new state it has only to tell with that line.
LEMMA TOwes ==
    ASSUME TInv, SInv', NEW t \in Tools, ledger' = ledger, Remembers, note[t] = Nothing,
           \A u \in Tools \ {t} : note'[u] = note[u], note'[t].act \in Told,
           Sure /\ uid' # 0 /\ (uid # 0 => Tells(ledger, uid, live, roles, rid, Nothing))
              => Tells(ledger, uid', live', roles', rid', note'[t])
    PROVE  TInv'
  <1>1. Sure' => Sure
    BY SureStays
  <1>2. note[t].act \notin Told
    BY DEF Nothing, Told, Undoable
  <1>3. (\A u \in Tools \ {t} : note'[u].act \notin Told) => \A u \in Tools : note[u].act \notin Told
    BY <1>2
  <1> QED
    BY <1>1, <1>3 DEF TInv, TellsAll

LEMMA TAppends ==
    ASSUME TInv, SInv', NEW t \in Tools, Appends(t)
    PROVE  TInv'
  <1>1. PICK e \in Entries :
           /\ ledger' = Append(ledger, e)
           /\ e.act = note[t].act /\ e.user = note[t].user /\ e.role = note[t].role /\ e.of = note[t].of
    BY LAppends DEF TInv, SInv, LInv
  <1>2. /\ UNCHANGED <<uid, live, roles, rid>> /\ note[t] # Nothing /\ note' = [note EXCEPT ![t] = Nothing]
        /\ amiss' = amiss \cup Racing(t) \cup Parting(t)
    BY DEF Appends, logto, Pending
  <1>3. \A u \in Tools : note'[u] = IF u = t THEN Nothing ELSE note[u]
    BY <1>2 DEF TInv, SInv, LInv, Kept
  <1>4. Nothing.act \notin Told
    BY DEF Nothing, Told, Undoable
  <1>5. Sure' => Sure /\ "raced" \notin amiss /\ \A u \in Tools \ {t} : note[u] = Nothing
    BY <1>2 DEF Sure, Racing, Pending
  <1> SUFFICES ASSUME Sure', uid' # 0
               PROVE  Tells(ledger', uid', live', roles', rid', Nothing)
    BY <1>3, <1>4, <1>5 DEF TInv, TellsAll
  <1>6. Tells(ledger, uid, live, roles, rid, note[t])
    <2>1. CASE note[t].act \in Told
      BY <1>2, <1>4, <1>5, <2>1 DEF TInv, TellsAll
    <2>2. CASE note[t].act \notin Told
      BY <1>2, <1>4, <1>5, <2>2, TellsNothing DEF TInv, TellsAll
    <2> QED
      BY <2>1, <2>2
  <1>7. /\ ledger \in Seq(Entries)
        /\ \A i \in DOMAIN ledger : ledger[i].act = "undo" => ledger[i].of \in DOMAIN ledger
        /\ e.act = "undo" => e.of \in DOMAIN ledger
    BY <1>1, <1>2, <1>5 DEF TInv, SInv, LInv, Lines, NoteSound, Reverses
  <1>8. \A act, contrary, role :
           LastYes(ledger', uid, act, contrary, role) <=> Latest(ledger, uid, note[t], act, contrary, role)
    BY <1>1, <1>7, Written
  <1>9. \A role :
           /\ ~On(ledger', uid, Nothing, "assign-role", "remove-role", role)
           /\ ~On(ledger', uid, Nothing, "suspend-user", "unsuspend-user", role)
    BY DEF On, Real, Nothing
  <1> QED
    BY <1>2, <1>6, <1>8, <1>9 DEF Tells, Latest

\* A pending entry and a line are about a user and a role that have had their ids.
LEMMA RealNames ==
    ASSUME LInv, "raced" \notin amiss, NEW i \in DOMAIN ledger
    PROVE  /\ Real(ledger, ledger[i]).user <= issued /\ Real(ledger, ledger[i]).user \in Nat
           /\ Real(ledger, ledger[i]).role <= issued /\ Real(ledger, ledger[i]).role \in Nat
  <1>1. PICK j \in DOMAIN ledger : Real(ledger, ledger[i]) = ledger[j]
    BY DEF LInv, Lines, Reverses, Real
  <1>2. ledger[j] \in Entries /\ Names(ledger[j])
    BY DEF LInv, Lines
  <1> QED
    BY <1>1, <1>2 DEF Names, Entries

LEMMA TWrites ==
    ASSUME TInv, SInv', NEW t \in Tools, Writes(t)
    PROVE  TInv'
  <1>0. /\ ledger' = ledger /\ Remembers /\ note[t] = Nothing
        /\ \A u \in Tools \ {t} : note'[u] = note[u]
        /\ LInv /\ Ids /\ issued \in Nat /\ uid \in Nat /\ uid <= issued
    BY DEF Writes, Wrote, Untouched, TInv, SInv, LInv, TypeOK, Ids
  <1>1. CASE CreatesUser(t)
    <2>1. /\ uid' = issued + 1 /\ live' = TRUE /\ roles' = {} /\ rid' = rid
          /\ Owes(t, "create-user", issued + 1, 0, 0)
      BY <1>1 DEF CreatesUser
    <2>2. note'[t].act = "create-user"
      BY <1>0, <2>1, OwedNote
    <2>3. note'[t].act \in Told
      BY <2>2 DEF Told, Undoable
    <2>4. ASSUME Sure
          PROVE  Tells(ledger, uid', live', roles', rid', note'[t])
      <3>1. \A i \in DOMAIN ledger : Real(ledger, ledger[i]).user # issued + 1
        BY <1>0, <2>4, RealNames DEF Sure
      <3>2. \A act, contrary, role : ~LastYes(ledger, uid', act, contrary, role)
        BY <2>1, <3>1 DEF LastYes, On
      <3>3. \A role : /\ ~On(ledger, uid', note'[t], "assign-role", "remove-role", role)
                      /\ ~On(ledger, uid', note'[t], "suspend-user", "unsuspend-user", role)
        BY <2>2 DEF On, Real
      <3> QED
        BY <2>1, <3>2, <3>3 DEF Tells, Latest
    <2> QED
      BY <1>0, <2>3, <2>4, TOwes
  <1>2. CASE Unsuspends(t) \/ Suspends(t)
    <2>1. PICK act \in {"suspend-user", "unsuspend-user"} :
             /\ live' = (act = "unsuspend-user") /\ Owes(t, act, uid, 0, 0)
             /\ UNCHANGED <<uid, roles, rid>>
      BY <1>2 DEF Unsuspends, Suspends
    <2>2. note'[t].act = act /\ note'[t].user = uid
      BY <1>0, <2>1, OwedNote
    <2>3. note'[t].act \in Told
      BY <2>1, <2>2 DEF Told, Undoable
    <2>4. ASSUME Tells(ledger, uid, live, roles, rid, Nothing)
          PROVE  Tells(ledger, uid', live', roles', rid', note'[t])
      <3>1. \A role : /\ ~On(ledger, uid, note'[t], "assign-role", "remove-role", role)
                      /\ On(ledger, uid, note'[t], "suspend-user", "unsuspend-user", role)
                      /\ ~On(ledger, uid, Nothing, "assign-role", "remove-role", role)
        BY <2>1, <2>2 DEF On, Real, Nothing
      <3>2. Yes(ledger, note'[t], "suspend-user", "unsuspend-user") <=> act = "suspend-user"
        BY <2>1, <2>2 DEF Yes
      <3> QED
        BY <2>1, <2>4, <3>1, <3>2 DEF Tells, Latest
    <2> QED
      BY <1>0, <2>1, <2>3, <2>4, TOwes
  <1>3. ASSUME NEW r \in Rights, CreatesRole(t, r)
        PROVE  TInv'
    <2>1. /\ rid[r] = 0 /\ rid' = [rid EXCEPT ![r] = issued + 1] /\ Owes(t, "create-role", 0, issued + 1, 0)
          /\ UNCHANGED <<uid, live, roles>>
      BY <1>3 DEF CreatesRole
    <2>2. note'[t].act = "create-role"
      BY <1>0, <2>1, OwedNote
    <2>3. note'[t].act \in Told
      BY <2>2 DEF Told, Undoable
    <2>4. rid'[r] = issued + 1 /\ (\A q \in Rights \ {r} : rid'[q] = rid[q]) /\ r \notin roles
      BY <1>0, <2>1 DEF Ids
    <2>5. ASSUME Sure, Tells(ledger, uid, live, roles, rid, Nothing)
          PROVE  Tells(ledger, uid', live', roles', rid', note'[t])
      <3>1. \A i \in DOMAIN ledger : Real(ledger, ledger[i]).role # issued + 1
        BY <1>0, <2>5, RealNames DEF Sure
      <3>2. ~LastYes(ledger, uid, "assign-role", "remove-role", issued + 1)
        BY <3>1 DEF LastYes, On
      <3>3. \A role : /\ ~On(ledger, uid, note'[t], "assign-role", "remove-role", role)
                      /\ ~On(ledger, uid, note'[t], "suspend-user", "unsuspend-user", role)
                      /\ ~On(ledger, uid, Nothing, "assign-role", "remove-role", role)
                      /\ ~On(ledger, uid, Nothing, "suspend-user", "unsuspend-user", role)
        BY <2>2 DEF On, Real, Nothing
      <3>4. ASSUME NEW q \in Rights, rid'[q] # 0
            PROVE  q \in roles <=> LastYes(ledger, uid, "assign-role", "remove-role", rid'[q])
        BY <2>4, <2>5, <3>2, <3>3, <3>4 DEF Tells, Latest
      <3>5. ~live <=> LastYes(ledger, uid, "suspend-user", "unsuspend-user", 0)
        BY <2>5, <3>3 DEF Tells, Latest
      <3> QED
        BY <2>1, <3>3, <3>4, <3>5 DEF Tells, Latest
    <2> QED
      BY <1>0, <2>1, <2>3, <2>5, TOwes
  <1>4. ASSUME NEW r \in Rights, Grants(t, r) \/ RemovesRole(t, r), note' # note
        PROVE  TInv'
    <2>1. PICK act \in {"assign-role", "remove-role"} :
             /\ Owes(t, act, uid, rid[r], 0) /\ UNCHANGED <<uid, live, rid>>
             /\ roles' = IF act = "assign-role" THEN roles \cup {r} ELSE roles \ {r}
      BY <1>4 DEF Grants, RemovesRole
    <2>2. note'[t].act = act /\ note'[t].user = uid /\ note'[t].role = rid[r]
      BY <1>0, <2>1, OwedNote
    <2>3. note'[t].act \in Told
      BY <2>1, <2>2 DEF Told, Undoable
    <2>4. rid[r] # 0
      BY <1>0, <1>4 DEF Grants, RemovesRole, Ids
    <2>5. ASSUME Tells(ledger, uid, live, roles, rid, Nothing)
          PROVE  Tells(ledger, uid', live', roles', rid', note'[t])
      <3>1. \A role : /\ On(ledger, uid, note'[t], "assign-role", "remove-role", role) <=> role = rid[r]
                      /\ ~On(ledger, uid, note'[t], "suspend-user", "unsuspend-user", role)
                      /\ ~On(ledger, uid, Nothing, "assign-role", "remove-role", role)
                      /\ ~On(ledger, uid, Nothing, "suspend-user", "unsuspend-user", role)
        BY <2>1, <2>2 DEF On, Real, Nothing
      <3>2. Yes(ledger, note'[t], "assign-role", "remove-role") <=> act = "assign-role"
        BY <2>1, <2>2 DEF Yes
      <3>3. ASSUME NEW q \in Rights, rid[q] # 0
            PROVE  q \in roles' <=> Latest(ledger, uid, note'[t], "assign-role", "remove-role", rid[q])
        <4>1. CASE q = r
          BY <2>1, <3>1, <3>2, <4>1 DEF Latest
        <4>2. CASE q # r
          <5>1. rid[q] # rid[r]
            BY <1>0, <2>4, <4>2 DEF Ids
          <5> QED
            BY <2>1, <2>5, <3>1, <3>3, <4>2, <5>1 DEF Tells, Latest
        <4> QED
          BY <4>1, <4>2
      <3> QED
        BY <2>1, <2>5, <3>1, <3>3 DEF Tells, Latest
    <2> QED
      BY <1>0, <2>1, <2>3, <2>5, TOwes
  <1>5. ASSUME NEW r \in Rights, Grants(t, r) \/ RemovesRole(t, r), note' = note
        PROVE  TInv'
    <2>1. UNCHANGED <<uid, live, roles, rid>>
      <3>1. note'[t].act = "none"
        BY <1>0, <1>5 DEF Nothing
      <3>2. ~RemovesRole(t, r)
        BY <1>0, <3>1, OwedNote DEF RemovesRole
      <3>3. r \notin roles => ~Grants(t, r)
        BY <1>0, <3>1, OwedNote DEF Grants
      <3> QED
        BY <1>5, <3>2, <3>3 DEF Grants
    <2> QED
      BY <1>0, <1>5, <2>1, TIdle, SureStays
  <1> QED
    BY <1>1, <1>2, <1>3, <1>4, <1>5 DEF Writes

\* What an undo's entry tells is what the reversal of the line has made so.
LEMMA TUndoes ==
    ASSUME TInv, SInv', NEW t \in Tools, Undoes(t)
    PROVE  TInv'
  <1>0. PICK e \in Entries : e = ledger[pick[t]] /\ pick[t] \in DOMAIN ledger /\ e.act \in Undoable /\ Names(e)
    BY DEF Undoes, Ready, TInv, SInv, LInv, StepSound, Lines
  <1>1. /\ Over(t) /\ Inverts(e) /\ Owes(t, "undo", 0, 0, e.n) /\ note[t] = Nothing /\ ledger' = ledger
    BY <1>0 DEF Undoes, Ready
  <1>2. /\ LInv /\ Ids /\ \A u \in Tools \ {t} : note'[u] = note[u]
    BY <1>1 DEF TInv, SInv, LInv, Owes
  <1>3. note'[t].act = "undo" /\ note'[t].of = e.n
    BY <1>1, <1>2, OwedNote
  <1>4. Remembers
    BY <1>1 DEF Inverts, Remembers, logto
  <1>5. note'[t].act \in Told
    BY <1>3 DEF Told
  <1>6. ASSUME Sure, uid' # 0, uid # 0, Tells(ledger, uid, live, roles, rid, Nothing)
        PROVE  Tells(ledger, uid', live', roles', rid', note'[t])
    <2>1. Real(ledger, note'[t]) = e
      BY <1>0, <1>2, <1>3, <1>6 DEF Real, LInv, Lines, Sure
    <2>2. \A act, contrary, role :
             On(ledger, uid, note'[t], act, contrary, role) <=>
                e.act \in {act, contrary} /\ e.user = uid /\ (act = "assign-role" => e.role = role)
      BY <2>1 DEF On
    <2>3. \A act, contrary : Yes(ledger, note'[t], act, contrary) <=> e.act = contrary
      BY <1>3, <2>1 DEF Yes
    <2>4. \A role : /\ ~On(ledger, uid, Nothing, "assign-role", "remove-role", role)
                    /\ ~On(ledger, uid, Nothing, "suspend-user", "unsuspend-user", role)
      BY DEF On, Real, Nothing
    <2>5. /\ \A r \in Rights : rid[r] # 0 =>
                (r \in roles <=> LastYes(ledger, uid, "assign-role", "remove-role", rid[r]))
          /\ ~live <=> LastYes(ledger, uid, "suspend-user", "unsuspend-user", 0)
      BY <1>6, <2>4 DEF Tells, Latest
    <2>6. CASE e.act = "create-user" /\ uid' = 0
      BY <1>6, <2>6
    <2>7. CASE /\ e.act = "create-role" /\ UNCHANGED <<uid, live>>
               /\ \E r \in Rights : rid' = [rid EXCEPT ![r] = 0] /\ roles' = roles \ {r}
      <3>1. PICK r \in Rights : rid' = [rid EXCEPT ![r] = 0] /\ roles' = roles \ {r}
        BY <2>7
      <3>2. rid'[r] = 0 /\ \A q \in Rights \ {r} : rid'[q] = rid[q]
        BY <1>2, <3>1 DEF Ids
      <3>3. \A act \in {"assign-role", "suspend-user"}, contrary \in {"remove-role", "unsuspend-user"} :
               \A role : ~On(ledger, uid, note'[t], act, contrary, role)
        BY <2>2, <2>7
      <3> QED
        BY <2>5, <2>7, <3>1, <3>2, <3>3 DEF Tells, Latest
    <2>8. CASE /\ e.act \in {"assign-role", "remove-role"} /\ e.user = uid /\ UNCHANGED <<uid, live, rid>>
               /\ \E r \in Rights : rid[r] = e.role /\ roles' = RolesUndone(e, r)
      <3>1. PICK r \in Rights : rid[r] = e.role /\ roles' = RolesUndone(e, r)
        BY <2>8
      <3>2. rid[r] # 0
        BY <1>0, <2>8, <3>1 DEF Names
      <3>3. ASSUME NEW q \in Rights, rid[q] # 0
            PROVE  q \in roles' <=> Latest(ledger, uid, note'[t], "assign-role", "remove-role", rid[q])
        <4>1. CASE q = r
          <5>1. On(ledger, uid, note'[t], "assign-role", "remove-role", rid[q])
            BY <2>2, <2>8, <3>1, <4>1
          <5>2. q \in roles' <=> e.act = "remove-role"
            BY <2>8, <3>1, <4>1 DEF RolesUndone
          <5> QED
            BY <2>3, <5>1, <5>2 DEF Latest
        <4>2. CASE q # r
          <5>1. rid[q] # rid[r]
            BY <1>2, <3>2, <4>2 DEF Ids
          <5>2. ~On(ledger, uid, note'[t], "assign-role", "remove-role", rid[q])
            BY <2>2, <3>1, <5>1
          <5>3. q \in roles' <=> q \in roles
            BY <3>1, <4>2 DEF RolesUndone
          <5> QED
            BY <2>5, <3>3, <5>2, <5>3 DEF Latest
        <4> QED
          BY <4>1, <4>2
      <3>4. ~On(ledger, uid, note'[t], "suspend-user", "unsuspend-user", 0)
        BY <2>2, <2>8
      <3> QED
        BY <2>5, <2>8, <3>3, <3>4 DEF Tells, Latest
    <2>9. CASE /\ e.act \in {"suspend-user", "unsuspend-user"} /\ e.user = uid /\ UNCHANGED <<uid, roles, rid>>
               /\ live' = (e.act = "suspend-user")
      <3>1. On(ledger, uid, note'[t], "suspend-user", "unsuspend-user", 0)
        BY <2>2, <2>9
      <3>2. \A role : ~On(ledger, uid, note'[t], "assign-role", "remove-role", role)
        BY <2>2, <2>9
      <3>3. ~live' <=> Latest(ledger, uid, note'[t], "suspend-user", "unsuspend-user", 0)
        <4>1. ~live' <=> e.act = "unsuspend-user"
          BY <2>9
        <4>2. Yes(ledger, note'[t], "suspend-user", "unsuspend-user") <=> e.act = "unsuspend-user"
          BY <2>3
        <4> QED
          BY <3>1, <4>1, <4>2 DEF Latest
      <3> QED
        BY <2>5, <2>9, <3>2, <3>3 DEF Tells, Latest
    <2>10. CASE /\ UNCHANGED <<uid, live, roles, rid>>
                /\ e.user # uid \/ (e.role # 0 /\ \A r \in Rights : rid[r] # e.role)
      <3>1. \A r \in Rights : ~On(ledger, uid, note'[t], "assign-role", "remove-role", rid[r])
        BY <2>2, <2>10
      <3>2. ~On(ledger, uid, note'[t], "suspend-user", "unsuspend-user", 0)
        BY <1>0, <2>2, <2>10 DEF Names
      <3> QED
        BY <2>5, <2>10, <3>1, <3>2 DEF Tells, Latest
    <2> QED
      BY <1>1, <2>6, <2>7, <2>8, <2>9, <2>10 DEF Inverts, logto
  <1>7. uid' # 0 => uid # 0
    BY <1>1 DEF Inverts, logto
  <1> QED
    BY <1>1, <1>2, <1>4, <1>5, <1>6, <1>7, TOwes

LEMMA TOwner ==
    ASSUME TInv, SInv', Owner
    PROVE  TInv'
  <1>1. UNCHANGED <<uid, rid, ledger, note>> /\ amiss \subseteq amiss'
    BY DEF Owner, FlipsSuspension, FlipsRole, EditsPolicy, Edits
  <1>2. CASE UNCHANGED <<live, roles>>
    BY <1>1, <1>2, TIdle DEF Sure
  <1>3. CASE "byhand" \in amiss'
    BY <1>3 DEF TInv, TellsAll, Sure
  <1> QED
    BY <1>2, <1>3 DEF Owner, FlipsSuspension, FlipsRole, EditsPolicy

LEMMA TInvStep == TInv /\ [Next]_vars => TInv'
  <1> SUFFICES ASSUME TInv, [Next]_vars
               PROVE  TInv'
    OBVIOUS
  <1>0. SInv' /\ LInv
    BY SInvStep DEF TInv, SInv
  <1>1. CASE UNCHANGED vars
    <2>1. UNCHANGED <<uid, live, roles, rid, ledger, note, amiss>>
      BY <1>1 DEF vars, logto
    <2> QED
      BY <1>0, <2>1, TIdle DEF Sure
  <1> QED
    BY <1>0, <1>1, StepsThereAre, TPasses, TWrites, TUndoes, TAppends, TOwner

LEMMA TInvAlways == Spec => []TInv
  BY TInvInit, TInvStep, PTL DEF Spec

\* The ledger, read in order and with undo, tells who holds which role and whether the
\* user is suspended, but for what the property excuses (logto-admin.py record, undo).
THEOREM TheLedgerTells == Spec => []LedgerTells
  <1>1. TInv => LedgerTells
    <2> SUFFICES ASSUME TInv, Sure, uid # 0, \A t \in Tools : note[t].act \notin Told
                 PROVE  /\ \A r \in Rights : rid[r] # 0 =>
                              (r \in roles <=> LastSays(RoleLines(r), "assign-role", "remove-role"))
                        /\ ~live <=> LastSays(SuspensionLines, "suspend-user", "unsuspend-user")
      BY DEF LedgerTells, Sure, Told
    <2>1. Tells(ledger, uid, live, roles, rid, Nothing)
      BY DEF TInv, TellsAll
    <2>2. \A i \in DOMAIN ledger : About(ledger[i]) = Real(ledger, ledger[i])
      <3> TAKE i \in DOMAIN ledger
      <3>1. ledger[i].act = "undo" => ledger[i].of \in DOMAIN ledger
        BY DEF TInv, SInv, LInv, Lines, Sure, Reverses
      <3>2. \A j \in DOMAIN ledger : ledger[j].n = j
        BY DEF TInv, SInv, LInv, Lines, Sure
      <3>3. CASE ledger[i].act = "undo"
        <4>1. (CHOOSE j \in DOMAIN ledger : ledger[j].n = ledger[i].of) = ledger[i].of
          BY <3>1, <3>2, <3>3
        <4>2. About(ledger[i]) = ledger[CHOOSE j \in DOMAIN ledger : ledger[j].n = ledger[i].of]
          BY <3>3, Zenon DEF About
        <4> QED
          BY <3>3, <4>1, <4>2 DEF Real
      <3> QED
        BY <3>3 DEF About, Real
    <2>3. \A role : /\ ~On(ledger, uid, Nothing, "assign-role", "remove-role", role)
                    /\ ~On(ledger, uid, Nothing, "suspend-user", "unsuspend-user", role)
      BY DEF On, Real, Nothing
    <2>4. \A i \in DOMAIN ledger, act, contrary \in Told :
             Says(ledger[i], act, contrary) <=> Yes(ledger, ledger[i], act, contrary)
      BY <2>2 DEF Says, Yes
    <2>5. {"assign-role", "remove-role", "suspend-user", "unsuspend-user"} \subseteq Told
      BY DEF Told, Undoable
    <2>6. ASSUME NEW r \in Rights
          PROVE  LastSays(RoleLines(r), "assign-role", "remove-role")
                    <=> LastYes(ledger, uid, "assign-role", "remove-role", rid[r])
      <3>1. RoleLines(r) = {i \in DOMAIN ledger : On(ledger, uid, ledger[i], "assign-role", "remove-role", rid[r])}
        BY <2>2 DEF RoleLines, On
      <3> QED
        BY <2>4, <2>5, <3>1 DEF LastSays, LastYes
    <2>7. LastSays(SuspensionLines, "suspend-user", "unsuspend-user")
             <=> LastYes(ledger, uid, "suspend-user", "unsuspend-user", 0)
      <3>1. SuspensionLines = {i \in DOMAIN ledger : On(ledger, uid, ledger[i], "suspend-user", "unsuspend-user", 0)}
        BY <2>2 DEF SuspensionLines, On
      <3> QED
        BY <2>4, <2>5, <3>1 DEF LastSays, LastYes
    <2> QED
      BY <2>1, <2>3, <2>6, <2>7 DEF Tells, Latest
  <1> QED
    BY <1>1, TInvAlways, PTL

=============================================================================
