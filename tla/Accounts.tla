------------------------------- MODULE Accounts -----------------------------
(***************************************************************************)
(* The server's side of signing in: user accounts and their changes by     *)
(* administrators, the refresh sessions with rotation and the detection of *)
(* reuse.  SignIn adds the browser.                                        *)
(***************************************************************************)
EXTENDS Naturals, FiniteSets, Sequences

CONSTANTS
    Users, Me,     (* the accounts; the one the browser signs in to        *)
    InitialRole,   (* InitialRole[u]                                       *)
    Patches,       (* bound: changes of accounts asked for                 *)
    Changes,       (* bound: the pairs of role and status they ask for     *)
    Calls,         (* bound: refresh requests at the server at one time    *)
    MaxTokens,     (* bound: refresh tokens ever issued                    *)
    Same           (* a field the change leaves out                        *)

Roles == {"ADMIN", "TEACHER", "STUDENT"}
Statuses == {"ACTIVE", "LOCKED", "PENDING"}

\* The first administrator comes from the command line (bootstrap.py).
ASSUME AccountsAssumption ==
    /\ Me \in Users
    /\ IsFiniteSet(Users)
    /\ InitialRole \in [Users -> Roles]
    /\ \E u \in Users : InitialRole[u] = "ADMIN"
    /\ Same \notin Roles \union Statuses \union Patches
    /\ MaxTokens \in Nat \ {0}
    /\ Changes \subseteq (Roles \union {Same}) \X (Statuses \union {Same})

VARIABLES
    role, status, (* users                                                 *)
    patch,        (* patch[p]: a PATCH of an account                       *)
    adminLock,    (* who holds the advisory lock of the last admin         *)
    unlocked,     (* an admin became unusable by a write without the lock (history) *)
    token,        (* refresh_sessions of Me, in the order of their issue   *)
    call,         (* call[c]: a refresh request                            *)
    reused        (* a token that had been rotated was taken for stolen (history) *)

accountVars == <<role, status, patch, adminLock, unlocked>>
serverVars == <<role, status, patch, adminLock, unlocked, token, call, reused>>

NoPatch == [pc |-> "new", target |-> Me, role |-> Same, status |-> Same, seen |-> <<Same, Same>>]
NoCall == [pc |-> "free", tab |-> Same, token |-> 0]

ServerInit(P) ==
    /\ role = InitialRole
    /\ status = [u \in Users |-> "ACTIVE"]
    /\ patch = [p \in Patches |-> IF p \in P THEN NoPatch ELSE [NoPatch EXCEPT !.pc = "done"]]
    /\ adminLock = Same /\ unlocked = FALSE
    /\ token = <<>>
    /\ call = [c \in Calls |-> NoCall]
    /\ reused = FALSE

-----------------------------------------------------------------------------
(* Administrators change accounts                                          *)

Usable(u) == role[u] = "ADMIN" /\ status[u] = "ACTIVE"
UsableAdmins == {u \in Users : Usable(u)}

\* What is known of the target before any lock decides whether the lock is taken.
Dangerous(u, newRole, newStatus) ==
    /\ Usable(u)
    /\ newRole \notin {Same, "ADMIN"} \/ newStatus \notin {Same, "ACTIVE"}

\* An administrator asks for a change of another account; an own change is refused.
AskPatch(p, actor, u, newRole, newStatus) ==
    /\ patch[p].pc = "new"
    /\ Usable(actor) /\ actor # u
    /\ patch' = [patch EXCEPT ![p] =
          [pc |-> IF Dangerous(u, newRole, newStatus) THEN "lock" ELSE "role",
           target |-> u, role |-> newRole, status |-> newStatus,
           seen |-> <<role[u], status[u]>>]]
    /\ UNCHANGED <<role, status, adminLock, unlocked, token, call, reused>>

\* Mutant of LockAdmins: the administrator to be changed is not counted out.
LockAdminsOffByOne(p) ==
    /\ patch[p].pc = "lock"
    /\ adminLock = Same
    /\ Cardinality(UsableAdmins) >= 1
    /\ patch' = [patch EXCEPT ![p].pc = "role"]
    /\ adminLock' = p
    /\ UNCHANGED <<role, status, unlocked, token, call, reused>>

\* Under the lock the usable administrators are counted; the last one stays.
LockAdmins(p) ==
    /\ patch[p].pc = "lock"
    /\ adminLock = Same
    /\ IF Cardinality(UsableAdmins) <= 1
         THEN patch' = [patch EXCEPT ![p].pc = "done"] /\ UNCHANGED adminLock
         ELSE patch' = [patch EXCEPT ![p].pc = "role"] /\ adminLock' = p
    /\ UNCHANGED <<role, status, unlocked, token, call, reused>>

Unlock(p) == adminLock' = IF adminLock = p THEN Same ELSE adminLock

\* Notes a write that takes away a usable administrator although p has no lock.
NoteUnlocked(p, u) ==
    unlocked' = \/ unlocked
                \/ Usable(u) /\ adminLock # p /\ <<role'[u], status'[u]>> # <<"ADMIN", "ACTIVE">>

\* The role, if the change has one, is committed with its audit record: that ends the
\* transaction, and with it the lock.  A value equal to the one read is not written.
WriteRole(p) ==
    LET x == patch[p] IN
    /\ x.pc = "role"
    /\ role' = IF x.role \in {Same, x.seen[1]} THEN role ELSE [role EXCEPT ![x.target] = x.role]
    /\ status' = status
    /\ NoteUnlocked(p, x.target)
    /\ IF x.role = Same THEN UNCHANGED adminLock ELSE Unlock(p)
    /\ patch' = [patch EXCEPT ![p].pc = IF x.status = Same THEN "done" ELSE "status"]
    /\ UNCHANGED <<token, call, reused>>

\* The status is committed in the same way, and the sessions are revoked afterwards.
\* After the commit of a role nothing counts as read any more.
WriteStatus(p) ==
    LET x == patch[p] IN
    /\ x.pc = "status"
    /\ status' = IF x.role = Same /\ x.status = x.seen[2] THEN status
                 ELSE [status EXCEPT ![x.target] = x.status]
    /\ role' = role
    /\ NoteUnlocked(p, x.target)
    /\ Unlock(p)
    /\ patch' = [patch EXCEPT ![p].pc = IF x.status = "ACTIVE" THEN "done" ELSE "revoke"]
    /\ UNCHANGED <<token, call, reused>>

RevokeAll == token' = [i \in DOMAIN token |-> [token[i] EXCEPT !.revoked = TRUE]]

RevokeSessions(p) ==
    /\ patch[p].pc = "revoke"
    /\ IF patch[p].target = Me THEN RevokeAll ELSE UNCHANGED token
    /\ patch' = [patch EXCEPT ![p].pc = "done"]
    /\ UNCHANGED <<role, status, adminLock, unlocked, call, reused>>

AdminStep ==
    \E p \in Patches :
        \/ \E actor, u \in Users, x \in Changes : AskPatch(p, actor, u, x[1], x[2])
        \/ LockAdmins(p) \/ WriteRole(p) \/ WriteStatus(p) \/ RevokeSessions(p)

-----------------------------------------------------------------------------
(* Refresh sessions                                                        *)

Active(i) == ~token[i].revoked
FamilyOf(i) == token[i].family
Families == {FamilyOf(i) : i \in DOMAIN token}
ActiveIn(f) == {i \in DOMAIN token : FamilyOf(i) = f /\ Active(i)}

\* A token of a new family (the number of its first token) or of the family f.
Issued(f) ==
    Append(token, [family |-> IF f = 0 THEN Len(token) + 1 ELSE f,
                   revoked |-> FALSE, rotated |-> "never"])

\* Bound: there is a number left for every token under way.
RoomForToken == Len(token) + Cardinality({c \in Calls : call[c].pc = "checked"}) < MaxTokens

\* Mutant of WithinReuseGrace: the family is not looked at.
GraceAlone(i) == token[i].rotated = "recent"

\* A rotation moments ago, in a family that is alive, may be repeated.
WithinReuseGrace(i) == token[i].rotated = "recent" /\ ActiveIn(FamilyOf(i)) # {}

RevokeFamily(f) ==
    token' = [i \in DOMAIN token |-> IF FamilyOf(i) = f THEN [token[i] EXCEPT !.revoked = TRUE]
                                                        ELSE token[i]]

\* The answer, which is dropped when nobody waits for it.
Answer(c, pc, i) ==
    call' = [call EXCEPT ![c] = IF @.tab = Same THEN NoCall ELSE [@ EXCEPT !.pc = pc, !.token = i]]

\* The first transaction of a rotation, under the lock of the token's row.
CheckRefresh(c) ==
    LET i == call[c].token IN
    /\ call[c].pc = "sent"
    /\ \/ /\ token[i].revoked /\ ~WithinReuseGrace(i)
          /\ RevokeFamily(FamilyOf(i))
          /\ reused' = (reused \/ token[i].rotated # "never")
          /\ Answer(c, "refused", i)
       \/ /\ ~token[i].revoked \/ WithinReuseGrace(i)
          /\ status[Me] # "ACTIVE"
          /\ Answer(c, "refused", i)
          /\ UNCHANGED <<token, reused>>
       \/ /\ ~token[i].revoked \/ WithinReuseGrace(i)
          /\ status[Me] = "ACTIVE"
          /\ RoomForToken
          /\ token' = IF token[i].revoked THEN token
                      ELSE [token EXCEPT ![i].revoked = TRUE, ![i].rotated = "recent"]
          /\ call' = [call EXCEPT ![c].pc = "checked"]
          /\ reused' = reused
    /\ UNCHANGED accountVars

\* The second transaction inserts the successor, whatever happened in between.
IssueRefresh(c) ==
    /\ call[c].pc = "checked"
    /\ token' = Issued(FamilyOf(call[c].token))
    /\ Answer(c, "issued", Len(token) + 1)
    /\ UNCHANGED <<accountVars, reused>>

\* REFRESH_REUSE_GRACE_SECONDS after its rotation.  The expiry after
\* REFRESH_TOKEN_EXPIRE_MINUTES (a week) is left out.
GraceEnds(i) ==
    /\ token[i].rotated = "recent"
    /\ token' = [token EXCEPT ![i].rotated = "past"]
    /\ UNCHANGED <<accountVars, call, reused>>
=============================================================================
