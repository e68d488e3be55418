---------------------------- MODULE SignInProofs ----------------------------
(***************************************************************************)
(* Proofs about the accounts and the sign-in for every set of users, tabs, *)
(* changes of accounts and requests, and every bound.                      *)
(***************************************************************************)
EXTENDS SignIn, FiniteSetTheorems, TLAPS

-----------------------------------------------------------------------------
(* The last administrator.                                                 *)

AnyRole == Roles \union {Same}
AnyStatus == Statuses \union {Same}
Patch == [pc : {"new", "lock", "role", "status", "revoke", "done"}, target : Users,
          role : AnyRole, status : AnyStatus, seen : AnyRole \X AnyStatus]

AdminTypeOK ==
    /\ role \in [Users -> Roles]
    /\ status \in [Users -> Statuses]
    /\ patch \in [Patches -> Patch]
    /\ adminLock \in Patches \union {Same}
    /\ unlocked \in BOOLEAN

\* Who waits for the lock or holds it has something to write, and the lock goes with it.
LockEnds ==
    \A p \in Patches :
        /\ patch[p].pc = "status" => patch[p].status # Same
        /\ patch[p].pc = "lock" \/ adminLock = p =>
             patch[p].role # Same \/ patch[p].status # Same
        /\ adminLock = p => patch[p].pc \in {"role", "status"}

\* As long as every write holds the lock, there is another administrator than the one
\* that the holder changes.
AnotherStays ==
    \A p \in Patches : adminLock = p /\ ~unlocked => UsableAdmins \ {patch[p].target} # {}

AdminInv == AdminTypeOK /\ LockEnds /\ AnotherStays /\ LastAdminIsLocked

LEMMA InitAdminInv == Init => AdminInv
<1> SUFFICES ASSUME Init PROVE AdminInv
  OBVIOUS
<1>1. PICK P \in SUBSET Patches : ServerInit(P)
  BY DEF Init
<1>2. /\ role = InitialRole /\ status = [u \in Users |-> "ACTIVE"]
      /\ adminLock = Same /\ unlocked = FALSE
      /\ patch = [p \in Patches |-> IF p \in P THEN NoPatch ELSE [NoPatch EXCEPT !.pc = "done"]]
  BY <1>1 DEF ServerInit
<1>3. NoPatch \in Patch /\ [NoPatch EXCEPT !.pc = "done"] \in Patch
      /\ NoPatch.pc = "new" /\ [NoPatch EXCEPT !.pc = "done"].pc = "done"
  BY AccountsAssumption DEF NoPatch, Patch, AnyRole, AnyStatus
<1>4. AdminTypeOK
  BY <1>2, <1>3, AccountsAssumption DEF AdminTypeOK, Statuses
<1>5. LockEnds
  BY <1>2, <1>3, AccountsAssumption DEF LockEnds
<1>6. AnotherStays
  BY <1>2, AccountsAssumption DEF AnotherStays
<1>7. LastAdminIsLocked
  BY <1>2, AccountsAssumption DEF LastAdminIsLocked, UsableAdmins, Usable
<1> QED BY <1>4, <1>5, <1>6, <1>7 DEF AdminInv

\* What a write leaves of the usable administrators: all but the target, and the target
\* too if the lock is not held and nothing was noted.
WriteFits(p) ==
    /\ \A u \in Users : u # patch[p].target => (Usable(u) => Usable(u)')
    /\ adminLock # p /\ ~unlocked' => \A u \in Users : Usable(u) => Usable(u)'
    /\ unlocked => unlocked'
    /\ adminLock' \in {adminLock, Same}

LEMMA WriteStep ==
  ASSUME AdminInv, NEW p \in Patches, NEW x \in Patch, WriteFits(p),
         patch' = [patch EXCEPT ![p] = x], x.target = patch[p].target,
         x.role = patch[p].role, x.status = patch[p].status,
         AdminTypeOK', x.pc # "lock", x.pc = "status" => x.status # Same,
         adminLock' = p => x.pc \in {"role", "status"}
  PROVE  AdminInv'
<1> USE DEF AdminInv
<1>1. /\ \A q \in Patches : patch'[q] = IF q = p THEN x ELSE patch[q]
      /\ Same \notin Patches
  BY AccountsAssumption DEF AdminTypeOK
<1>2. LockEnds'
  BY <1>1 DEF LockEnds, WriteFits
<1>3. AnotherStays'
  <2> SUFFICES ASSUME NEW q \in Patches, adminLock' = q, ~unlocked'
               PROVE  \E u \in Users : u # patch'[q].target /\ Usable(u)'
    BY DEF AnotherStays, UsableAdmins
  <2>1. adminLock = q /\ ~unlocked /\ patch'[q].target = patch[q].target
    BY <1>1 DEF WriteFits
  <2>2. PICK u \in Users : u # patch[q].target /\ Usable(u)
    BY <2>1 DEF AnotherStays, UsableAdmins
  <2>3. Usable(u)'
    BY <2>1, <2>2 DEF WriteFits
  <2> QED BY <2>1, <2>2, <2>3
<1>4. LastAdminIsLocked'
  <2> SUFFICES ASSUME ~unlocked'
               PROVE  \E u \in Users : Usable(u)'
    BY DEF LastAdminIsLocked, UsableAdmins
  <2>1. CASE adminLock = p
    <3>1. PICK u \in Users : u # patch[p].target /\ Usable(u)
      BY <2>1 DEF AnotherStays, UsableAdmins, WriteFits
    <3> QED BY <3>1 DEF WriteFits
  <2>2. CASE adminLock # p
    <3>1. PICK u \in Users : Usable(u)
      BY DEF LastAdminIsLocked, UsableAdmins, WriteFits
    <3> QED BY <2>2, <3>1 DEF WriteFits
  <2> QED BY <2>1, <2>2
<1> QED BY <1>2, <1>3, <1>4

PatchPcs == {"new", "lock", "role", "status", "revoke", "done"}

\* What becomes of a change.
LEMMA PatchFacts ==
  ASSUME NEW x \in Patch, NEW pc \in PatchPcs
  PROVE  LET y == [x EXCEPT !.pc = pc]
         IN  /\ y \in Patch /\ y.pc = pc /\ y.target = x.target
             /\ y.role = x.role /\ y.status = x.status
BY DEF Patch, PatchPcs

LEMMA AskPatchStep ==
  ASSUME AdminInv, NEW p \in Patches, NEW actor \in Users, NEW u \in Users, NEW x \in Changes,
         AskPatch(p, actor, u, x[1], x[2])
  PROVE  AdminInv'
<1> USE DEF AdminInv
<1> DEFINE pc == IF Dangerous(u, x[1], x[2]) THEN "lock" ELSE "role"
           y == [pc |-> pc, target |-> u, role |-> x[1], status |-> x[2],
                 seen |-> <<role[u], status[u]>>]
<1>1. /\ patch[p].pc = "new" /\ patch' = [patch EXCEPT ![p] = y]
      /\ UNCHANGED <<role, status, adminLock, unlocked>>
  BY DEF AskPatch
<1>2. pc # "status" /\ (pc = "lock" => x[1] # Same \/ x[2] # Same)
  BY DEF Dangerous
<1>3. y \in Patch
  <2>1. x[1] \in AnyRole /\ x[2] \in AnyStatus
    BY AccountsAssumption DEF AnyRole, AnyStatus
  <2>2. <<role[u], status[u]>> \in AnyRole \X AnyStatus
    BY DEF AdminTypeOK, AnyRole, AnyStatus
  <2>3. pc \in {"lock", "role"}
    OBVIOUS
  <2> HIDE DEF pc
  <2> QED BY <2>1, <2>2, <2>3 DEF Patch
<1>4. y.pc = pc /\ y.role = x[1] /\ y.status = x[2]
  OBVIOUS
<1> HIDE DEF y, pc
<1>5. \A q \in Patches : patch'[q] = IF q = p THEN y ELSE patch[q]
  BY <1>1 DEF AdminTypeOK
<1>6. adminLock # p
  BY <1>1 DEF LockEnds
<1>7. AdminTypeOK'
  BY <1>1, <1>3 DEF AdminTypeOK
<1>8. LockEnds'
  BY <1>1, <1>2, <1>4, <1>5, <1>6 DEF LockEnds
<1>9. AnotherStays' /\ LastAdminIsLocked'
  BY <1>1, <1>5, <1>6 DEF AnotherStays, LastAdminIsLocked, UsableAdmins, Usable
<1> QED BY <1>7, <1>8, <1>9

LEMMA LockAdminsStep ==
  ASSUME AdminInv, NEW p \in Patches, LockAdmins(p)
  PROVE  AdminInv'
<1> USE DEF AdminInv
<1>1. /\ patch[p].pc = "lock" /\ adminLock = Same /\ UNCHANGED <<role, status, unlocked>>
  BY DEF LockAdmins
<1>2. Same \notin Patches /\ patch[p] \in Patch
  BY AccountsAssumption DEF AdminTypeOK
<1>3. CASE Cardinality(UsableAdmins) <= 1
  <2>1. patch' = [patch EXCEPT ![p].pc = "done"] /\ adminLock' = Same
    BY <1>1, <1>3 DEF LockAdmins
  <2> DEFINE y == [patch[p] EXCEPT !.pc = "done"]
  <2>2. patch' = [patch EXCEPT ![p] = y]
    BY <2>1 DEF AdminTypeOK
  <2>3. y \in Patch /\ y.pc = "done"
    BY <1>2, PatchFacts DEF PatchPcs
  <2> HIDE DEF y
  <2>4. \A q \in Patches : patch'[q] = IF q = p THEN y ELSE patch[q]
    BY <2>2 DEF AdminTypeOK
  <2>5. AdminTypeOK' /\ LockEnds'
    BY <1>1, <1>2, <2>1, <2>2, <2>3, <2>4 DEF AdminTypeOK, LockEnds
  <2>6. AnotherStays' /\ LastAdminIsLocked'
    BY <1>1, <1>2, <2>1 DEF AnotherStays, LastAdminIsLocked, UsableAdmins, Usable
  <2> QED BY <2>5, <2>6
<1>4. CASE ~(Cardinality(UsableAdmins) <= 1)
  <2>1. patch' = [patch EXCEPT ![p].pc = "role"] /\ adminLock' = p
    BY <1>1, <1>4 DEF LockAdmins
  <2> DEFINE y == [patch[p] EXCEPT !.pc = "role"]
  <2>2. patch' = [patch EXCEPT ![p] = y]
    BY <2>1 DEF AdminTypeOK
  <2>3. /\ y \in Patch /\ y.pc = "role" /\ y.target = patch[p].target /\ y.role = patch[p].role
        /\ y.status = patch[p].status
    BY <1>2, PatchFacts DEF PatchPcs
  <2> HIDE DEF y
  <2>4. \A q \in Patches : patch'[q] = IF q = p THEN y ELSE patch[q]
    BY <2>2 DEF AdminTypeOK
  <2>5. AdminTypeOK'
    BY <1>1, <2>1, <2>2, <2>3 DEF AdminTypeOK
  <2>6. LockEnds'
    BY <1>1, <1>2, <2>1, <2>3, <2>4 DEF LockEnds
  <2>7. UsableAdmins \ {patch[p].target} # {}
    <3> SUFFICES ASSUME UsableAdmins \subseteq {patch[p].target}
                 PROVE  FALSE
      OBVIOUS
    <3>1. IsFiniteSet({patch[p].target}) /\ Cardinality({patch[p].target}) = 1
      BY FS_Singleton
    <3>2. UsableAdmins \in SUBSET {patch[p].target}
      OBVIOUS
    <3>3. Cardinality(UsableAdmins) <= 1
      BY <3>1, <3>2, FS_Subset
    <3> QED BY <1>4, <3>3
  <2>8. UsableAdmins' = UsableAdmins
    BY <1>1 DEF UsableAdmins, Usable
  <2>9. AnotherStays' /\ LastAdminIsLocked'
    BY <1>1, <2>1, <2>3, <2>4, <2>7, <2>8 DEF AnotherStays, LastAdminIsLocked
  <2> QED BY <2>5, <2>6, <2>9
<1> QED BY <1>3, <1>4

LEMMA WriteRoleStep ==
  ASSUME AdminInv, NEW p \in Patches, WriteRole(p)
  PROVE  AdminInv'
<1> USE DEF AdminInv
<1> DEFINE x == patch[p]
           pc == IF x.status = Same THEN "done" ELSE "status"
           y == [x EXCEPT !.pc = pc]
<1>1. /\ x.pc = "role" /\ status' = status
      /\ role' = IF x.role \in {Same, x.seen[1]} THEN role ELSE [role EXCEPT ![x.target] = x.role]
      /\ NoteUnlocked(p, x.target)
      /\ adminLock' = IF x.role # Same /\ adminLock = p THEN Same ELSE adminLock
  BY DEF WriteRole, Unlock
<1>2. x \in Patch /\ x.target \in Users /\ x.role \in AnyRole
  BY DEF AdminTypeOK, Patch
<1>3. patch' = [patch EXCEPT ![p] = y]
  BY DEF WriteRole, AdminTypeOK
<1>4. /\ pc \in {"done", "status"} /\ (pc = "status" => x.status # Same)
      /\ (x.role = Same /\ adminLock = p => pc = "status")
  BY DEF LockEnds
<1> HIDE DEF pc
<1>5. /\ y \in Patch /\ y.pc = pc /\ y.target = x.target /\ y.role = x.role /\ y.status = x.status
  <2>1. pc \in PatchPcs
    BY <1>4 DEF PatchPcs
  <2> QED BY <1>2, <2>1, PatchFacts
<1> HIDE DEF y, x
<1>6. role' \in [Users -> Roles] /\ \A u \in Users : u # x.target => role'[u] = role[u]
  BY <1>1, <1>2 DEF AdminTypeOK, AnyRole
<1>7. unlocked' \in BOOLEAN
  BY <1>1, Zenon DEF NoteUnlocked
<1>8. AdminTypeOK'
  BY <1>1, <1>3, <1>5, <1>6, <1>7 DEF AdminTypeOK
<1>9. WriteFits(p)
  <2>1. \A u \in Users : u # x.target => (Usable(u) => Usable(u)')
    BY <1>1, <1>6 DEF Usable
  <2>2. (unlocked => unlocked') /\ (adminLock # p /\ ~unlocked' /\ Usable(x.target) =>
           <<role'[x.target], status'[x.target]>> = <<"ADMIN", "ACTIVE">>)
    BY <1>1, Zenon DEF NoteUnlocked
  <2>3. ASSUME adminLock # p, ~unlocked', NEW u \in Users, u = x.target, Usable(u)
        PROVE  Usable(u)'
    BY <2>2, <2>3 DEF Usable
  <2> QED BY <1>1, <2>1, <2>2, <2>3 DEF WriteFits, x
<1>10. x = patch[p]
  BY DEF x
<1>11. adminLock' = p => y.pc \in {"role", "status"}
  <2>1. Same # p
    BY AccountsAssumption
  <2> QED BY <1>1, <1>4, <1>5, <2>1
<1>12. y.pc # "lock" /\ (y.pc = "status" => y.status # Same)
  BY <1>4, <1>5
<1> QED BY <1>3, <1>5, <1>8, <1>9, <1>10, <1>11, <1>12, WriteStep

LEMMA WriteStatusStep ==
  ASSUME AdminInv, NEW p \in Patches, WriteStatus(p)
  PROVE  AdminInv'
<1> USE DEF AdminInv
<1> DEFINE x == patch[p]
           pc == IF x.status = "ACTIVE" THEN "done" ELSE "revoke"
           y == [x EXCEPT !.pc = pc]
<1>1. /\ x.pc = "status" /\ role' = role
      /\ status' = IF x.role = Same /\ x.status = x.seen[2] THEN status
                   ELSE [status EXCEPT ![x.target] = x.status]
      /\ NoteUnlocked(p, x.target)
      /\ adminLock' = IF adminLock = p THEN Same ELSE adminLock
  BY DEF WriteStatus, Unlock
<1>2. x \in Patch /\ x.target \in Users /\ x.status \in Statuses
  BY <1>1 DEF AdminTypeOK, Patch, LockEnds, AnyStatus
<1>3. patch' = [patch EXCEPT ![p] = y]
  BY DEF WriteStatus, AdminTypeOK
<1>4. pc \in {"done", "revoke"}
  OBVIOUS
<1> HIDE DEF pc
<1>5. /\ y \in Patch /\ y.pc = pc /\ y.target = x.target /\ y.role = x.role /\ y.status = x.status
  <2>1. pc \in PatchPcs
    BY <1>4 DEF PatchPcs
  <2> QED BY <1>2, <2>1, PatchFacts
<1>6. x = patch[p]
  OBVIOUS
<1> HIDE DEF y, x
<1>7. status' \in [Users -> Statuses] /\ \A u \in Users : u # x.target => status'[u] = status[u]
  BY <1>1, <1>2 DEF AdminTypeOK
<1>8. unlocked' \in BOOLEAN
  BY <1>1, Zenon DEF NoteUnlocked
<1>9. AdminTypeOK'
  BY <1>1, <1>3, <1>5, <1>7, <1>8 DEF AdminTypeOK
<1>10. WriteFits(p)
  <2>1. \A u \in Users : u # x.target => (Usable(u) => Usable(u)')
    BY <1>1, <1>7 DEF Usable
  <2>2. (unlocked => unlocked') /\ (adminLock # p /\ ~unlocked' /\ Usable(x.target) =>
           <<role'[x.target], status'[x.target]>> = <<"ADMIN", "ACTIVE">>)
    BY <1>1, Zenon DEF NoteUnlocked
  <2>3. ASSUME adminLock # p, ~unlocked', NEW u \in Users, u = x.target, Usable(u)
        PROVE  Usable(u)'
    BY <2>2, <2>3 DEF Usable
  <2> QED BY <1>1, <1>6, <2>1, <2>2, <2>3 DEF WriteFits
<1>11. adminLock' # p
  BY <1>1, AccountsAssumption
<1>12. y.pc # "lock" /\ y.pc # "status"
  BY <1>4, <1>5
<1> QED BY <1>3, <1>5, <1>6, <1>9, <1>10, <1>11, <1>12, WriteStep

LEMMA RevokeSessionsStep ==
  ASSUME AdminInv, NEW p \in Patches, RevokeSessions(p)
  PROVE  AdminInv'
<1> USE DEF AdminInv
<1> DEFINE y == [patch[p] EXCEPT !.pc = "done"]
<1>1. /\ patch[p].pc = "revoke" /\ patch[p] \in Patch /\ patch' = [patch EXCEPT ![p] = y]
      /\ UNCHANGED <<role, status, adminLock, unlocked>>
  BY DEF RevokeSessions, AdminTypeOK
<1>2. y \in Patch /\ y.pc = "done"
  BY <1>1, PatchFacts DEF PatchPcs
<1> HIDE DEF y
<1>3. (\A q \in Patches : patch'[q] = IF q = p THEN y ELSE patch[q]) /\ adminLock # p
  BY <1>1 DEF AdminTypeOK, LockEnds
<1>4. AdminTypeOK' /\ LockEnds'
  BY <1>1, <1>2, <1>3 DEF AdminTypeOK, LockEnds
<1>5. AnotherStays' /\ LastAdminIsLocked'
  BY <1>1, <1>3 DEF AnotherStays, LastAdminIsLocked, UsableAdmins, Usable
<1> QED BY <1>4, <1>5

LEMMA AdminInvSame ==
  ASSUME AdminInv, UNCHANGED accountVars
  PROVE  AdminInv'
BY DEF AdminInv, accountVars, AdminTypeOK, LockEnds, AnotherStays, LastAdminIsLocked,
   UsableAdmins, Usable

\* Only administrators change accounts.
LEMMA AccountsChange ==
  ASSUME [Next]_vars
  PROVE  AdminStep \/ UNCHANGED accountVars
<1>1. CASE UNCHANGED vars
  BY <1>1 DEF vars, accountVars
<1>2. CASE Server
  BY <1>2 DEF Server, CheckRefresh, IssueRefresh, ServerFails, GraceEnds
<1>3. ASSUME NEW t \in Tabs, Browser(t) PROVE UNCHANGED accountVars
  <2>1. CASE NeedAccess(t) \/ TakeLock(t) \/ AccessExpires(t) \/ StorageEvent(t) \/ Reload(t)
    BY <2>1 DEF NeedAccess, TakeLock, AccessExpires, StorageEvent, Reload, serverVars,
       accountVars
  <2>2. CASE \E c \in Calls : Rotated(t, c) \/ Refused(t, c) \/ Unheard(t, c)
    BY <2>2 DEF Rotated, Refused, Unheard
  <2>3. CASE Login(t) \/ LoginAnswered(t) \/ AskLogout(t)
    BY <2>3 DEF Login, LoginAnswered, AskLogout, serverVars, accountVars
  <2>4. CASE ServerLogout(t) \/ LogoutUnheard(t) \/ Forget(t) \/ ChangePassword(t)
    BY <2>4 DEF ServerLogout, LogoutUnheard, Forget, ChangePassword, serverVars, accountVars
  <2> QED BY <1>3, <2>1, <2>2, <2>3, <2>4 DEF Browser
<1> QED BY <1>1, <1>2, <1>3 DEF Next

LEMMA NextAdminInv ==
  ASSUME AdminInv, [Next]_vars
  PROVE  AdminInv'
<1>1. ASSUME NEW p \in Patches, NEW actor \in Users, NEW u \in Users, NEW x \in Changes,
             AskPatch(p, actor, u, x[1], x[2])
      PROVE  AdminInv'
  BY <1>1, AskPatchStep
<1>2. CASE AdminStep
  BY <1>1, <1>2, LockAdminsStep, WriteRoleStep, WriteStatusStep, RevokeSessionsStep DEF
     AdminStep
<1> QED BY <1>2, AccountsChange, AdminInvSame

\* Some administrator can always sign in, unless one was made unusable by a write that did
\* not hold the lock, whatever is asked of the accounts and however the requests of the
\* administrators are mixed.
THEOREM AnAdministratorStays == Spec => []LastAdminIsLocked
<1>1. AdminInv => LastAdminIsLocked
  BY DEF AdminInv
<1> QED BY <1>1, InitAdminInv, NextAdminInv, PTL DEF Spec

-----------------------------------------------------------------------------
(* Refresh tokens.                                                         *)

Token == [family : Nat \ {0}, revoked : BOOLEAN, rotated : {"never", "recent", "past"}]
CallPcs == {"free", "sent", "checked", "issued", "refused"}
CallRow == [pc : CallPcs, tab : Tabs \union {Same}, token : Nat]
Form == [pc : {"idle", "in", "out", "forget", "again"}, token : Nat]

TabsTypeOK ==
    /\ stored \in Nat
    /\ lock \in Tabs \union {Same}
    /\ access \in [Tabs -> {"none", "valid", "expired"}]
    /\ rot \in [Tabs -> {"closed", "idle", "wait", "sent"}]
    /\ form \in [Tabs -> Form]
    /\ cleared \subseteq Tabs /\ memory \subseteq Tabs
    /\ webLocks \in BOOLEAN
    /\ faults \in Nat

TokenTypeOK ==
    /\ token \in Seq(Token)
    /\ call \in [Calls -> CallRow]
    /\ reused \in BOOLEAN
    /\ TabsTypeOK

\* Families have the number of their first token; what is presented, stored or given back
\* has been issued.
TokensKnown ==
    /\ \A i \in DOMAIN token : FamilyOf(i) \in DOMAIN token
    /\ \A c \in Calls : call[c].pc # "free" => call[c].token \in DOMAIN token
    /\ stored # 0 => stored \in DOMAIN token
    /\ \A t \in Tabs : form[t].pc \in {"in", "out"} => form[t].token \in DOMAIN token

\* With Web Locks the tab with the lock is the only one that waits for an answer, and as
\* long as nothing is lost nobody else has a request at the server.
OneRotates ==
    /\ \A c \in Calls : call[c].pc = "free" => call[c].tab = Same
    /\ webLocks =>
         /\ \A c \in Calls : /\ call[c].tab # Same => lock = call[c].tab
                             /\ faults = 0 /\ call[c].pc # "free" => call[c].tab # Same
         /\ \A c, d \in Calls : call[c].tab # Same /\ call[d].tab # Same => c = d

Fresh(i) == token[i].rotated = "never"

\* The token of a login that is under way is known to nobody else.
LoginsApart ==
    \A t \in Tabs : form[t].pc = "in" =>
        /\ Fresh(form[t].token) /\ form[t].token # stored
        /\ \A c \in Calls : call[c].pc # "free" => call[c].token # form[t].token
        /\ \A s \in Tabs \ {t} : form[s].pc = "in" => form[s].token # form[t].token

\* With Web Locks, as long as nothing is lost, what will be presented has not been rotated.
NothingRepeats ==
    webLocks /\ faults = 0 =>
        /\ lock = Same /\ stored # 0 => Fresh(stored)
        /\ \A c \in Calls : call[c].pc \in {"sent", "issued"} => Fresh(call[c].token)

TokenInv ==
    /\ TokenTypeOK /\ TokensKnown /\ OneRotates /\ LoginsApart /\ NothingRepeats
    /\ ReuseMeansLoss /\ SignedInHasToken

\* What any step may do to the tokens and to the rotations between their transactions.
TokensGrow ==
    /\ DOMAIN token \subseteq DOMAIN token'
    /\ \A i \in DOMAIN token : /\ token'[i].family = token[i].family
                               /\ token[i].revoked => token'[i].revoked
    /\ \A i \in DOMAIN token' \ DOMAIN token :
          \/ token'[i].family = i
          \/ \E c \in Calls : call[c].pc = "checked" /\ token'[i].family = FamilyOf(call[c].token)
    /\ \A c \in Calls : call'[c].pc = "checked" =>
          /\ call[c].pc # "free" /\ call'[c].token = call[c].token
          /\ call[c].pc = "checked" \/ ActiveIn(FamilyOf(call[c].token)) # {}

LEMMA InitTokenInv == Init => TokenInv
<1> SUFFICES ASSUME Init PROVE TokenInv
  OBVIOUS
<1>1. PICK T \in SUBSET Tabs, P \in SUBSET Patches :
        /\ ServerInit(P) /\ rot = [t \in Tabs |-> IF t \in T THEN "idle" ELSE "closed"]
        /\ stored = 0 /\ lock = Same /\ access = [t \in Tabs |-> "none"]
        /\ form = [t \in Tabs |-> NoForm] /\ cleared = {} /\ faults = 0
        /\ memory = {} /\ webLocks \in BOOLEAN
  BY DEF Init
<1>2. token = <<>> /\ call = [c \in Calls |-> NoCall] /\ reused = FALSE
  BY <1>1 DEF ServerInit
<1>3. /\ NoCall \in CallRow /\ NoCall.pc = "free" /\ NoCall.tab = Same
      /\ NoForm \in Form /\ NoForm.pc = "idle"
  BY DEF NoCall, NoForm, CallRow, CallPcs, Form
<1>4. TokenTypeOK
  <2>1. call \in [Calls -> CallRow]
    BY <1>2, <1>3
  <2>3. token \in Seq(Token)
    BY <1>2
  <2>4. reused \in BOOLEAN
    BY <1>2
  <2>2. TabsTypeOK
    BY <1>1, <1>3 DEF TabsTypeOK
  <2> QED BY <2>1, <2>2, <2>3, <2>4 DEF TokenTypeOK
<1>5. TokensKnown /\ OneRotates /\ LoginsApart /\ NothingRepeats
  BY <1>1, <1>2, <1>3 DEF TokensKnown, OneRotates, LoginsApart, NothingRepeats
<1>6. ReuseMeansLoss /\ SignedInHasToken
  BY <1>1, <1>2 DEF ReuseMeansLoss, SignedInHasToken
<1> QED BY <1>4, <1>5, <1>6 DEF TokenInv

\* Tokens are revoked or grow old, none is issued or rotated.
TokensStand ==
    /\ token' \in Seq(Token)
    /\ DOMAIN token' = DOMAIN token
    /\ \A i \in DOMAIN token : /\ token'[i].family = token[i].family
                               /\ token[i].revoked => token'[i].revoked
                               /\ Fresh(i)' <=> Fresh(i)

\* A request is answered, refused or given up; if it goes on without its tab, something
\* was lost.
CallGoesOn(c) ==
    \/ call'[c] = call[c]
    \/ call'[c] = NoCall
    \/ /\ call[c].pc # "free" /\ call'[c].token = call[c].token
       /\ call'[c].pc \in {call[c].pc, "refused"}
       /\ call'[c].tab = call[c].tab \/ (faults' # 0 /\ call'[c].tab = Same)

\* The steps by which no new token comes into play.
LEMMA QuietStep ==
  ASSUME TokenInv, TokensStand, TabsTypeOK', call' \in [Calls -> CallRow], reused' \in BOOLEAN,
         \A c \in Calls : CallGoesOn(c),
         webLocks' = webLocks,
         lock' = lock \/ (lock' = Same /\ (webLocks => \A c \in Calls : call'[c].tab = Same)),
         faults' = 0 => faults = 0 /\ (lock' = lock \/ stored' = 0),
         stored' \in {stored, 0},
         \A t \in Tabs : form'[t].pc = "in" => form'[t] = form[t],
         \A t \in Tabs : form'[t].pc = "out" => form'[t].token \in DOMAIN token,
         ReuseMeansLoss', SignedInHasToken'
  PROVE  TokenInv' /\ TokensGrow
<1> USE DEF TokenInv
<1>1. NoCall.pc = "free" /\ NoCall.tab = Same
  BY DEF NoCall
<1>2. \A c \in Calls : call'[c].pc # "free" =>
        /\ call[c].pc # "free" /\ call'[c].token = call[c].token
        /\ call'[c].pc \in {call[c].pc, "refused"}
  BY <1>1 DEF CallGoesOn
<1>3. \A c \in Calls :
        /\ call'[c].tab # Same => call'[c].tab = call[c].tab
        /\ call'[c].pc # "free" => call'[c].tab = call[c].tab \/ faults' # 0
        /\ call'[c].pc = "free" => call'[c].tab = Same
  BY <1>1 DEF CallGoesOn, OneRotates, TokenTypeOK, CallRow, CallPcs
<1>4. TokenTypeOK'
  BY DEF TokenTypeOK, TokensStand
<1>5. TokensKnown'
  BY <1>2 DEF TokensKnown, TokensStand, FamilyOf
<1>6. OneRotates'
  BY <1>2, <1>3 DEF OneRotates
<1>7. LoginsApart'
  <2> SUFFICES ASSUME NEW t \in Tabs, form'[t].pc = "in"
               PROVE  /\ token'[form'[t].token].rotated = "never" /\ form'[t].token # stored'
                      /\ \A c \in Calls : call'[c].pc # "free" => call'[c].token # form'[t].token
                      /\ \A s \in Tabs \ {t} : form'[s].pc = "in" => form'[s].token # form'[t].token
    BY DEF LoginsApart, Fresh
  <2>1. form'[t] = form[t] /\ form[t].token \in DOMAIN token /\ form[t].token # 0
    BY DEF TokensKnown, TokenTypeOK
  <2>2. token'[form'[t].token].rotated = "never"
    BY <2>1 DEF LoginsApart, TokensStand, Fresh
  <2> QED BY <1>2, <2>1, <2>2 DEF LoginsApart
<1>8. NothingRepeats'
  BY <1>2 DEF NothingRepeats, TokensKnown, TokensStand, Fresh
<1>9. TokensGrow
  BY <1>2 DEF TokensGrow, TokensStand
<1> QED BY <1>4, <1>5, <1>6, <1>7, <1>8, <1>9

\* Some tokens are revoked.
LEMMA RevokingStands ==
  ASSUME TokenTypeOK, NEW S,
         token' = [i \in DOMAIN token |-> IF i \in S THEN [token[i] EXCEPT !.revoked = TRUE]
                                                      ELSE token[i]]
  PROVE  TokensStand
<1>1. \A i \in DOMAIN token : token[i] \in Token
  BY DEF TokenTypeOK
<1>2. \A i \in DOMAIN token : LET x == [token[i] EXCEPT !.revoked = TRUE]
                              IN  /\ x \in Token /\ x.family = token[i].family /\ x.revoked
                                  /\ x.rotated = token[i].rotated
  BY <1>1 DEF Token
<1>3. \A i \in DOMAIN token :
        /\ token'[i] \in Token /\ token'[i].family = token[i].family
        /\ (token[i].revoked => token'[i].revoked) /\ token'[i].rotated = token[i].rotated
  BY <1>1, <1>2
<1>4. DOMAIN token' = DOMAIN token /\ DOMAIN token = 1 .. Len(token) /\ Len(token) \in Nat
  BY DEF TokenTypeOK
<1>5. token' \in Seq(Token)
  BY <1>3, <1>4
<1> QED BY <1>3, <1>4, <1>5 DEF TokensStand, Fresh

LEMMA SameStands ==
  ASSUME TokenTypeOK, token' = token
  PROVE  TokensStand
BY DEF TokenTypeOK, TokensStand, Fresh

LEMMA CallsStay ==
  ASSUME TokenInv, call' = call
  PROVE  call' \in [Calls -> CallRow] /\ \A c \in Calls : CallGoesOn(c)
BY DEF TokenInv, TokenTypeOK, CallGoesOn

LEMMA AdminTokens ==
  ASSUME TokenInv, AdminStep, UNCHANGED tabVars
  PROVE  TokenInv' /\ TokensGrow
<1> USE DEF TokenInv
<1>1. /\ UNCHANGED <<call, reused, stored, lock, access, rot, form, cleared, memory, webLocks, faults>>
      /\ token' = token \/ RevokeAll
  BY DEF AdminStep, AskPatch, LockAdmins, WriteRole, WriteStatus, RevokeSessions, tabVars
<1>2. TokensStand
  <2>1. ASSUME RevokeAll PROVE TokensStand
    <3>1. token' = [i \in DOMAIN token |-> IF i \in DOMAIN token
                                             THEN [token[i] EXCEPT !.revoked = TRUE] ELSE token[i]]
      BY <2>1 DEF RevokeAll
    <3> QED BY <3>1, RevokingStands
  <2> QED BY <1>1, <2>1, SameStands
<1>3. TabsTypeOK' /\ reused' \in BOOLEAN /\ ReuseMeansLoss' /\ SignedInHasToken'
  BY <1>1 DEF TokenTypeOK, TabsTypeOK, ReuseMeansLoss, SignedInHasToken
<1>4. \A t \in Tabs : form'[t].pc = "out" => form'[t].token \in DOMAIN token
  BY <1>1 DEF TokensKnown
<1> QED BY <1>1, <1>2, <1>3, <1>4, CallsStay, QuietStep

LEMMA GraceEndsStep ==
  ASSUME TokenInv, NEW i \in DOMAIN token, GraceEnds(i), UNCHANGED tabVars
  PROVE  TokenInv' /\ TokensGrow
<1> USE DEF TokenInv
<1>1. /\ UNCHANGED <<call, reused, stored, lock, access, rot, form, cleared, memory, webLocks, faults>>
      /\ token[i].rotated = "recent"
  BY DEF GraceEnds, tabVars
<1> DEFINE x == [token[i] EXCEPT !.rotated = "past"]
<1>2. token' = [token EXCEPT ![i] = x] /\ token[i] \in Token
  BY DEF GraceEnds, TokenTypeOK
<1>3. /\ x \in Token /\ x.family = token[i].family /\ x.revoked = token[i].revoked
      /\ x.rotated = "past"
  BY <1>2 DEF Token
<1> HIDE DEF x
<1>4. /\ token' \in Seq(Token) /\ DOMAIN token' = DOMAIN token
      /\ \A j \in DOMAIN token : token'[j] = IF j = i THEN x ELSE token[j]
  BY <1>2, <1>3 DEF TokenTypeOK
<1>5. TokensStand
  BY <1>1, <1>3, <1>4 DEF TokensStand, Fresh
<1>6. TabsTypeOK' /\ reused' \in BOOLEAN /\ ReuseMeansLoss' /\ SignedInHasToken'
  BY <1>1 DEF TokenTypeOK, TabsTypeOK, ReuseMeansLoss, SignedInHasToken
<1>7. \A t \in Tabs : form'[t].pc = "out" => form'[t].token \in DOMAIN token
  BY <1>1 DEF TokensKnown
<1> QED BY <1>1, <1>5, <1>6, <1>7, CallsStay, QuietStep

LEMMA AccessStep ==
  ASSUME TokenInv, NEW t \in Tabs, NeedAccess(t) \/ AccessExpires(t) \/ StorageEvent(t)
  PROVE  TokenInv' /\ TokensGrow
<1> USE DEF TokenInv
<1>1. UNCHANGED <<call, token, reused, stored, lock, form, webLocks, faults>>
  BY DEF NeedAccess, AccessExpires, StorageEvent, serverVars
<1>2. TabsTypeOK'
  <2>1. access' \in [Tabs -> {"none", "valid", "expired"}]
    BY DEF NeedAccess, AccessExpires, StorageEvent, TokenTypeOK, TabsTypeOK
  <2>2. rot' \in [Tabs -> {"closed", "idle", "wait", "sent"}]
    BY DEF NeedAccess, AccessExpires, StorageEvent, TokenTypeOK, TabsTypeOK
  <2>3. cleared' \subseteq Tabs /\ memory' \subseteq Tabs
    BY DEF NeedAccess, AccessExpires, StorageEvent, TokenTypeOK, TabsTypeOK
  <2> QED BY <1>1, <2>1, <2>2, <2>3 DEF TokenTypeOK, TabsTypeOK
<1>3. SignedInHasToken'
  BY <1>1 DEF NeedAccess, AccessExpires, StorageEvent, SignedInHasToken, TokenTypeOK,
     TabsTypeOK
<1>4. reused' \in BOOLEAN /\ ReuseMeansLoss'
  BY <1>1 DEF TokenTypeOK, ReuseMeansLoss
<1>5. \A s \in Tabs : form'[s].pc = "out" => form'[s].token \in DOMAIN token
  BY <1>1 DEF TokensKnown
<1> QED BY <1>1, <1>2, <1>3, <1>4, <1>5, CallsStay, SameStands, QuietStep

LEMMA FormSet ==
  ASSUME NEW t \in Tabs, NEW pc \in {"idle", "in", "out", "forget", "again"}, NEW i \in Nat,
         form \in [Tabs -> Form], SetForm(t, pc, i)
  PROVE  /\ form' \in [Tabs -> Form] /\ form'[t].pc = pc /\ form'[t].token = i
         /\ \A s \in Tabs \ {t} : form'[s] = form[s]
<1> DEFINE x == [pc |-> pc, token |-> i]
<1>1. x \in Form /\ x.pc = pc /\ x.token = i /\ form' = [form EXCEPT ![t] = x]
  BY DEF Form, SetForm
<1> HIDE DEF x
<1> QED BY <1>1

LEMMA AskLogoutStep ==
  ASSUME TokenInv, NEW t \in Tabs, AskLogout(t)
  PROVE  TokenInv' /\ TokensGrow
<1> USE DEF TokenInv
<1>1. UNCHANGED <<call, token, reused, stored, lock, access, rot, cleared, memory, webLocks, faults>>
  BY DEF AskLogout, serverVars
<1> DEFINE pc == IF stored # 0 THEN "out" ELSE "forget"
<1>2. /\ SetForm(t, pc, stored) /\ form \in [Tabs -> Form] /\ stored \in Nat
      /\ pc \in {"idle", "in", "out", "forget", "again"}
  BY DEF AskLogout, TokenTypeOK, TabsTypeOK
<1>3. pc # "in" /\ (pc = "out" => stored # 0)
  OBVIOUS
<1> HIDE DEF pc
<1>4. /\ form' \in [Tabs -> Form] /\ form'[t].pc = pc /\ form'[t].token = stored
      /\ \A s \in Tabs \ {t} : form'[s] = form[s]
  BY <1>2, FormSet
<1>5. TabsTypeOK' /\ reused' \in BOOLEAN /\ ReuseMeansLoss' /\ SignedInHasToken'
  BY <1>1, <1>4 DEF TokenTypeOK, TabsTypeOK, ReuseMeansLoss, SignedInHasToken
<1>6. \A s \in Tabs : form'[s].pc = "out" => form'[s].token \in DOMAIN token
  BY <1>3, <1>4 DEF TokensKnown
<1>7. \A s \in Tabs : form'[s].pc = "in" => form'[s] = form[s]
  BY <1>3, <1>4
<1> QED BY <1>1, <1>5, <1>6, <1>7, CallsStay, SameStands, QuietStep

LEMMA ServerLogoutStep ==
  ASSUME TokenInv, NEW t \in Tabs, ServerLogout(t) \/ LogoutUnheard(t)
  PROVE  TokenInv' /\ TokensGrow
<1> USE DEF TokenInv
<1>1. /\ UNCHANGED <<call, reused, stored, lock, access, rot, cleared, memory, webLocks>>
      /\ faults' \in Nat /\ (faults' = 0 => faults = 0)
  BY DEF ServerLogout, LogoutUnheard, Fault, serverVars, TokenTypeOK, TabsTypeOK
<1> DEFINE i == form[t].token
<1>2. i \in DOMAIN token /\ form[t] \in Form
  BY DEF ServerLogout, LogoutUnheard, TokensKnown, TokenTypeOK, TabsTypeOK
<1>3. TokensStand
  <2>1. ASSUME token' = [token EXCEPT ![i].revoked = TRUE] PROVE TokensStand
    <3>1. token' = [j \in DOMAIN token |-> IF j \in {i} THEN [token[j] EXCEPT !.revoked = TRUE]
                                                       ELSE token[j]]
      BY <1>2, <2>1 DEF TokenTypeOK
    <3> QED BY <3>1, RevokingStands
  <2>2. token' = token \/ token' = [token EXCEPT ![i].revoked = TRUE]
    BY DEF ServerLogout, LogoutUnheard, serverVars
  <2> QED BY <2>1, <2>2, SameStands
<1> DEFINE x == [form[t] EXCEPT !.pc = "forget"]
<1>4. x \in Form /\ x.pc = "forget" /\ form' = [form EXCEPT ![t] = x]
  BY <1>2 DEF Form, ServerLogout, LogoutUnheard, TokenTypeOK, TabsTypeOK
<1> HIDE DEF x, i
<1>5. /\ form' \in [Tabs -> Form]
      /\ \A s \in Tabs : form'[s] = IF s = t THEN x ELSE form[s]
  BY <1>4 DEF TokenTypeOK, TabsTypeOK
<1>6. TabsTypeOK' /\ reused' \in BOOLEAN /\ ReuseMeansLoss' /\ SignedInHasToken'
  BY <1>1, <1>5 DEF TokenTypeOK, TabsTypeOK, ReuseMeansLoss, SignedInHasToken
<1>7. \A s \in Tabs : form'[s].pc = "out" => form'[s].token \in DOMAIN token
  BY <1>4, <1>5 DEF TokensKnown
<1>8. \A s \in Tabs : form'[s].pc = "in" => form'[s] = form[s]
  BY <1>4, <1>5
<1> QED BY <1>1, <1>3, <1>6, <1>7, <1>8, CallsStay, QuietStep

LEMMA ChangePasswordStep ==
  ASSUME TokenInv, NEW t \in Tabs, ChangePassword(t)
  PROVE  TokenInv' /\ TokensGrow
<1> USE DEF TokenInv
<1>1. UNCHANGED <<call, reused, stored, lock, access, rot, cleared, memory, webLocks, faults>> /\ RevokeAll
  BY DEF ChangePassword
<1>2. TokensStand
  <2>1. token' = [i \in DOMAIN token |-> IF i \in DOMAIN token
                                           THEN [token[i] EXCEPT !.revoked = TRUE] ELSE token[i]]
    BY <1>1 DEF RevokeAll
  <2> QED BY <2>1, RevokingStands
<1>3. /\ form' \in [Tabs -> Form] /\ form'[t].pc = "again"
      /\ \A s \in Tabs \ {t} : form'[s] = form[s]
  BY FormSet DEF ChangePassword, TokenTypeOK, TabsTypeOK
<1>4. TabsTypeOK' /\ reused' \in BOOLEAN /\ ReuseMeansLoss' /\ SignedInHasToken'
  BY <1>1, <1>3 DEF TokenTypeOK, TabsTypeOK, ReuseMeansLoss, SignedInHasToken
<1>5. \A s \in Tabs : form'[s].pc = "out" => form'[s].token \in DOMAIN token
  BY <1>3 DEF TokensKnown
<1>6. \A s \in Tabs : form'[s].pc = "in" => form'[s] = form[s]
  BY <1>3
<1> QED BY <1>1, <1>2, <1>4, <1>5, <1>6, CallsStay, QuietStep

\* A write succeeds or counts as a fault.
LEMMA Written ==
  ASSUME TokenInv, NEW i \in Nat, WriteRefresh(i)
  PROVE  /\ stored' \in {stored, i} /\ stored' \in Nat
         /\ faults' \in Nat /\ (faults' = 0 => faults = 0 /\ stored' = i)
         /\ ReuseMeansLoss /\ UNCHANGED <<reused, webLocks>> => ReuseMeansLoss'
BY DEF TokenInv, TokenTypeOK, TabsTypeOK, WriteRefresh, Fault, ReuseMeansLoss

LEMMA TokensCleared ==
  ASSUME TokenInv, NEW t \in Tabs, ClearTokens(t)
  PROVE  /\ stored' \in {stored, 0} /\ stored' \in Nat
         /\ access' \in [Tabs -> {"none", "valid", "expired"}]
         /\ cleared' \subseteq Tabs /\ memory' \subseteq Tabs /\ SignedInHasToken'
         /\ faults' \in Nat /\ (faults' = 0 => faults = 0 /\ stored' = 0)
         /\ UNCHANGED <<reused, webLocks>> => ReuseMeansLoss'
<1> USE DEF TokenInv
<1>1. /\ WriteRefresh(0) /\ access' = [access EXCEPT ![t] = "none"]
      /\ memory' = memory \ {t}
      /\ cleared' = IF stored' # stored THEN cleared \union (Tabs \ {t}) ELSE cleared
  BY DEF ClearTokens
<1>2. /\ stored' \in {stored, 0} /\ stored' \in Nat
      /\ faults' \in Nat /\ (faults' = 0 => faults = 0 /\ stored' = 0)
      /\ UNCHANGED <<reused, webLocks>> => ReuseMeansLoss'
  BY <1>1, Written
<1>3. access' \in [Tabs -> {"none", "valid", "expired"}] /\ cleared' \subseteq Tabs
      /\ memory' \subseteq Tabs
  BY <1>1 DEF TokenTypeOK, TabsTypeOK
<1>4. SignedInHasToken'
  BY <1>1, <1>2 DEF SignedInHasToken, TokenTypeOK, TabsTypeOK
<1> QED BY <1>2, <1>3, <1>4

LEMMA ForgetStep ==
  ASSUME TokenInv, NEW t \in Tabs, Forget(t)
  PROVE  TokenInv' /\ TokensGrow
<1> USE DEF TokenInv
<1>1. /\ UNCHANGED <<call, token, reused, lock, rot, webLocks>> /\ ClearTokens(t) /\ SetForm(t, "idle", 0)
  BY DEF Forget, serverVars
<1>2. /\ form' \in [Tabs -> Form] /\ form'[t].pc = "idle"
      /\ \A s \in Tabs \ {t} : form'[s] = form[s]
  BY <1>1, FormSet DEF TokenTypeOK, TabsTypeOK
<1>3. /\ stored' \in {stored, 0} /\ stored' \in Nat
      /\ access' \in [Tabs -> {"none", "valid", "expired"}]
      /\ cleared' \subseteq Tabs /\ memory' \subseteq Tabs /\ SignedInHasToken'
      /\ faults' \in Nat /\ (faults' = 0 => faults = 0 /\ stored' = 0) /\ ReuseMeansLoss'
  BY <1>1, TokensCleared
<1>4. TabsTypeOK'
  BY <1>1, <1>2, <1>3 DEF TokenTypeOK, TabsTypeOK
<1>5. reused' \in BOOLEAN
  BY <1>1 DEF TokenTypeOK
<1>6. \A s \in Tabs : form'[s].pc = "out" => form'[s].token \in DOMAIN token
  BY <1>2 DEF TokensKnown
<1>7. \A s \in Tabs : form'[s].pc = "in" => form'[s] = form[s]
  BY <1>2
<1> QED BY <1>1, <1>3, <1>4, <1>5, <1>6, <1>7, CallsStay, SameStands, QuietStep

\* What becomes of a request.
LEMMA CallFacts ==
  ASSUME NEW x \in CallRow
  PROVE  /\ NoCall \in CallRow /\ NoCall.pc = "free" /\ NoCall.tab = Same
         /\ LET y == [x EXCEPT !.tab = Same]
            IN  y \in CallRow /\ y.pc = x.pc /\ y.tab = Same /\ y.token = x.token
         /\ Orphan(x) \in CallRow /\ Orphan(x).tab = Same
         /\ Orphan(x) = NoCall \/ (Orphan(x).pc = x.pc /\ Orphan(x).token = x.token)
<1>1. NoCall \in CallRow /\ NoCall.pc = "free" /\ NoCall.tab = Same
  BY DEF NoCall, CallRow, CallPcs
<1>2. LET y == [x EXCEPT !.tab = Same]
      IN  y \in CallRow /\ y.pc = x.pc /\ y.tab = Same /\ y.token = x.token
  BY DEF CallRow
<1> QED BY <1>1, <1>2, Zenon DEF Orphan

LEMMA AnswerFacts ==
  ASSUME TokenInv, NEW c \in Calls, NEW pc \in {"issued", "refused"}, NEW i \in Nat, Answer(c, pc, i)
  PROVE  /\ call' \in [Calls -> CallRow]
         /\ \A d \in Calls \ {c} : call'[d] = call[d]
         /\ \/ call[c].tab = Same /\ call'[c] = NoCall
            \/ /\ call[c].tab # Same /\ call'[c].pc = pc /\ call'[c].token = i
               /\ call'[c].tab = call[c].tab
<1> DEFINE x == [call[c] EXCEPT !.pc = pc, !.token = i]
<1>1. /\ call \in [Calls -> CallRow] /\ call[c] \in CallRow /\ NoCall \in CallRow
      /\ call' = [call EXCEPT ![c] = IF call[c].tab = Same THEN NoCall ELSE x]
  BY CallFacts DEF TokenInv, TokenTypeOK, Answer
<1>2. x \in CallRow /\ x.pc = pc /\ x.token = i /\ x.tab = call[c].tab
  BY <1>1 DEF CallRow, CallPcs
<1> HIDE DEF x
<1> QED BY <1>1, <1>2

LEMMA CheckRefused ==
  ASSUME TokenInv, NEW c \in Calls, call[c].pc = "sent", UNCHANGED tabVars,
         TokensStand, Answer(c, "refused", call[c].token), reused' \in BOOLEAN, ReuseMeansLoss'
  PROVE  TokenInv' /\ TokensGrow
<1> USE DEF TokenInv
<1>1. UNCHANGED <<stored, lock, access, rot, form, cleared, memory, webLocks, faults>>
  BY DEF tabVars
<1>2. call[c].token \in Nat
  BY DEF TokenTypeOK, CallRow
<1>3. /\ call' \in [Calls -> CallRow]
      /\ \A d \in Calls \ {c} : call'[d] = call[d]
      /\ \/ call[c].tab = Same /\ call'[c] = NoCall
         \/ /\ call[c].tab # Same /\ call'[c].pc = "refused" /\ call'[c].token = call[c].token
            /\ call'[c].tab = call[c].tab
  BY <1>2, AnswerFacts
<1>4. \A d \in Calls : CallGoesOn(d)
  BY <1>3 DEF CallGoesOn
<1>5. TabsTypeOK' /\ SignedInHasToken'
  BY <1>1 DEF TokenTypeOK, TabsTypeOK, SignedInHasToken
<1>6. \A t \in Tabs : form'[t].pc = "out" => form'[t].token \in DOMAIN token
  BY <1>1 DEF TokensKnown
<1> QED BY <1>1, <1>3, <1>4, <1>5, <1>6, QuietStep

LEMMA TokenPut ==
  ASSUME NEW s \in Seq(Token), NEW i \in DOMAIN s, NEW x \in Token
  PROVE  LET r == [s EXCEPT ![i] = x]
         IN  /\ r \in Seq(Token) /\ DOMAIN r = DOMAIN s
             /\ \A j \in DOMAIN s : r[j] = IF j = i THEN x ELSE s[j]
OBVIOUS

\* The first transaction of a rotation rotates a token that is known to the one who sent it.
LEMMA CheckRotates ==
  ASSUME TokenInv, NEW c \in Calls, call[c].pc = "sent", UNCHANGED tabVars, reused' = reused,
         ~token[call[c].token].revoked \/ WithinReuseGrace(call[c].token),
         token' = (IF token[call[c].token].revoked THEN token
                   ELSE [token EXCEPT ![call[c].token].revoked = TRUE,
                                      ![call[c].token].rotated = "recent"]),
         call' = [call EXCEPT ![c].pc = "checked"]
  PROVE  TokenInv' /\ TokensGrow
<1> USE DEF TokenInv
<1>1. UNCHANGED <<stored, lock, access, rot, form, cleared, memory, webLocks, faults>>
  BY DEF tabVars
<1> DEFINE i == call[c].token
           x == [[token[i] EXCEPT !.revoked = TRUE] EXCEPT !.rotated = "recent"]
           y == [call[c] EXCEPT !.pc = "checked"]
<1>2. i \in DOMAIN token /\ token[i] \in Token /\ call[c] \in CallRow
  BY DEF TokensKnown, TokenTypeOK
<1>3. /\ x \in Token /\ x.family = token[i].family /\ x.revoked /\ x.rotated = "recent"
  BY <1>2 DEF Token
<1>4. token' = token \/ token' = [token EXCEPT ![i] = x]
  BY <1>2 DEF TokenTypeOK
<1>5. y \in CallRow /\ y.pc = "checked" /\ y.token = i /\ y.tab = call[c].tab
  BY <1>2 DEF CallRow, CallPcs
<1>6. call' = [call EXCEPT ![c] = y]
  BY DEF TokenTypeOK
<1>7. ActiveIn(FamilyOf(i)) # {}
  BY <1>2 DEF WithinReuseGrace, ActiveIn, Active
<1>8. i = call[c].token
  OBVIOUS
<1> HIDE DEF i, x, y
<1>9. /\ token' \in Seq(Token) /\ DOMAIN token' = DOMAIN token
      /\ \A j \in DOMAIN token : token'[j] = token[j] \/ (j = i /\ token'[j] = x)
  <2>1. token \in Seq(Token)
    BY DEF TokenTypeOK
  <2>2. CASE token' = token
    BY <2>1, <2>2
  <2>3. CASE token' = [token EXCEPT ![i] = x]
    <3>1. LET r == [token EXCEPT ![i] = x]
          IN  /\ r \in Seq(Token) /\ DOMAIN r = DOMAIN token
              /\ \A j \in DOMAIN token : r[j] = IF j = i THEN x ELSE token[j]
      BY <1>2, <1>3, <2>1, TokenPut
    <3> QED BY <2>3, <3>1, Zenon
  <2> QED BY <1>4, <2>2, <2>3
<1>10. /\ call' \in [Calls -> CallRow]
       /\ \A d \in Calls : call'[d] = IF d = c THEN y ELSE call[d]
  BY <1>5, <1>6 DEF TokenTypeOK
<1>11. TokenTypeOK'
  BY <1>1, <1>9, <1>10 DEF TokenTypeOK, TabsTypeOK
<1>12. TokensKnown'
  <2>1. \A j \in DOMAIN token : token'[j].family = token[j].family
    BY <1>3, <1>9
  <2>2. \A d \in Calls : call'[d].pc # "free" => call[d].pc # "free" /\ call'[d].token = call[d].token
    BY <1>5, <1>8, <1>10
  <2> QED BY <1>1, <1>9, <2>1, <2>2 DEF TokensKnown, FamilyOf
<1>13. OneRotates'
  BY <1>1, <1>5, <1>10 DEF OneRotates
<1>14. LoginsApart'
  <2>1. \A t \in Tabs : form[t].pc = "in" => form[t].token # i /\ form[t].token \in DOMAIN token
    BY <1>8 DEF LoginsApart, TokensKnown
  <2> QED BY <1>1, <1>5, <1>8, <1>9, <1>10, <2>1 DEF LoginsApart, Fresh
<1>15. NothingRepeats'
  <2> SUFFICES ASSUME webLocks, faults = 0
               PROVE  /\ lock = Same /\ stored # 0 => token'[stored].rotated = "never"
                      /\ \A d \in Calls : call'[d].pc \in {"sent", "issued"} =>
                            token'[call'[d].token].rotated = "never"
    BY <1>1 DEF NothingRepeats, Fresh
  <2>1. lock = call[c].tab /\ call[c].tab # Same
    BY DEF OneRotates
  <2>2. \A d \in Calls : call'[d].pc = "free" \/ d = c
    BY <1>10, <2>1 DEF OneRotates
  <2> QED BY <1>5, <1>10, <2>1, <2>2
<1>16. ReuseMeansLoss' /\ SignedInHasToken'
  BY <1>1 DEF ReuseMeansLoss, SignedInHasToken
<1>17. TokensGrow
  <2>1. \A j \in DOMAIN token : /\ token'[j].family = token[j].family
                                /\ token[j].revoked => token'[j].revoked
    BY <1>3, <1>9
  <2>2. \A d \in Calls : call'[d].pc = "checked" =>
          /\ call[d].pc # "free" /\ call'[d].token = call[d].token
          /\ call[d].pc = "checked" \/ ActiveIn(FamilyOf(call[d].token)) # {}
    BY <1>5, <1>7, <1>8, <1>10
  <2> QED BY <1>9, <2>1, <2>2 DEF TokensGrow
<1> QED BY <1>11, <1>12, <1>13, <1>14, <1>15, <1>16, <1>17

LEMMA CheckRefreshStep ==
  ASSUME TokenInv, NEW c \in Calls, CheckRefresh(c), UNCHANGED tabVars
  PROVE  TokenInv' /\ TokensGrow
<1> USE DEF TokenInv
<1> DEFINE i == call[c].token
<1>1. call[c].pc = "sent"
  BY DEF CheckRefresh
<1>2. ASSUME token[i].revoked, ~WithinReuseGrace(i), RevokeFamily(FamilyOf(i)),
             reused' = (reused \/ token[i].rotated # "never"), Answer(c, "refused", i)
      PROVE  TokenInv' /\ TokensGrow
  <2> DEFINE S == {j \in DOMAIN token : FamilyOf(j) = FamilyOf(i)}
  <2>1. token' = [j \in DOMAIN token |-> IF j \in S THEN [token[j] EXCEPT !.revoked = TRUE]
                                                     ELSE token[j]]
    BY <1>2 DEF RevokeFamily
  <2> HIDE DEF S
  <2>2. TokensStand
    BY <2>1, RevokingStands
  <2>3. reused' \in BOOLEAN
    BY <1>2, Zenon
  <2>4. ReuseMeansLoss'
    <3>1. UNCHANGED <<faults, webLocks>> /\ faults \in Nat
      BY DEF tabVars, TokenTypeOK, TabsTypeOK
    <3>2. webLocks /\ faults = 0 => token[i].rotated = "never"
      BY <1>1 DEF NothingRepeats, Fresh
    <3>3. webLocks /\ faults = 0 => ~reused'
      <4>1. webLocks /\ faults = 0 => ~reused
        BY <3>1 DEF ReuseMeansLoss
      <4> QED BY <1>2, <3>2, <4>1, Zenon
    <3> QED BY <3>1, <3>3 DEF ReuseMeansLoss
  <2> QED BY <1>1, <1>2, <2>2, <2>3, <2>4, CheckRefused
<1>3. ASSUME Answer(c, "refused", i), UNCHANGED <<token, reused>>
      PROVE  TokenInv' /\ TokensGrow
  <2>1. reused' \in BOOLEAN /\ ReuseMeansLoss'
    BY <1>3 DEF TokenTypeOK, ReuseMeansLoss, tabVars
  <2> QED BY <1>1, <1>3, <2>1, SameStands, CheckRefused
<1>4. ASSUME ~token[i].revoked \/ WithinReuseGrace(i),
             token' = (IF token[i].revoked THEN token
                       ELSE [token EXCEPT ![i].revoked = TRUE, ![i].rotated = "recent"]),
             call' = [call EXCEPT ![c].pc = "checked"], reused' = reused
      PROVE  TokenInv' /\ TokensGrow
  BY <1>1, <1>4, CheckRotates
<1> QED BY <1>2, <1>3, <1>4 DEF CheckRefresh

LEMMA TokenIssued ==
  ASSUME TokenInv, NEW f \in Nat, token' = Issued(f)
  PROVE  /\ token' \in Seq(Token) /\ Len(token) \in Nat
         /\ DOMAIN token' = DOMAIN token \union {Len(token) + 1}
         /\ Len(token) + 1 \notin DOMAIN token
         /\ \A i \in DOMAIN token : token'[i] = token[i]
         /\ token'[Len(token) + 1].rotated = "never"
         /\ f = 0 => token'[Len(token) + 1].family = Len(token) + 1
         /\ f # 0 => token'[Len(token) + 1].family = f
<1> DEFINE g == IF f = 0 THEN Len(token) + 1 ELSE f
           x == [family |-> g, revoked |-> FALSE, rotated |-> "never"]
<1>1. token \in Seq(Token) /\ Len(token) \in Nat
  BY DEF TokenInv, TokenTypeOK
<1>2. g \in Nat \ {0}
  BY <1>1
<1> HIDE DEF g
<1>3. x \in Token /\ x.rotated = "never" /\ x.family = g
  BY <1>2 DEF Token
<1>4. token' = Append(token, x)
  BY DEF Issued, g
<1> HIDE DEF x
<1>5. /\ token' \in Seq(Token) /\ DOMAIN token' = DOMAIN token \union {Len(token) + 1}
      /\ Len(token) + 1 \notin DOMAIN token
      /\ \A i \in DOMAIN token : token'[i] = token[i]
      /\ token'[Len(token) + 1] = x
  BY <1>1, <1>3, <1>4
<1> QED BY <1>1, <1>3, <1>5 DEF g

LEMMA IssueRefreshStep ==
  ASSUME TokenInv, NEW c \in Calls, IssueRefresh(c), UNCHANGED tabVars
  PROVE  TokenInv' /\ TokensGrow
<1> USE DEF TokenInv
<1> DEFINE f == FamilyOf(call[c].token)
           n == Len(token) + 1
<1>1. /\ UNCHANGED <<reused, stored, lock, access, rot, form, cleared, memory, webLocks, faults>>
      /\ call[c].pc = "checked" /\ token' = Issued(f) /\ Answer(c, "issued", n)
  BY DEF IssueRefresh, tabVars
<1>2. f \in DOMAIN token /\ f \in Nat /\ f # 0
  BY <1>1 DEF TokensKnown, TokenTypeOK
<1>3. /\ token' \in Seq(Token) /\ n \in Nat
      /\ DOMAIN token' = DOMAIN token \union {n} /\ n \notin DOMAIN token
      /\ \A i \in DOMAIN token : token'[i] = token[i]
      /\ token'[n].rotated = "never" /\ token'[n].family = f
  <2> HIDE DEF f
  <2>1. /\ token' \in Seq(Token) /\ Len(token) \in Nat
        /\ DOMAIN token' = DOMAIN token \union {n} /\ n \notin DOMAIN token
        /\ \A i \in DOMAIN token : token'[i] = token[i]
        /\ token'[n].rotated = "never" /\ (f # 0 => token'[n].family = f)
    BY <1>1, <1>2, TokenIssued, Zenon
  <2>2. n \in Nat
    BY <2>1
  <2> HIDE DEF n
  <2> QED BY <1>2, <2>1, <2>2
<1> HIDE DEF n, f
<1>4. /\ call' \in [Calls -> CallRow]
      /\ \A d \in Calls \ {c} : call'[d] = call[d]
      /\ \/ call[c].tab = Same /\ call'[c] = NoCall
         \/ /\ call[c].tab # Same /\ call'[c].pc = "issued" /\ call'[c].token = n
            /\ call'[c].tab = call[c].tab
  BY <1>1, <1>3, AnswerFacts
<1>5. NoCall.pc = "free" /\ NoCall.tab = Same
  BY DEF NoCall
<1>6. TokenTypeOK'
  BY <1>1, <1>3, <1>4 DEF TokenTypeOK, TabsTypeOK
<1>7. TokensKnown'
  <2>1. \A i \in DOMAIN token' : token'[i].family \in DOMAIN token'
    BY <1>2, <1>3 DEF TokensKnown, FamilyOf
  <2>2. \A d \in Calls : call'[d].pc # "free" => call'[d].token \in DOMAIN token'
    BY <1>3, <1>4, <1>5 DEF TokensKnown
  <2> QED BY <1>1, <1>3, <2>1, <2>2 DEF TokensKnown, FamilyOf
<1>8. OneRotates'
  BY <1>1, <1>4, <1>5 DEF OneRotates
<1>9. LoginsApart'
  <2>1. \A t \in Tabs : form[t].pc = "in" => form[t].token # n /\ form[t].token \in DOMAIN token
    BY <1>3 DEF TokensKnown
  <2> QED BY <1>1, <1>3, <1>4, <1>5, <2>1 DEF LoginsApart, Fresh
<1>10. NothingRepeats'
  <2>1. stored # 0 => stored \in DOMAIN token
    BY DEF TokensKnown
  <2>2. \A d \in Calls : call[d].pc # "free" => call[d].token \in DOMAIN token
    BY DEF TokensKnown
  <2> QED BY <1>1, <1>3, <1>4, <1>5, <2>1, <2>2 DEF NothingRepeats, Fresh
<1>11. ReuseMeansLoss' /\ SignedInHasToken'
  BY <1>1 DEF ReuseMeansLoss, SignedInHasToken
<1>12. TokensGrow
  <2>1. \A d \in Calls : call'[d].pc = "checked" => call'[d] = call[d] /\ call[d].pc = "checked"
    BY <1>4, <1>5
  <2> QED BY <1>1, <1>3, <2>1 DEF TokensGrow, f
<1> QED BY <1>6, <1>7, <1>8, <1>9, <1>10, <1>11, <1>12

LEMMA LoginStep ==
  ASSUME TokenInv, NEW t \in Tabs, Login(t)
  PROVE  TokenInv' /\ TokensGrow
<1> USE DEF TokenInv
<1> DEFINE n == Len(token) + 1
<1>1. /\ UNCHANGED <<call, reused, stored, lock, access, rot, cleared, memory, webLocks, faults>>
      /\ token' = Issued(0) /\ SetForm(t, "in", n)
  BY DEF Login
<1>2. /\ token' \in Seq(Token) /\ n \in Nat
      /\ DOMAIN token' = DOMAIN token \union {n} /\ n \notin DOMAIN token /\ n # 0
      /\ \A i \in DOMAIN token : token'[i] = token[i]
      /\ token'[n].rotated = "never" /\ token'[n].family = n
  <2>1. 0 \in Nat
    OBVIOUS
  <2>2. /\ token' \in Seq(Token) /\ Len(token) \in Nat
        /\ DOMAIN token' = DOMAIN token \union {n} /\ n \notin DOMAIN token
        /\ \A i \in DOMAIN token : token'[i] = token[i]
        /\ token'[n].rotated = "never" /\ token'[n].family = n
    BY <1>1, <2>1, TokenIssued, Zenon
  <2>3. n \in Nat /\ n # 0
    BY <2>2
  <2> HIDE DEF n
  <2> QED BY <2>2, <2>3
<1> HIDE DEF n
<1>3. /\ form' \in [Tabs -> Form] /\ form'[t].pc = "in" /\ form'[t].token = n
      /\ \A s \in Tabs \ {t} : form'[s] = form[s]
  BY <1>1, <1>2, FormSet DEF TokenTypeOK, TabsTypeOK
<1>4. TokenTypeOK'
  BY <1>1, <1>2, <1>3 DEF TokenTypeOK, TabsTypeOK
<1>5. TokensKnown'
  <2>1. \A i \in DOMAIN token' : token'[i].family \in DOMAIN token'
    BY <1>2 DEF TokensKnown, FamilyOf
  <2>2. \A s \in Tabs : form'[s].pc \in {"in", "out"} => form'[s].token \in DOMAIN token'
    BY <1>2, <1>3 DEF TokensKnown
  <2> QED BY <1>1, <1>2, <2>1, <2>2 DEF TokensKnown, FamilyOf
<1>6. OneRotates'
  BY <1>1 DEF OneRotates
<1>7. LoginsApart'
  <2>1. /\ \A s \in Tabs : form[s].pc = "in" => form[s].token # n /\ form[s].token \in DOMAIN token
        /\ \A c \in Calls : call[c].pc # "free" => call[c].token # n
        /\ stored # n
    BY <1>2 DEF TokensKnown
  <2> SUFFICES ASSUME NEW s \in Tabs, form'[s].pc = "in"
               PROVE  /\ token'[form'[s].token].rotated = "never" /\ form'[s].token # stored
                      /\ \A c \in Calls : call[c].pc # "free" => call[c].token # form'[s].token
                      /\ \A r \in Tabs \ {s} : form'[r].pc = "in" => form'[r].token # form'[s].token
    BY <1>1 DEF LoginsApart, Fresh
  <2>2. CASE s = t
    BY <1>2, <1>3, <2>1, <2>2
  <2>3. CASE s # t
    BY <1>2, <1>3, <2>1, <2>3 DEF LoginsApart, Fresh
  <2> QED BY <2>2, <2>3
<1>8. NothingRepeats'
  BY <1>1, <1>2 DEF NothingRepeats, TokensKnown, Fresh
<1>9. ReuseMeansLoss' /\ SignedInHasToken'
  BY <1>1 DEF ReuseMeansLoss, SignedInHasToken
<1>10. TokensGrow
  BY <1>1, <1>2 DEF TokensGrow
<1> QED BY <1>4, <1>5, <1>6, <1>7, <1>8, <1>9, <1>10

LEMMA TokensSet ==
  ASSUME TokenInv, NEW t \in Tabs, NEW i \in DOMAIN token, SetTokens(t, i)
  PROVE  /\ stored' \in {stored, i} /\ i # 0 /\ i \in Nat
         /\ access' \in [Tabs -> {"none", "valid", "expired"}]
         /\ cleared' = cleared /\ memory' \subseteq Tabs /\ SignedInHasToken'
         /\ faults' \in Nat /\ (faults' = 0 => faults = 0 /\ stored' = i)
         /\ UNCHANGED <<reused, webLocks>> => ReuseMeansLoss'
<1>1. i # 0 /\ i \in Nat
  BY DEF TokenInv, TokenTypeOK
<1>2. /\ WriteRefresh(i) /\ access' = [access EXCEPT ![t] = "valid"] /\ cleared' = cleared
      /\ memory' = IF stored' = i THEN {} ELSE memory \union {t}
  BY DEF SetTokens
<1>3. /\ stored' \in {stored, i}
      /\ faults' \in Nat /\ (faults' = 0 => faults = 0 /\ stored' = i)
      /\ UNCHANGED <<reused, webLocks>> => ReuseMeansLoss'
  BY <1>1, <1>2, Written DEF TokenInv
<1>4. access' \in [Tabs -> {"none", "valid", "expired"}] /\ memory' \subseteq Tabs
  BY <1>2 DEF TokenInv, TokenTypeOK, TabsTypeOK
<1>5. SignedInHasToken'
  BY <1>1, <1>2, <1>3 DEF TokenInv, TokenTypeOK, TabsTypeOK, SignedInHasToken
<1> QED BY <1>1, <1>2, <1>3, <1>4, <1>5

\* The new tokens of a login replace what is stored.
LEMMA LoginAnsweredStep ==
  ASSUME TokenInv, NEW t \in Tabs, LoginAnswered(t)
  PROVE  TokenInv' /\ TokensGrow
<1> USE DEF TokenInv
<1>1. /\ UNCHANGED <<call, token, reused, lock, rot, webLocks>>
      /\ form[t].pc = "in" /\ SetTokens(t, form[t].token) /\ SetForm(t, "idle", 0)
  BY DEF LoginAnswered, serverVars
<1> DEFINE n == form[t].token
<1>2. /\ n \in DOMAIN token /\ Fresh(n)
      /\ \A s \in Tabs \ {t} : form[s].pc = "in" => form[s].token # n
  BY <1>1 DEF LoginsApart, TokensKnown
<1>3. /\ stored' \in {stored, n} /\ n # 0 /\ n \in Nat
      /\ access' \in [Tabs -> {"none", "valid", "expired"}]
      /\ cleared' = cleared /\ memory' \subseteq Tabs /\ SignedInHasToken'
      /\ faults' \in Nat /\ (faults' = 0 => faults = 0 /\ stored' = n) /\ ReuseMeansLoss'
  BY <1>1, <1>2, TokensSet
<1>4. /\ form' \in [Tabs -> Form] /\ form'[t].pc = "idle"
      /\ \A s \in Tabs \ {t} : form'[s] = form[s]
  BY <1>1, FormSet DEF TokenTypeOK, TabsTypeOK
<1> HIDE DEF n
<1>5. TokenTypeOK'
  BY <1>1, <1>3, <1>4 DEF TokenTypeOK, TabsTypeOK
<1>6. TokensKnown'
  BY <1>1, <1>2, <1>3, <1>4 DEF TokensKnown, FamilyOf
<1>7. OneRotates'
  BY <1>1, <1>3 DEF OneRotates
<1>8. LoginsApart'
  BY <1>1, <1>2, <1>3, <1>4 DEF LoginsApart, Fresh
<1>9. NothingRepeats'
  BY <1>1, <1>2, <1>3 DEF NothingRepeats, Fresh
<1>10. TokensGrow
  BY <1>1 DEF TokensGrow
<1> QED BY <1>3, <1>5, <1>6, <1>7, <1>8, <1>9, <1>10

LEMMA TakeLockStep ==
  ASSUME TokenInv, NEW t \in Tabs, TakeLock(t)
  PROVE  TokenInv' /\ TokensGrow
<1> USE DEF TokenInv
<1>1. /\ UNCHANGED <<token, reused, stored, access, form, cleared, memory, webLocks, faults>> /\ lock = Same
      /\ rot' \in [Tabs -> {"closed", "idle", "wait", "sent"}]
  BY DEF TakeLock, TokenTypeOK, TabsTypeOK
<1>2. CASE UNCHANGED <<lock, call>>
  <2>1. TabsTypeOK' /\ reused' \in BOOLEAN /\ ReuseMeansLoss' /\ SignedInHasToken'
    BY <1>1, <1>2 DEF TokenTypeOK, TabsTypeOK, ReuseMeansLoss, SignedInHasToken
  <2>2. \A s \in Tabs : form'[s].pc = "out" => form'[s].token \in DOMAIN token
    BY <1>1 DEF TokensKnown
  <2> QED BY <1>1, <1>2, <2>1, <2>2, CallsStay, SameStands, QuietStep
<1>3. ASSUME NEW c \in Calls, stored # 0, call[c].pc = "free",
             lock' = (IF webLocks THEN t ELSE lock),
             call' = [call EXCEPT ![c] = [pc |-> "sent", tab |-> t, token |-> stored]]
      PROVE  TokenInv' /\ TokensGrow
  <2> DEFINE x == [pc |-> "sent", tab |-> t, token |-> stored]
  <2>1. x \in CallRow /\ x.pc = "sent" /\ x.tab = t /\ x.token = stored
    BY DEF CallRow, CallPcs, TokenTypeOK, TabsTypeOK
  <2>2. call' = [call EXCEPT ![c] = x]
    BY <1>3
  <2> HIDE DEF x
  <2>3. call' \in [Calls -> CallRow] /\ \A d \in Calls : call'[d] = IF d = c THEN x ELSE call[d]
    BY <2>1, <2>2 DEF TokenTypeOK
  <2>4. webLocks => \A d \in Calls : call[d].tab = Same
    BY <1>1 DEF OneRotates
  <2>5. TokenTypeOK'
    BY <1>1, <1>3, <2>3 DEF TokenTypeOK, TabsTypeOK
  <2>6. TokensKnown'
    BY <1>1, <1>3, <2>1, <2>3 DEF TokensKnown, FamilyOf
  <2>7. OneRotates'
    <3>1. Same # t
      BY SignInAssumption
    <3> QED BY <1>1, <1>3, <2>1, <2>3, <2>4, <3>1 DEF OneRotates
  <2>8. LoginsApart'
    BY <1>1, <2>1, <2>3 DEF LoginsApart, Fresh
  <2>9. NothingRepeats'
    <3>1. Same # t
      BY SignInAssumption
    <3> QED BY <1>1, <1>3, <2>1, <2>3, <3>1 DEF NothingRepeats, Fresh
  <2>10. ReuseMeansLoss' /\ SignedInHasToken'
    BY <1>1 DEF ReuseMeansLoss, SignedInHasToken
  <2>11. TokensGrow
    BY <1>1, <2>1, <2>3 DEF TokensGrow
  <2> QED BY <2>5, <2>6, <2>7, <2>8, <2>9, <2>10, <2>11
<1> QED BY <1>2, <1>3 DEF TakeLock, ToPresent

\* A tab lets go of the lock: with Web Locks no other request has a tab then.
LEMMA CallReleased ==
  ASSUME TokenInv, NEW c \in Calls, NEW x \in CallRow, call[c].tab # Same, x.tab = Same,
         call' = [call EXCEPT ![c] = x]
  PROVE  /\ call' \in [Calls -> CallRow]
         /\ \A d \in Calls : call'[d] = IF d = c THEN x ELSE call[d]
         /\ webLocks => \A d \in Calls : call'[d].tab = Same
<1>1. call' \in [Calls -> CallRow] /\ \A d \in Calls : call'[d] = IF d = c THEN x ELSE call[d]
  BY DEF TokenInv, TokenTypeOK
<1> QED BY <1>1 DEF TokenInv, OneRotates

LEMMA TabIdle ==
  ASSUME TokenInv, NEW t, Done(t)
  PROVE  lock' = Same /\ rot' \in [Tabs -> {"closed", "idle", "wait", "sent"}]
BY DEF TokenInv, TokenTypeOK, TabsTypeOK, Done

\* The tab takes the new token and lets go of the lock.
LEMMA RotatedStep ==
  ASSUME TokenInv, NEW t \in Tabs, NEW c \in Calls, Rotated(t, c)
  PROVE  TokenInv' /\ TokensGrow
<1> USE DEF TokenInv
<1> DEFINE n == call[c].token
<1>1. /\ UNCHANGED <<token, reused, form, webLocks>> /\ call[c].tab = t /\ call[c].pc = "issued"
      /\ SetTokens(t, n) /\ Done(t) /\ call' = [call EXCEPT ![c] = NoCall] /\ t # Same
  BY SignInAssumption DEF Rotated
<1>2. n \in DOMAIN token /\ (webLocks /\ faults = 0 => Fresh(n))
  BY <1>1 DEF TokensKnown, NothingRepeats
<1>3. \A s \in Tabs : form[s].pc = "in" => form[s].token # n
  BY <1>1 DEF LoginsApart
<1>4. /\ stored' \in {stored, n} /\ n # 0 /\ n \in Nat
      /\ access' \in [Tabs -> {"none", "valid", "expired"}]
      /\ cleared' = cleared /\ memory' \subseteq Tabs /\ SignedInHasToken'
      /\ faults' \in Nat /\ (faults' = 0 => faults = 0 /\ stored' = n) /\ ReuseMeansLoss'
  BY <1>1, <1>2, TokensSet
<1> HIDE DEF n
<1>5. NoCall \in CallRow /\ NoCall.pc = "free" /\ NoCall.tab = Same
  BY DEF NoCall, CallRow, CallPcs
<1>6. /\ call' \in [Calls -> CallRow]
      /\ \A d \in Calls : call'[d] = IF d = c THEN NoCall ELSE call[d]
      /\ webLocks => \A d \in Calls : call'[d].tab = Same
  BY <1>1, <1>5, CallReleased
<1>7. lock' = Same /\ rot' \in [Tabs -> {"closed", "idle", "wait", "sent"}]
  BY <1>1, TabIdle
<1>8. TokenTypeOK'
  BY <1>1, <1>4, <1>6, <1>7 DEF TokenTypeOK, TabsTypeOK
<1>9. TokensKnown'
  BY <1>1, <1>2, <1>4, <1>5, <1>6 DEF TokensKnown, FamilyOf
<1>10. OneRotates'
  BY <1>1, <1>4, <1>5, <1>6 DEF OneRotates
<1>11. LoginsApart'
  BY <1>1, <1>3, <1>4, <1>5, <1>6 DEF LoginsApart, Fresh
<1>12. NothingRepeats'
  BY <1>1, <1>2, <1>4, <1>5, <1>6 DEF NothingRepeats, Fresh
<1>13. TokensGrow
  BY <1>1, <1>5, <1>6 DEF TokensGrow
<1> QED BY <1>4, <1>8, <1>9, <1>10, <1>11, <1>12, <1>13

LEMMA RefusedStep ==
  ASSUME TokenInv, NEW t \in Tabs, NEW c \in Calls, Refused(t, c)
  PROVE  TokenInv' /\ TokensGrow
<1> USE DEF TokenInv
<1>1. /\ UNCHANGED <<token, reused, form, webLocks>> /\ call[c].tab = t /\ t # Same
      /\ ClearTokens(t) /\ Done(t) /\ call' = [call EXCEPT ![c] = NoCall]
  BY SignInAssumption DEF Refused
<1>2. NoCall \in CallRow /\ NoCall.pc = "free" /\ NoCall.tab = Same
  BY DEF NoCall, CallRow, CallPcs
<1>3. /\ call' \in [Calls -> CallRow]
      /\ \A d \in Calls : call'[d] = IF d = c THEN NoCall ELSE call[d]
      /\ webLocks => \A d \in Calls : call'[d].tab = Same
  BY <1>1, <1>2, CallReleased
<1>4. /\ stored' \in {stored, 0} /\ stored' \in Nat
      /\ access' \in [Tabs -> {"none", "valid", "expired"}]
      /\ cleared' \subseteq Tabs /\ memory' \subseteq Tabs /\ SignedInHasToken'
      /\ faults' \in Nat /\ (faults' = 0 => faults = 0 /\ stored' = 0) /\ ReuseMeansLoss'
  BY <1>1, TokensCleared
<1>5. lock' = Same /\ rot' \in [Tabs -> {"closed", "idle", "wait", "sent"}]
  BY <1>1, TabIdle
<1>6. TabsTypeOK' /\ reused' \in BOOLEAN
  BY <1>1, <1>4, <1>5 DEF TokenTypeOK, TabsTypeOK
<1>7. \A d \in Calls : CallGoesOn(d)
  BY <1>3 DEF CallGoesOn
<1>8. \A s \in Tabs : form'[s].pc = "out" => form'[s].token \in DOMAIN token
  BY <1>1 DEF TokensKnown
<1> QED BY <1>1, <1>3, <1>4, <1>5, <1>6, <1>7, <1>8, SameStands, QuietStep

LEMMA FaultCounted ==
  ASSUME TokenInv, Fault
  PROVE  faults' \in Nat /\ faults' # 0
BY DEF TokenInv, TokenTypeOK, TabsTypeOK, Fault

LEMMA UnheardStep ==
  ASSUME TokenInv, NEW t \in Tabs, NEW c \in Calls, Unheard(t, c)
  PROVE  TokenInv' /\ TokensGrow
<1> USE DEF TokenInv
<1> DEFINE x == Orphan(call[c])
<1>1. /\ UNCHANGED <<token, reused, stored, access, form, cleared, memory, webLocks>>
      /\ call[c].tab = t /\ t # Same /\ Fault /\ Done(t) /\ call' = [call EXCEPT ![c] = x]
  BY SignInAssumption DEF Unheard
<1>2. faults' \in Nat /\ faults' # 0
  BY <1>1, FaultCounted
<1>3. call[c] \in CallRow /\ call[c].pc # "free"
  BY <1>1 DEF TokenTypeOK, OneRotates
<1>4. /\ x \in CallRow /\ x.tab = Same
      /\ x = NoCall \/ (x.pc = call[c].pc /\ x.token = call[c].token)
  BY <1>3, CallFacts
<1> HIDE DEF x
<1>5. /\ call' \in [Calls -> CallRow]
      /\ \A d \in Calls : call'[d] = IF d = c THEN x ELSE call[d]
      /\ webLocks => \A d \in Calls : call'[d].tab = Same
  BY <1>1, <1>4, CallReleased
<1>6. lock' = Same /\ rot' \in [Tabs -> {"closed", "idle", "wait", "sent"}]
  BY <1>1, TabIdle
<1>7. TabsTypeOK' /\ reused' \in BOOLEAN /\ ReuseMeansLoss' /\ SignedInHasToken'
  BY <1>1, <1>2, <1>6 DEF TokenTypeOK, TabsTypeOK, ReuseMeansLoss, SignedInHasToken
<1>8. \A d \in Calls : CallGoesOn(d)
  BY <1>2, <1>3, <1>4, <1>5 DEF CallGoesOn
<1>9. \A s \in Tabs : form'[s].pc = "out" => form'[s].token \in DOMAIN token
  BY <1>1 DEF TokensKnown
<1> QED BY <1>1, <1>2, <1>5, <1>6, <1>7, <1>8, <1>9, SameStands, QuietStep

LEMMA ServerFailsStep ==
  ASSUME TokenInv, NEW c \in Calls, ServerFails(c)
  PROVE  TokenInv' /\ TokensGrow
<1> USE DEF TokenInv
<1>1. /\ UNCHANGED <<token, reused, stored, access, form, cleared, memory, webLocks>>
      /\ Fault /\ call' = [call EXCEPT ![c] = NoCall]
  BY DEF ServerFails
<1>2. faults' \in Nat /\ faults' # 0
  BY <1>1, FaultCounted
<1>3. NoCall \in CallRow /\ NoCall.pc = "free" /\ NoCall.tab = Same
  BY DEF NoCall, CallRow, CallPcs
<1>4. call' \in [Calls -> CallRow] /\ \A d \in Calls : call'[d] = IF d = c THEN NoCall ELSE call[d]
  BY <1>1, <1>3 DEF TokenTypeOK
<1>5. /\ lock' = lock \/ (lock' = Same /\ (webLocks => \A d \in Calls : call'[d].tab = Same))
      /\ lock' \in Tabs \union {Same} /\ rot' \in [Tabs -> {"closed", "idle", "wait", "sent"}]
  <2>1. CASE call[c].tab = Same
    BY <2>1 DEF ServerFails, TokenTypeOK, TabsTypeOK
  <2>2. CASE call[c].tab # Same
    <3>1. lock' = Same /\ rot' \in [Tabs -> {"closed", "idle", "wait", "sent"}]
      BY <2>2, TabIdle DEF ServerFails
    <3>2. webLocks => \A d \in Calls : call'[d].tab = Same
      BY <1>1, <1>3, <2>2, CallReleased
    <3> QED BY <3>1, <3>2
  <2> QED BY <2>1, <2>2
<1>6. TabsTypeOK' /\ reused' \in BOOLEAN /\ ReuseMeansLoss' /\ SignedInHasToken'
  BY <1>1, <1>2, <1>5 DEF TokenTypeOK, TabsTypeOK, ReuseMeansLoss, SignedInHasToken
<1>7. \A d \in Calls : CallGoesOn(d)
  BY <1>4 DEF CallGoesOn
<1>8. \A s \in Tabs : form'[s].pc = "out" => form'[s].token \in DOMAIN token
  BY <1>1 DEF TokensKnown
<1> QED BY <1>1, <1>2, <1>4, <1>5, <1>6, <1>7, <1>8, SameStands, QuietStep

LEMMA ReloadStep ==
  ASSUME TokenInv, NEW t \in Tabs, Reload(t)
  PROVE  TokenInv' /\ TokensGrow
<1> USE DEF TokenInv
<1>1. /\ UNCHANGED <<token, reused, stored, webLocks>> /\ Fault /\ t # Same
      /\ lock' = IF lock = t THEN Same ELSE lock
      /\ access' = [access EXCEPT ![t] = "none"] /\ cleared' = cleared \ {t}
      /\ memory' = memory \ {t}
      /\ rot' \in [Tabs -> {"closed", "idle", "wait", "sent"}]
      /\ form' = [form EXCEPT ![t] = NoForm]
      /\ call' = [d \in Calls |-> IF call[d].tab = t THEN Orphan(call[d]) ELSE call[d]]
  BY SignInAssumption DEF Reload, TokenTypeOK, TabsTypeOK
<1>2. faults' \in Nat /\ faults' # 0
  BY <1>1, FaultCounted
<1>3. ASSUME NEW d \in Calls
      PROVE  /\ call'[d] \in CallRow /\ CallGoesOn(d) /\ call'[d].tab # t
             /\ call'[d].tab \in {call[d].tab, Same}
  <2>1. call[d] \in CallRow
    BY DEF TokenTypeOK
  <2>2. CASE call[d].tab = t
    <3>1. call'[d] = Orphan(call[d]) /\ call[d].pc # "free"
      BY <1>1, <2>2 DEF OneRotates
    <3>2. /\ Orphan(call[d]) \in CallRow /\ Orphan(call[d]).tab = Same
          /\ \/ Orphan(call[d]) = NoCall
             \/ Orphan(call[d]).pc = call[d].pc /\ Orphan(call[d]).token = call[d].token
      BY <2>1, CallFacts
    <3> QED BY <1>1, <1>2, <3>1, <3>2 DEF CallGoesOn
  <2>3. CASE call[d].tab # t
    BY <1>1, <2>1, <2>3 DEF CallGoesOn
  <2> QED BY <2>2, <2>3
<1>4. call' \in [Calls -> CallRow]
  BY <1>1, <1>3, Zenon
<1>5. lock' = lock \/ (lock' = Same /\ (webLocks => \A d \in Calls : call'[d].tab = Same))
  BY <1>1, <1>3 DEF OneRotates
<1>6. NoForm \in Form /\ NoForm.pc = "idle"
  BY DEF NoForm, Form
<1>7. form' \in [Tabs -> Form] /\ \A s \in Tabs : form'[s] = IF s = t THEN NoForm ELSE form[s]
  BY <1>1, <1>6 DEF TokenTypeOK, TabsTypeOK
<1>8. TabsTypeOK' /\ reused' \in BOOLEAN /\ ReuseMeansLoss' /\ SignedInHasToken'
  BY <1>1, <1>2, <1>7 DEF TokenTypeOK, TabsTypeOK, ReuseMeansLoss, SignedInHasToken
<1>9. /\ \A s \in Tabs : form'[s].pc = "out" => form'[s].token \in DOMAIN token
      /\ \A s \in Tabs : form'[s].pc = "in" => form'[s] = form[s]
  BY <1>6, <1>7 DEF TokensKnown
<1> QED BY <1>1, <1>2, <1>3, <1>4, <1>5, <1>8, <1>9, SameStands, QuietStep

LEMMA NextTokenInv ==
  ASSUME TokenInv, [Next]_vars
  PROVE  TokenInv' /\ TokensGrow
<1>1. CASE UNCHANGED vars
  <2>1. /\ UNCHANGED <<token, call, reused>>
        /\ UNCHANGED <<stored, lock, access, rot, form, cleared, memory, webLocks, faults>>
    BY <1>1 DEF vars
  <2>2. TokenInv'
    BY <2>1 DEF TokenInv, TokenTypeOK, TabsTypeOK, TokensKnown, FamilyOf, OneRotates,
       LoginsApart,
                Fresh, NothingRepeats, ReuseMeansLoss, SignedInHasToken
  <2>3. TokensGrow
    BY <2>1 DEF TokensGrow
  <2> QED BY <2>2, <2>3
<1>2. CASE Server
  BY <1>2, AdminTokens, CheckRefreshStep, IssueRefreshStep, ServerFailsStep, GraceEndsStep
     DEF Server
<1>3. ASSUME NEW t \in Tabs, Browser(t) PROVE TokenInv' /\ TokensGrow
  <2>1. CASE NeedAccess(t) \/ TakeLock(t) \/ AccessExpires(t) \/ StorageEvent(t) \/ Reload(t)
    BY <2>1, AccessStep, TakeLockStep, ReloadStep
  <2>2. CASE \E c \in Calls : Rotated(t, c) \/ Refused(t, c) \/ Unheard(t, c)
    BY <2>2, RotatedStep, RefusedStep, UnheardStep
  <2>3. CASE Login(t) \/ LoginAnswered(t) \/ AskLogout(t)
    BY <2>3, LoginStep, LoginAnsweredStep, AskLogoutStep
  <2>4. CASE ServerLogout(t) \/ LogoutUnheard(t) \/ Forget(t) \/ ChangePassword(t)
    BY <2>4, ServerLogoutStep, ForgetStep, ChangePasswordStep
  <2> QED BY <1>3, <2>1, <2>2, <2>3, <2>4 DEF Browser
<1> QED BY <1>1, <1>2, <1>3 DEF Next

\* New tokens belong to living families or to new ones.
LEMMA DeadStays ==
  ASSUME TokenInv, TokensGrow, NEW f \in Families, Dead(f)
  PROVE  Dead(f)'
<1>1. f \in DOMAIN token
  BY DEF Families, TokenInv, TokensKnown
<1>2. ASSUME NEW i \in DOMAIN token', token'[i].family = f, ~token'[i].revoked
      PROVE  FALSE
  BY <1>1, <1>2 DEF TokensGrow, Dead, ActiveIn, Active, FamilyOf
<1>3. ASSUME NEW c \in Calls, call'[c].pc = "checked"
      PROVE  token'[call'[c].token].family # f
  <2>1. call'[c].token = call[c].token /\ call[c].token \in DOMAIN token
    BY <1>3 DEF TokensGrow, TokenInv, TokensKnown
  <2>2. FamilyOf(call[c].token) # f
    BY <1>3 DEF TokensGrow, Dead
  <2> QED BY <2>1, <2>2 DEF TokensGrow, FamilyOf
<1> QED BY <1>2, <1>3 DEF Dead, ActiveIn, Active, FamilyOf

\* In a browser with Web Locks the server takes a token for stolen only after an answer was
\* lost, a page reloaded or the storage failed, in any mix of tabs that rotate, sign in and
\* sign out.
THEOREM NoFalseAlarm == Spec => []ReuseMeansLoss
<1>1. TokenInv => ReuseMeansLoss
  BY DEF TokenInv
<1> QED BY <1>1, InitTokenInv, NextTokenInv, PTL DEF Spec

\* A tab that acts as signed in has a token stored, or the news that it is gone under way,
\* unless the storage did not take its token.
THEOREM SignOutReachesTabs == Spec => []SignedInHasToken
<1>1. TokenInv => SignedInHasToken
  BY DEF TokenInv
<1> QED BY <1>1, InitTokenInv, NextTokenInv, PTL DEF Spec

\* What was signed out stays so: no step brings an active token into a family that has none.
THEOREM SignOutIsFinal == Spec => DeadFamilyStaysDead
<1>1. TokenInv /\ [Next]_vars => [\A f \in Families : Dead(f) => (Dead(f))']_vars
  BY NextTokenInv, DeadStays
<1>2. TokenInv /\ [Next]_vars => TokenInv'
  BY NextTokenInv
<1> QED BY <1>1, <1>2, InitTokenInv, PTL DEF Spec, DeadFamilyStaysDead
=============================================================================
