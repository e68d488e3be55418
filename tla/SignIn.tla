-------------------------------- MODULE SignIn ------------------------------
(***************************************************************************)
(* The tabs of one browser signing in, rotating the refresh token and      *)
(* signing out, over Accounts.  The refresh token is in localStorage, the  *)
(* access token in each tab's memory; a Web Lock, where the browser has    *)
(* them, lets one tab rotate at a time, and a storage event tells the      *)
(* other tabs of a sign-out.                                               *)
(***************************************************************************)
EXTENDS Accounts

CONSTANTS
    Tabs,
    MaxFaults, (* bound: lost answers, reloads, crashes, failures of the storage,
                  with Web Locks (TRUE) and without them *)
    Scenes   (* bound: how many tabs and changes of accounts are looked at together,
                with Web Locks or without them *)

ASSUME SignInAssumption == Same \notin Tabs /\ MaxFaults \in [BOOLEAN -> Nat]

VARIABLES
    stored,  (* spnc.refresh_token in localStorage, 0: absent              *)
    lock,    (* the tab that holds spnc-auth-refresh                       *)
    access,  (* access[t]: accessToken: none, valid or expired             *)
    rot,     (* rot[t]: inTab, the rotation under way                      *)
    form,    (* form[t]: the login or logout under way, and its token      *)
    cleared, (* tabs with a storage event to come                          *)
    memory,  (* tabs signed in with a token that could not be stored (history) *)
    webLocks, (* navigator.locks is there                                  *)
    faults

tabVars == <<stored, lock, access, rot, form, cleared, memory, webLocks, faults>>
vars == <<role, status, patch, adminLock, unlocked, token, call, reused,
          stored, lock, access, rot, form, cleared, memory, webLocks, faults>>

NoForm == [pc |-> "idle", token |-> 0]

\* Only some of the tabs are open, and only some of the changes are ever asked for.
Init ==
    \E T \in SUBSET Tabs, P \in SUBSET Patches :
    /\ webLocks \in BOOLEAN
    /\ <<Cardinality(T), Cardinality(P), webLocks>> \in Scenes
    /\ ServerInit(P)
    /\ stored = 0 /\ lock = Same
    /\ access = [t \in Tabs |-> "none"]
    /\ rot = [t \in Tabs |-> IF t \in T THEN "idle" ELSE "closed"]
    /\ form = [t \in Tabs |-> NoForm]
    /\ cleared = {} /\ memory = {}
    /\ faults = 0

Fault == faults < MaxFaults[webLocks] /\ faults' = faults + 1

\* Storage that fails leaves what is there, and nobody is told.
WriteRefresh(i) ==
    \/ stored' = i /\ faults' = faults
    \/ stored' = stored /\ Fault

\* setTokens with new tokens, and clearTokens, which the other tabs hear of if something
\* was removed.  The access token of the tab changes in any case.
SetTokens(t, i) ==
    /\ access' = [access EXCEPT ![t] = "valid"]
    /\ WriteRefresh(i)
    /\ memory' = IF stored' = i THEN {} ELSE memory \union {t}
    /\ UNCHANGED cleared
ClearTokens(t) ==
    /\ access' = [access EXCEPT ![t] = "none"]
    /\ WriteRefresh(0)
    /\ memory' = memory \ {t}
    /\ cleared' = IF stored' # stored THEN cleared \union (Tabs \ {t}) ELSE cleared

\* Mutant of StorageEvent: a tab with a rotation under way ignores it.
StorageEventWhenQuiet(t) ==
    /\ t \in cleared
    /\ cleared' = cleared \ {t}
    /\ access' = IF rot[t] = "idle" THEN [access EXCEPT ![t] = "none"] ELSE access
    /\ memory' = memory \ {t}
    /\ UNCHANGED <<serverVars, stored, lock, rot, form, webLocks, faults>>

\* The removal of the token reaches another tab.
StorageEvent(t) ==
    /\ t \in cleared
    /\ cleared' = cleared \ {t}
    /\ access' = [access EXCEPT ![t] = "none"]
    /\ memory' = memory \ {t}
    /\ UNCHANGED <<serverVars, stored, lock, rot, form, webLocks, faults>>

-----------------------------------------------------------------------------
(* Rotation                                                                *)

AccessExpires(t) ==
    /\ access[t] = "valid"
    /\ access' = [access EXCEPT ![t] = "expired"]
    /\ UNCHANGED <<serverVars, stored, lock, rot, form, cleared, memory, webLocks, faults>>

\* A page opens with a token in storage, or a call was answered with 401.
NeedAccess(t) ==
    /\ rot[t] = "idle"
    /\ access[t] # "valid"
    /\ access[t] = "none" => stored # 0 /\ form[t].pc = "idle"
    /\ rot' = [rot EXCEPT ![t] = "wait"]
    /\ UNCHANGED <<serverVars, stored, lock, access, form, cleared, memory, webLocks, faults>>

\* Mutant of ToPresent: the token is chosen without regard to what is stored by now.
AnyToPresent == DOMAIN token

\* The token is read again inside the lock.
ToPresent == {stored} \ {0}

\* The lock is granted, or there are no Web Locks and nothing to wait for; with nothing
\* stored there is nothing to rotate.
TakeLock(t) ==
    /\ rot[t] = "wait"
    /\ lock = Same
    /\ \/ /\ stored = 0
          /\ rot' = [rot EXCEPT ![t] = "idle"]
          /\ UNCHANGED <<lock, call>>
       \/ /\ stored # 0
          /\ rot' = [rot EXCEPT ![t] = "sent"]
          /\ lock' = IF webLocks THEN t ELSE lock
          /\ \E i \in ToPresent, c \in Calls :
                /\ call[c].pc = "free"
                /\ call' = [call EXCEPT ![c] = [pc |-> "sent", tab |-> t, token |-> i]]
    /\ UNCHANGED <<accountVars, token, reused, stored, access, form, cleared, memory, webLocks,
                   faults>>

Done(t) ==
    /\ rot' = [rot EXCEPT ![t] = "idle"]
    /\ lock' = Same

\* New tokens are taken as they come, also after a sign-out in another tab.
Rotated(t, c) ==
    /\ call[c].tab = t /\ call[c].pc = "issued"
    /\ SetTokens(t, call[c].token)
    /\ Done(t)
    /\ call' = [call EXCEPT ![c] = NoCall]
    /\ UNCHANGED <<accountVars, token, reused, form, webLocks>>

\* A refusal signs the browser out.
Refused(t, c) ==
    /\ call[c].tab = t /\ call[c].pc = "refused"
    /\ ClearTokens(t)
    /\ Done(t)
    /\ call' = [call EXCEPT ![c] = NoCall]
    /\ UNCHANGED <<accountVars, token, reused, form, webLocks>>

\* A call nobody waits for any more; the server goes on with it.
Orphan(x) == IF x.pc \in {"issued", "refused"} THEN NoCall ELSE [x EXCEPT !.tab = Same]

\* No answer within TIMEOUT_MS: the token is kept, and the server goes on by itself.
Unheard(t, c) ==
    /\ call[c].tab = t
    /\ Fault
    /\ Done(t)
    /\ call' = [call EXCEPT ![c] = Orphan(@)]
    /\ UNCHANGED <<accountVars, token, reused, stored, access, form, cleared, memory, webLocks>>

\* The request is lost on its way, or the server fails between its transactions.
ServerFails(c) ==
    /\ call[c].pc \in {"sent", "checked"}
    /\ Fault
    /\ call' = [call EXCEPT ![c] = NoCall]
    /\ IF call[c].tab = Same THEN UNCHANGED <<rot, lock>> ELSE Done(call[c].tab)
    /\ UNCHANGED <<accountVars, token, reused, stored, access, form, cleared, memory, webLocks>>

\* The page is loaded again: its memory is gone and the browser takes its lock back.
Reload(t) ==
    /\ rot[t] = "sent"
    /\ Fault
    /\ access' = [access EXCEPT ![t] = "none"]
    /\ rot' = [rot EXCEPT ![t] = "idle"]
    /\ form' = [form EXCEPT ![t] = NoForm]
    /\ lock' = IF lock = t THEN Same ELSE lock
    /\ cleared' = cleared \ {t} /\ memory' = memory \ {t}
    /\ call' = [c \in Calls |-> IF call[c].tab = t THEN Orphan(call[c]) ELSE call[c]]
    /\ UNCHANGED <<accountVars, token, reused, stored, webLocks>>

-----------------------------------------------------------------------------
(* Login, logout, change of password                                       *)

SetForm(t, pc, i) == form' = [form EXCEPT ![t] = [pc |-> pc, token |-> i]]

\* The password is right and the account may sign in: a new family.
Login(t) ==
    /\ \/ form[t].pc = "idle" /\ rot[t] = "idle" /\ access[t] = "none"
       \/ form[t].pc = "again"
    /\ status[Me] = "ACTIVE"
    /\ RoomForToken
    /\ token' = Issued(0)
    /\ SetForm(t, "in", Len(token) + 1)
    /\ UNCHANGED <<accountVars, call, reused, stored, lock, access, rot, cleared, memory,
                   webLocks, faults>>

LoginAnswered(t) ==
    /\ form[t].pc = "in"
    /\ SetTokens(t, form[t].token)
    /\ SetForm(t, "idle", 0)
    /\ UNCHANGED <<serverVars, lock, rot, webLocks>>

\* The token to revoke is the one stored when the button is pressed; without an access
\* token, or without a token, only this browser forgets.
AskLogout(t) ==
    /\ form[t].pc = "idle"
    /\ access[t] # "none"
    /\ SetForm(t, IF stored # 0 THEN "out" ELSE "forget", stored)
    /\ UNCHANGED <<serverVars, stored, lock, access, rot, cleared, memory, webLocks, faults>>

\* The server revokes that token only; an access token that is refused does nothing.
ServerLogout(t) ==
    /\ form[t].pc = "out"
    /\ token' = IF access[t] = "valid" /\ status[Me] = "ACTIVE"
                THEN [token EXCEPT ![form[t].token].revoked = TRUE] ELSE token
    /\ form' = [form EXCEPT ![t].pc = "forget"]
    /\ UNCHANGED <<accountVars, call, reused, stored, lock, access, rot, cleared, memory,
                   webLocks, faults>>

LogoutUnheard(t) ==
    /\ form[t].pc = "out"
    /\ Fault
    /\ form' = [form EXCEPT ![t].pc = "forget"]
    /\ UNCHANGED <<serverVars, stored, lock, access, rot, cleared, memory, webLocks>>

\* The tokens are cleared in the end, also when the server was not reached.
Forget(t) ==
    /\ form[t].pc = "forget"
    /\ ClearTokens(t)
    /\ SetForm(t, "idle", 0)
    /\ UNCHANGED <<serverVars, lock, rot, webLocks>>

\* A new password revokes every token, and the page signs in again with it.
ChangePassword(t) ==
    /\ form[t].pc = "idle"
    /\ access[t] = "valid" /\ status[Me] = "ACTIVE"
    /\ RevokeAll
    /\ SetForm(t, "again", 0)
    /\ UNCHANGED <<accountVars, call, reused, stored, lock, access, rot, cleared, memory,
                   webLocks, faults>>

-----------------------------------------------------------------------------

Browser(t) ==
    \/ NeedAccess(t) \/ TakeLock(t) \/ AccessExpires(t) \/ StorageEvent(t) \/ Reload(t)
    \/ \E c \in Calls : Rotated(t, c) \/ Refused(t, c) \/ Unheard(t, c)
    \/ Login(t) \/ LoginAnswered(t)
    \/ AskLogout(t) \/ ServerLogout(t) \/ LogoutUnheard(t) \/ Forget(t) \/ ChangePassword(t)

Server ==
    \/ AdminStep /\ UNCHANGED tabVars
    \/ \E c \in Calls : (CheckRefresh(c) \/ IssueRefresh(c)) /\ UNCHANGED tabVars
    \/ \E c \in Calls : ServerFails(c)
    \/ \E i \in DOMAIN token : GraceEnds(i) /\ UNCHANGED tabVars

Next == Server \/ \E t \in Tabs : Browser(t)

Spec == Init /\ [][Next]_vars

-----------------------------------------------------------------------------
(* Properties                                                              *)

\* A sign-out, a change of password or a lock is final for a family: once none of its
\* tokens is active and no rotation is between its two transactions, the grace for
\* repeated tokens does not bring it back.
Dead(f) == ActiveIn(f) = {} /\ \A c \in Calls : call[c].pc = "checked" => FamilyOf(call[c].token) # f
DeadFamilyStaysDead == [][\A f \in Families : Dead(f) => (Dead(f))']_vars

\* In a browser with Web Locks two tabs never rotate one token: what the server takes for
\* a stolen token is one whose rotation was not heard of or not kept, because an answer
\* was lost, the page reloaded or the storage failed.  Without Web Locks a tab that reads
\* the token before another one's rotation and is heard after the grace is taken for a thief.
ReuseMeansLoss == reused => faults > 0 \/ ~webLocks

\* A tab that still acts as signed in is so: a token is stored, or the news that it is
\* gone is on its way to the tab; except that a token the storage did not take keeps its
\* tab signed in until the access token ends or the tab is closed.
SignedInHasToken ==
    \A t \in Tabs : access[t] # "none" => stored # 0 \/ t \in cleared \union memory

\* Some administrator can always sign in, unless one was made unusable by a write that
\* did not hold the lock: a status written after the role of the same change, or a
\* change of an account that became an administrator after it was read.
LastAdminIsLocked == UsableAdmins = {} => unlocked
=============================================================================
