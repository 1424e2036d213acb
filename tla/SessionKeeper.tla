---------------------------- MODULE SessionKeeper ----------------------------
(***************************************************************************)
(* The login state of one library account: the entry RealAuthKeeperService *)
(* keeps for it in memory, its row in the accounts table, and everyone who *)
(* uses or renews it: the grab worker, the precheck and the message        *)
(* forwarder (users), the heartbeat, the start-up login, and the handlers  *)
(* of AccountService that add, refresh and remove the account.             *)
(*                                                                         *)
(* Accounts share nothing but the order of the heartbeat and start-up      *)
(* loops, so one account is modelled.  A cookie is named by the login that *)
(* obtained it.  The code between two awaits is one action; a login that   *)
(* ends resumes all who wait for it in that same step, as the promise      *)
(* callbacks run before any other handler.                                 *)
(***************************************************************************)
EXTENDS Naturals, FiniteSets

CONSTANTS
  Users,      \* callers of getCredentials and refreshSession
  Ticks,      \* heartbeat ticks that may overlap (@Interval does not wait)
  Boot,       \* the caller that logs the account in at start-up
  Logins,     \* names of logins and of their cookies; a name is reused once free
  None,       \* no login; as a credential, the empty cookie
  MaxAdmin,   \* bound on add, refresh and remove calls of AccountService
  MaxCrashes, \* bound on restarts of the backend
  MaxWrites   \* bound on status updates pending when more are issued

Callers == Users \cup Ticks \cup {Boot}

ASSUME SessionAssumption ==
  /\ Users \cap Ticks = {} /\ Boot \notin Users \cup Ticks
  /\ None \notin Logins
  /\ IsFiniteSet(Callers)
  /\ {MaxAdmin, MaxCrashes, MaxWrites} \subseteq Nat

VARIABLES
  row,      \* accounts.status ("absent": no row)
  session,  \* the entry in the sessions map
  flight,   \* logins of the keeper in flight
  pc,       \* each caller: position
  saw,      \* each user: the cookie it sent
  joined,   \* each caller: the login it waits for
  writes,   \* fire-and-forget status updates on their way, by status
  adding, refreshing, removing, \* AccountService.create, refresh, remove: position
  admin, crashes, \* what has been used of the bounds
  lapses    \* history, since the last start: what may have left an active account
            \* without an entry, see Lapses

adminVars == <<adding, refreshing, removing, admin>>
vars == <<row, session, flight, pc, saw, joined, writes, adminVars, crashes, lapses>>

\* revived:    a refresh of AccountService has inserted the removed row again
\* unreadable: the start-up login could not decrypt the password
Lapses == {"revived", "unreadable"}

RowStatus == {"absent", "active", "login_failed"}
Outcomes  == {"active", "login_failed"}
Sessions  == [open : BOOLEAN, cred : Logins \cup {None}, lock : Logins \cup {None}, due : BOOLEAN]
Closed    == [open |-> FALSE, cred |-> None, lock |-> None, due |-> FALSE]

TypeOK ==
  /\ row \in RowStatus
  /\ session \in Sessions /\ (~session.open => session = Closed)
  /\ flight \subseteq Logins
  /\ pc \in [Callers -> {"idle", "boot", "request", "probe", "found", "wait"}]
  /\ saw \in [Users -> Logins \cup {None}]
  /\ joined \in [Callers -> Logins \cup {None}]
  /\ writes \in [Outcomes -> Nat]
  /\ adding \in {"none", "set", "done"}
  /\ refreshing \in {"idle", "login", "save", "saveFailed", "set"}
  /\ removing \in {"idle", "delete", "drop"}
  /\ admin \in Nat /\ crashes \in Nat
  /\ lapses \subseteq Lapses

StartUp == [c \in Callers |-> IF c = Boot THEN "boot" ELSE "idle"]

Init ==
  /\ row \in RowStatus
  /\ session = Closed
  /\ flight = {}
  /\ pc = StartUp
  /\ saw = [u \in Users |-> None] /\ joined = [c \in Callers |-> None]
  /\ writes = [s \in Outcomes |-> 0]
  /\ adding = IF row = "absent" THEN "none" ELSE "done"
  /\ refreshing = "idle" /\ removing = "idle"
  /\ admin = 0 /\ crashes = 0 /\ lapses = {}

\* A name nothing refers to any more.
Free(l) ==
  /\ l \in Logins \ (flight \cup {session.cred, session.lock})
  /\ \A u \in Users : saw[u] # l
  /\ \A c \in Callers : joined[c] # l
NewLogin == {l \in Logins : Free(l) /\ l = CHOOSE k \in Logins : Free(k)}

Goto(c, p) == pc' = [pc EXCEPT ![c] = p]
Saw(c, l) == saw' = [saw EXCEPT ![c] = l]

\* n more updates carry status s; those of one login are issued together.
Pending == writes["active"] + writes["login_failed"]
WriteBack(s, n) ==
  /\ Pending = 0 \/ Pending + n <= MaxWrites
  /\ writes' = [writes EXCEPT ![s] = @ + n]

-----------------------------------------------------------------------------
(* refreshSession: read the row, then log in under the account's lock.      *)

\* The heartbeat moves the next check, whatever its refresh came to.
AfterCheck(s, cs) == IF s.open /\ cs \cap Ticks # {} THEN [s EXCEPT !.due = FALSE] ELSE s

\* Reading the row: the call throws when there is none, when the query fails, and when the
\* password cannot be decrypted.
ReadRow(c) ==
  \/ /\ row # "absent"
     /\ Goto(c, "found")
     /\ UNCHANGED <<saw, session>>
  \/ /\ Goto(c, "idle")
     /\ saw' = [u \in Users |-> IF u = c THEN None ELSE saw[u]]
     /\ session' = AfterCheck(session, {c})

\* Mutant: the lock is not looked at.
EnsureLoggedIn_NoLock(c) ==
  /\ pc[c] = "found"
  /\ Goto(c, "wait")
  /\ \E l \in NewLogin :
          /\ flight' = flight \cup {l}
          /\ session' = [open |-> TRUE, cred |-> session.cred, lock |-> l,
                         due |-> session.open => session.due]
          /\ joined' = [joined EXCEPT ![c] = l]
  /\ UNCHANGED <<row, saw, writes, adminVars, crashes, lapses>>

\* A login in progress is joined; otherwise one is started, in a new entry if
\* the account has none.
EnsureLoggedIn(c) ==
  /\ pc[c] = "found"
  /\ Goto(c, "wait")
  /\ \/ /\ session.lock # None
        /\ joined' = [joined EXCEPT ![c] = session.lock]
        /\ UNCHANGED <<session, flight>>
     \/ /\ session.lock = None
        /\ \E l \in NewLogin :
             /\ flight' = flight \cup {l}
             /\ session' = [open |-> TRUE, cred |-> session.cred, lock |-> l,
                            due |-> session.open => session.due]
             /\ joined' = [joined EXCEPT ![c] = l]
  /\ UNCHANGED <<row, saw, writes, adminVars, crashes, lapses>>

Waiting(l) == {c \in Callers : pc[c] = "wait" /\ joined[c] = l}

\* Everyone who waits for login l gets its outcome and issues the status update.
Resume(l, s) ==
  /\ pc' = [c \in Callers |-> IF c \in Waiting(l) THEN "idle" ELSE pc[c]]
  /\ joined' = [c \in Callers |-> IF c \in Waiting(l) THEN None ELSE joined[c]]
  /\ saw' = [u \in Users |-> IF u \in Waiting(l) THEN None ELSE saw[u]]
  /\ WriteBack(s, Cardinality(Waiting(l)))

\* Mutant: an entry that has a cookie keeps it.
LoginSucceeds_KeepCookie(l) ==
  /\ l \in flight
  /\ flight' = flight \ {l}
  /\ session' = IF session.open
                THEN [session EXCEPT !.cred = IF @ = None THEN l ELSE @, !.lock = None, !.due = FALSE]
                ELSE session
  /\ Resume(l, "active")
  /\ UNCHANGED <<row, adminVars, crashes, lapses>>

\* Mutant: the entry is written without asking whether the map still has one.
LoginSucceeds_NoEntryCheck(l) ==
  /\ l \in flight
  /\ flight' = flight \ {l}
  /\ session' = [session EXCEPT !.cred = l, !.lock = None, !.due = FALSE]
  /\ Resume(l, "active")
  /\ UNCHANGED <<row, adminVars, crashes, lapses>>

\* The cookie goes into the entry the map has now, and that entry is unlocked,
\* whether or not it is the one the login was started for.
LoginSucceeds(l) ==
  /\ l \in flight
  /\ flight' = flight \ {l}
  /\ session' = IF session.open
                THEN [session EXCEPT !.cred = l, !.lock = None, !.due = FALSE]
                ELSE session
  /\ Resume(l, "active")
  /\ UNCHANGED <<row, adminVars, crashes, lapses>>

\* Mutant: the lock is released only after a login that succeeded.
LoginFails_KeepLock(l) ==
  /\ l \in flight
  /\ flight' = flight \ {l}
  /\ session' = AfterCheck(IF session.open THEN [session EXCEPT !.cred = None] ELSE session,
                           Waiting(l))
  /\ Resume(l, "login_failed")
  /\ UNCHANGED <<row, adminVars, crashes, lapses>>

\* A failed login clears the cookie of the entry the map has now.
LoginFails(l) ==
  /\ l \in flight
  /\ flight' = flight \ {l}
  /\ session' = AfterCheck(IF session.open THEN [session EXCEPT !.cred = None, !.lock = None]
                           ELSE session, Waiting(l))
  /\ Resume(l, "login_failed")
  /\ UNCHANGED <<row, adminVars, crashes, lapses>>

\* Mutant: the update inserts the row when there is none.
WriteLands_Upsert(s) ==
  /\ writes[s] > 0
  /\ writes' = [writes EXCEPT ![s] = @ - 1]
  /\ row' \in {row, s}
  /\ UNCHANGED <<session, flight, pc, saw, joined, adminVars, crashes, lapses>>

\* A status update lands, or fails and is forgotten: it is an UPDATE, it inserts
\* nothing.
WriteLands(s) ==
  /\ writes[s] > 0
  /\ writes' = [writes EXCEPT ![s] = @ - 1]
  /\ row' \in IF row = "absent" THEN {row} ELSE {row, s}
  /\ UNCHANGED <<session, flight, pc, saw, joined, adminVars, crashes, lapses>>

-----------------------------------------------------------------------------
(* The users: the worker, the precheck and the message forwarder.           *)

\* getCredentials never waits for a login in progress.
UserRequests(u) ==
  /\ pc[u] = "idle" /\ session.open
  /\ Saw(u, session.cred) /\ Goto(u, "request")
  /\ UNCHANGED <<row, session, flight, joined, writes, adminVars, crashes, lapses>>

\* The request is answered, or fails for another reason than the login state.
UserServed(u) ==
  /\ pc[u] = "request"
  /\ Saw(u, None) /\ Goto(u, "idle")
  /\ UNCHANGED <<row, session, flight, joined, writes, adminVars, crashes, lapses>>

\* The library does not accept the cookie (it may end a session at any time):
\* refreshSession.
UserRejected(u) ==
  /\ pc[u] = "request"
  /\ ReadRow(u)
  /\ UNCHANGED <<row, flight, joined, writes, adminVars, crashes, lapses>>

\* The precheck refreshes without having sent anything.
PrecheckRefreshes(u) ==
  /\ pc[u] = "idle"
  /\ ReadRow(u)
  /\ UNCHANGED <<row, flight, joined, writes, adminVars, crashes, lapses>>

-----------------------------------------------------------------------------
(* The heartbeat and the start-up login.                                    *)

CheckFallsDue ==
  /\ session.open /\ ~session.due
  /\ session' = [session EXCEPT !.due = TRUE]
  /\ UNCHANGED <<row, flight, pc, saw, joined, writes, adminVars, crashes, lapses>>

\* Mutant: an account without a cookie counts as valid.
TickProbes_EmptyToo(h) ==
  /\ pc[h] = "idle" /\ session.open /\ session.due
  /\ Goto(h, "probe")
  /\ UNCHANGED <<row, session, flight, saw, joined, writes, adminVars, crashes, lapses>>

\* An account without a cookie is renewed at once, another is probed first.
TickProbes(h) ==
  /\ pc[h] = "idle" /\ session.open /\ session.due
  /\ \/ session.cred = None /\ ReadRow(h)
     \/ session.cred # None /\ Goto(h, "probe") /\ UNCHANGED <<session, saw>>
  /\ UNCHANGED <<row, flight, joined, writes, adminVars, crashes, lapses>>

\* Mutant: the status is written only when a login has ended.
TickValid_NoStatus(h) ==
  /\ pc[h] = "probe"
  /\ Goto(h, "idle")
  /\ session' = AfterCheck(session, {h})
  /\ UNCHANGED <<row, flight, saw, joined, writes, adminVars, crashes, lapses>>

\* The cookie is accepted, or the probe fails on the network, which counts the
\* same.
TickValid(h) ==
  /\ pc[h] = "probe"
  /\ Goto(h, "idle")
  /\ WriteBack("active", 1)
  /\ session' = AfterCheck(session, {h})
  /\ UNCHANGED <<row, flight, saw, joined, adminVars, crashes, lapses>>

TickInvalid(h) ==
  /\ pc[h] = "probe"
  /\ ReadRow(h)
  /\ UNCHANGED <<row, flight, joined, writes, adminVars, crashes, lapses>>

\* Mutant: the start-up login picks the accounts whose last login failed.
BootReads_Failed ==
  /\ pc[Boot] = "boot"
  /\ Goto(Boot, IF row = "login_failed" THEN "found" ELSE "idle")
  /\ UNCHANGED <<row, session, flight, saw, joined, writes, adminVars, crashes, lapses>>

\* onModuleInit: only an account whose last status is active is logged in; one whose
\* password cannot be decrypted gets a status and no entry.
BootReads ==
  /\ pc[Boot] = "boot"
  /\ \/ /\ Goto(Boot, IF row = "active" THEN "found" ELSE "idle")
        /\ UNCHANGED <<writes, lapses>>
     \/ /\ row = "active"
        /\ Goto(Boot, "idle")
        /\ WriteBack("login_failed", 1)
        /\ lapses' = lapses \cup {"unreadable"}
  /\ UNCHANGED <<row, session, flight, saw, joined, adminVars, crashes>>

-----------------------------------------------------------------------------
(* AccountService.  Its logins are its own: they do not take the lock.      *)

\* A cookie of its own, an entry without a lock.
SetSession ==
  \E l \in NewLogin :
    session' = [open |-> TRUE, cred |-> l, lock |-> None, due |-> FALSE]

AdminCall == admin < MaxAdmin /\ admin' = admin + 1

\* create: the login has succeeded, the row is inserted.
AddSaves ==
  /\ adding = "none" /\ AdminCall
  /\ row' = "active" /\ adding' = "set"
  /\ UNCHANGED <<session, flight, pc, saw, joined, writes, refreshing, removing, crashes, lapses>>

AddSetsSession ==
  /\ adding = "set"
  /\ SetSession
  /\ adding' = "done"
  /\ UNCHANGED <<row, flight, pc, saw, joined, writes, refreshing, removing, admin, crashes, lapses>>

RefreshBegins ==
  /\ refreshing = "idle" /\ row # "absent" /\ AdminCall
  /\ refreshing' = "login"
  /\ UNCHANGED <<row, session, flight, pc, saw, joined, writes, adding, removing, crashes, lapses>>

RefreshLogsIn ==
  /\ refreshing = "login"
  /\ refreshing' = "save"
  /\ UNCHANGED <<row, session, flight, pc, saw, joined, writes, adding, removing, admin, crashes, lapses>>

\* The login, or the save that follows it, throws: the catch block saves again.
RefreshFails ==
  /\ refreshing \in {"login", "save"}
  /\ refreshing' = "saveFailed"
  /\ UNCHANGED <<row, session, flight, pc, saw, joined, writes, adding, removing,
                 admin, crashes, lapses>>

\* The save of a refresh finds no row.
NoteRevival ==
  lapses' = IF row = "absent" /\ row' # "absent" THEN lapses \cup {"revived"} ELSE lapses

\* save() inserts the row again if it has been removed meanwhile.
RefreshSaves ==
  /\ refreshing = "save"
  /\ row' = "active" /\ refreshing' = "set"
  /\ NoteRevival
  /\ UNCHANGED <<session, flight, pc, saw, joined, writes, adding, removing, admin, crashes>>

RefreshSetsSession ==
  /\ refreshing = "set"
  /\ SetSession
  /\ refreshing' = "idle"
  /\ UNCHANGED <<row, flight, pc, saw, joined, writes, adding, removing, admin, crashes, lapses>>

RefreshSavesFailed ==
  /\ refreshing = "saveFailed"
  /\ row' \in {row, "login_failed"} /\ refreshing' = "idle"
  /\ NoteRevival
  /\ UNCHANGED <<session, flight, pc, saw, joined, writes, adding, removing, admin, crashes>>

\* remove: the account exists and has no pending or running task; deleting the
\* row may fail.
RemoveBegins ==
  /\ removing = "idle" /\ row # "absent" /\ AdminCall
  /\ removing' = "delete"
  /\ UNCHANGED <<row, session, flight, pc, saw, joined, writes, adding, refreshing, crashes, lapses>>

RemoveDeletes ==
  /\ removing = "delete"
  /\ \/ row' = "absent" /\ removing' = "drop"
     \/ row' = row /\ removing' = "idle"
  /\ UNCHANGED <<session, flight, pc, saw, joined, writes, adding, refreshing, admin, crashes, lapses>>

\* The session of account.id is dropped, read after the deletion: TypeORM may have taken
\* the id off the entity by then, and nothing is dropped.
RemoveDropsSession ==
  /\ removing = "drop"
  /\ session' \in {session, Closed} /\ removing' = "idle"
  /\ UNCHANGED <<row, flight, pc, saw, joined, writes, adding, refreshing, admin, crashes, lapses>>

-----------------------------------------------------------------------------
\* The backend restarts: the map and everything in progress are gone.
Crash ==
  /\ crashes < MaxCrashes
  /\ crashes' = crashes + 1
  /\ session' = Closed /\ flight' = {} /\ pc' = StartUp
  /\ saw' = [u \in Users |-> None] /\ joined' = [c \in Callers |-> None]
  /\ writes' = [s \in Outcomes |-> 0]
  /\ adding' = IF adding = "none" THEN "none" ELSE "done"
  /\ refreshing' = "idle" /\ removing' = "idle"
  /\ lapses' = {}
  /\ UNCHANGED <<row, admin>>

LoginEnds(l) == LoginSucceeds(l) \/ LoginFails(l)
TickEnds(h)  == TickValid(h) \/ TickInvalid(h)
UserStep(u)  == UserRequests(u) \/ UserServed(u) \/ UserRejected(u) \/ PrecheckRefreshes(u)
AddStep      == AddSaves \/ AddSetsSession
RefreshStep  == RefreshLogsIn \/ RefreshFails \/ RefreshSaves \/ RefreshSetsSession
                \/ RefreshSavesFailed
RemoveStep   == RemoveDeletes \/ RemoveDropsSession

Next ==
  \/ \E c \in Callers : EnsureLoggedIn(c)
  \/ \E l \in Logins : LoginEnds(l)
  \/ \E s \in Outcomes : WriteLands(s)
  \/ \E u \in Users : UserStep(u)
  \/ \E h \in Ticks : TickProbes(h) \/ TickEnds(h)
  \/ CheckFallsDue \/ BootReads
  \/ AddStep \/ RefreshBegins \/ RefreshStep \/ RemoveBegins \/ RemoveStep
  \/ Crash

Spec == Init /\ [][Next]_vars

\* A check of the heartbeat is not lost to a failing read: the cookie is accepted, or it is
\* empty or refused and the row is there to renew it.
TickGetsOn(h) ==
  /\ row # "absent"
  /\ TickValid(h) \/ ((TickProbes(h) \/ TickInvalid(h)) /\ pc'[h] = "found")

\* Logins have a timeout of their own; the interval timer fires; updates are
\* answered, and of those issued again and again not every one fails, nor is every
\* check of the heartbeat lost to a failing read.
\* Nothing obliges users to send requests, or cookies to last.
Fairness ==
  /\ \A c \in Callers : WF_vars(EnsureLoggedIn(c))
  /\ \A l \in Logins : WF_vars(LoginEnds(l))
  /\ \A s \in Outcomes : WF_vars(WriteLands(s)) /\ SF_vars(WriteLands(s) /\ row' = s)
  /\ \A h \in Ticks : WF_vars(TickProbes(h)) /\ WF_vars(TickEnds(h)) /\ SF_vars(TickGetsOn(h))
  /\ WF_vars(CheckFallsDue) /\ WF_vars(BootReads)
  /\ WF_vars(AddSetsSession) /\ WF_vars(RefreshStep)

FairSpec == Spec /\ Fairness

-----------------------------------------------------------------------------
\* A lock is only held by a login that is in flight: whatever replaces or drops
\* the entry, no caller is left to wait for (or be answered by) a login that is
\* over.
LockIsLive ==
  /\ session.lock # None => session.lock \in flight
  /\ \A c \in Callers : pc[c] = "wait" => joined[c] \in flight

\* When refreshSession returns to a user whose cookie was refused, the account no
\* longer has that cookie, nor an empty one: the retry sends a new one.
RefreshReplaces ==
  [][\A u \in Users :
       pc[u] = "wait" /\ pc'[u] = "idle" /\ writes'["active"] > writes["active"] /\ session'.open =>
         session'.cred \notin {saw[u], None}]_vars

\* The login lock: an account has one login of the keeper in flight, and at most one
\* more for every call of AccountService, which replaces or drops the locked entry.  A
\* login that has lost the lock and then releases it for another adds none.
OneLogin == Cardinality(flight) <= 1 + admin

\* The keeper and AccountService together implement the single flight.
SF == INSTANCE SingleFlight
        WITH groups <- {Waiting(l) : l \in flight},
             holder <- IF session.lock = None THEN {} ELSE Waiting(session.lock)
ImplementsSingleFlight == SF!Spec

\* An account that has lost its cookie is logged in again by the heartbeat, also when a
\* login that failed has cleared a cookie which AccountService had just stored.
HeartbeatRepairs ==
  session.open /\ session.cred = None ~>
    flight # {} \/ session.cred # None \/ ~session.open \/ row = "absent"

\* An active account has an entry, so that getCredentials does not throw for it, from the
\* end of its start-up login, its creation or its refresh on, whatever logins, removals and
\* late updates do to both; but for the accounts that a refresh has brought back after
\* their removal, and those whose password the start-up login could not decrypt.
ActiveHasSession ==
  row = "active" /\ ~session.open =>
    \/ pc[Boot] \in {"boot", "found"}
    \/ adding = "set" \/ refreshing = "set"
    \/ lapses # {}

\* A removed account gets a row again only from a refresh that was under way, and
\* an entry only from that refresh or from a caller that had read the row before:
\* late status updates, logins that end late and the heartbeat bring nothing back.
RemovedStaysRemoved ==
  [][row = "absent" /\ removing = "idle" =>
       /\ row' # "absent" => adding = "none" \/ refreshing # "idle"
       /\ session'.open /\ ~session.open =>
            \/ adding = "set" \/ refreshing = "set"
            \/ \E c \in Callers : pc[c] = "found"]_vars

\* Updates of the status overtake one another, and some fail; yet an account that
\* stays logged in does not keep a row that says its login has failed.
RowFollowsSession ==
  <>[](session.cred # None /\ flight = {}) => <>[](row # "login_failed")
=============================================================================
