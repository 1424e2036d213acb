------------------------ MODULE SessionKeeper_proofs ------------------------
(***************************************************************************)
(* Theorems about SessionKeeper for every set of users, overlapping        *)
(* heartbeat ticks and logins, and every bound.                            *)
(***************************************************************************)
EXTENDS SessionKeeper, FiniteSetTheorems, TLAPS

\* The inductive invariant that needs no assumption on the handlers of
\* AccountService: types, and waiters and the lock refer to logins in flight.
LockInv == TypeOK /\ LockIsLive

LEMMA WaitingFinite == ASSUME NEW l PROVE Cardinality(Waiting(l)) \in Nat
<1>1. Waiting(l) \subseteq Callers
  BY DEF Waiting
<1>2. IsFiniteSet(Waiting(l))
  BY <1>1, SessionAssumption, FS_Subset
<1> QED
  BY <1>2, FS_CardinalityType

\* Facts about the sets of callers that every step of the proofs needs.
LEMMA CallerFacts == Users \subseteq Callers /\ Ticks \subseteq Callers /\ Boot \in Callers
BY DEF Callers

LEMMA LockInvInit == Init => LockInv
BY SessionAssumption DEF Init, LockInv, TypeOK, LockIsLive, StartUp, Closed, Sessions,
  RowStatus, Outcomes

\* What the updates of the entry make of it.
LEMMA Renewed ==
  ASSUME TypeOK, NEW l \in Logins
  PROVE  /\ session.open =>
              LET s == [session EXCEPT !.cred = l, !.lock = None, !.due = FALSE]
              IN  s \in Sessions /\ s.open /\ s.lock = None /\ s.cred = l
         /\ session.open =>
              LET s == [session EXCEPT !.cred = None, !.lock = None]
              IN  s \in Sessions /\ s.open /\ s.lock = None /\ s.cred = None
         /\ ~session.open => session = Closed /\ session \in Sessions /\ session.lock = None
<1>1. CASE session.open
  BY <1>1 DEF TypeOK, Sessions
<1>2. CASE ~session.open
  BY <1>2 DEF TypeOK, Closed
<1> QED
  BY <1>1, <1>2

LEMMA Checked ==
  ASSUME NEW s \in Sessions, NEW cs
  PROVE  /\ AfterCheck(s, cs) \in Sessions
         /\ AfterCheck(s, cs).open = s.open
         /\ AfterCheck(s, cs).lock = s.lock /\ AfterCheck(s, cs).cred = s.cred
         /\ ~s.open => AfterCheck(s, cs) = s
<1>1. CASE s.open /\ cs \cap Ticks # {}
  BY <1>1 DEF AfterCheck, Sessions
<1>2. CASE ~(s.open /\ cs \cap Ticks # {})
  BY <1>2 DEF AfterCheck
<1> QED
  BY <1>1, <1>2

\* One lemma per kind of step.
LEMMA EnsureKeepsLockInv == ASSUME LockInv, NEW c \in Callers, EnsureLoggedIn(c) PROVE LockInv'
<1> USE SessionAssumption DEF LockInv, TypeOK, LockIsLive, Sessions, Closed, Goto
<1>1. pc' = [pc EXCEPT ![c] = "wait"]
  BY DEF EnsureLoggedIn
<1>2. CASE session.lock # None /\ joined' = [joined EXCEPT ![c] = session.lock]
           /\ UNCHANGED <<session, flight>>
  BY <1>1, <1>2 DEF EnsureLoggedIn, adminVars
<1>3. ASSUME NEW l \in NewLogin, flight' = flight \cup {l}, joined' = [joined EXCEPT ![c] = l],
             session' = [open |-> TRUE, cred |-> session.cred, lock |-> l,
                         due |-> session.open => session.due]
      PROVE LockInv'
  <2>1. l \in Logins
    BY DEF NewLogin
  <2>2. session' \in Sessions /\ session'.open /\ session'.lock = l
    BY <1>3, <2>1
  <2> QED
    BY <1>1, <1>3, <2>1, <2>2 DEF EnsureLoggedIn, adminVars
<1> QED
  BY <1>2, <1>3 DEF EnsureLoggedIn

LEMMA LoginEndsKeepsLockInv == ASSUME LockInv, NEW l \in Logins, LoginEnds(l) PROVE LockInv'
<1> USE SessionAssumption DEF LockInv, TypeOK, LockIsLive, Sessions, Closed
<1>1. Cardinality(Waiting(l)) \in Nat
  BY WaitingFinite
<1>2. /\ flight' = flight \ {l}
      /\ session' \in Sessions /\ (~session'.open => session' = Closed)
      /\ session'.lock = None
  <2>1. CASE LoginSucceeds(l)
    BY <2>1, Renewed DEF LoginSucceeds
  <2>2. CASE LoginFails(l)
    <3> DEFINE s == IF session.open THEN [session EXCEPT !.cred = None, !.lock = None]
                    ELSE session
    <3>1. s \in Sessions /\ s.lock = None /\ (~s.open => s = Closed)
      <4>1. CASE session.open
        BY <4>1
      <4>2. CASE ~session.open
        BY <4>2
      <4> QED
        BY <4>1, <4>2
    <3>2. session' = AfterCheck(s, Waiting(l)) /\ flight' = flight \ {l}
      BY <2>2 DEF LoginFails
    <3> HIDE DEF s
    <3> QED
      BY <3>1, <3>2, Checked
  <2> QED
    BY <2>1, <2>2 DEF LoginEnds
<1>3. \E s \in Outcomes : Resume(l, s)
  BY DEF LoginEnds, LoginSucceeds, LoginFails, Outcomes
<1>4. PICK s \in Outcomes : Resume(l, s)
  BY <1>3
<1>5. writes' \in [Outcomes -> Nat]
  BY <1>1, <1>4 DEF Resume, WriteBack
<1>6. /\ pc' = [c \in Callers |-> IF c \in Waiting(l) THEN "idle" ELSE pc[c]]
      /\ joined' = [c \in Callers |-> IF c \in Waiting(l) THEN None ELSE joined[c]]
      /\ saw' = [u \in Users |-> IF u \in Waiting(l) THEN None ELSE saw[u]]
  BY <1>4 DEF Resume
<1>7. UNCHANGED <<row, adding, refreshing, removing, admin, crashes, lapses>>
  BY DEF LoginEnds, LoginSucceeds, LoginFails, adminVars
<1>8. TypeOK'
  BY <1>2, <1>5, <1>6, <1>7
<1>9. \A c \in Callers : pc'[c] = "wait" => joined'[c] \in flight'
  <2> SUFFICES ASSUME NEW c \in Callers, pc'[c] = "wait" PROVE joined'[c] \in flight'
    OBVIOUS
  <2>1. c \notin Waiting(l) /\ pc[c] = "wait" /\ joined'[c] = joined[c]
    BY <1>6
  <2>2. joined[c] # l /\ joined[c] \in flight
    BY <2>1 DEF Waiting
  <2> QED
    BY <1>2, <2>1, <2>2
<1> QED
  BY <1>2, <1>8, <1>9

\* A caller moves between positions other than "wait", and the entry keeps its
\* lock: what the steps of users and ticks have in common.
LEMMA CallerKeepsLockInv ==
  ASSUME LockInv, NEW c \in Callers,
         pc[c] # "wait",
         NEW p \in {"idle", "request", "probe", "found"}, pc' = [pc EXCEPT ![c] = p],
         session' \in Sessions, ~session'.open => session' = Closed,
         session'.lock = session.lock,
         saw' \in [Users -> Logins \cup {None}],
         writes' \in [Outcomes -> Nat],
         UNCHANGED <<row, flight, joined, adminVars, crashes, lapses>>
  PROVE  LockInv'
BY DEF LockInv, TypeOK, LockIsLive, adminVars

LEMMA ReadRowFacts ==
  ASSUME TypeOK, NEW c \in Callers, ReadRow(c)
  PROVE  /\ \E p \in {"idle", "found"} : pc' = [pc EXCEPT ![c] = p]
         /\ session' \in Sessions /\ (~session'.open => session' = Closed)
         /\ session'.lock = session.lock /\ session'.cred = session.cred
         /\ saw' \in [Users -> Logins \cup {None}]
         /\ \A u \in Users : saw'[u] \in {saw[u], None}
<1>1. session' \in {session, AfterCheck(session, {c})}
  BY DEF ReadRow
<1>2. session \in Sessions /\ (~session.open => session = Closed)
  BY DEF TypeOK
<1>3. /\ session' \in Sessions /\ (~session'.open => session' = Closed)
      /\ session'.lock = session.lock /\ session'.cred = session.cred
  BY <1>1, <1>2, Checked
<1>4. \E p \in {"idle", "found"} : pc' = [pc EXCEPT ![c] = p]
  BY DEF ReadRow, Goto
<1>5. /\ saw' \in [Users -> Logins \cup {None}]
      /\ \A u \in Users : saw'[u] \in {saw[u], None}
  BY DEF ReadRow, TypeOK
<1> QED
  BY <1>3, <1>4, <1>5

LEMMA UserKeepsLockInv == ASSUME LockInv, NEW u \in Users, UserStep(u) PROVE LockInv'
<1> USE CallerFacts
<1>1. CASE UserRequests(u)
  BY <1>1, CallerKeepsLockInv DEF UserRequests, Saw, Goto, LockInv, TypeOK, Sessions
<1>2. CASE UserServed(u)
  BY <1>2, CallerKeepsLockInv DEF UserServed, Saw, Goto, LockInv, TypeOK
<1>3. CASE UserRejected(u)
  BY <1>3, ReadRowFacts, CallerKeepsLockInv DEF UserRejected, LockInv, TypeOK
<1>4. CASE PrecheckRefreshes(u)
  BY <1>4, ReadRowFacts, CallerKeepsLockInv DEF PrecheckRefreshes, LockInv, TypeOK
<1> QED
  BY <1>1, <1>2, <1>3, <1>4 DEF UserStep

LEMMA TickKeepsLockInv ==
  ASSUME LockInv, NEW h \in Ticks, TickProbes(h) \/ TickEnds(h) PROVE LockInv'
<1> USE CallerFacts
<1>1. CASE TickProbes(h) /\ ReadRow(h)
  BY <1>1, ReadRowFacts, CallerKeepsLockInv DEF TickProbes, LockInv, TypeOK
<1>2. CASE TickProbes(h) /\ Goto(h, "probe") /\ UNCHANGED <<session, saw>>
  BY <1>2, CallerKeepsLockInv DEF TickProbes, Goto, LockInv, TypeOK
<1>3. CASE TickValid(h)
  <2>1. writes' \in [Outcomes -> Nat]
    BY <1>3 DEF TickValid, WriteBack, Outcomes, LockInv, TypeOK
  <2>2. /\ session' \in Sessions /\ (~session'.open => session' = Closed)
        /\ session'.lock = session.lock
    <3>1. session \in Sessions /\ (~session.open => session = Closed)
      BY DEF LockInv, TypeOK
    <3>2. session' = AfterCheck(session, {h})
      BY <1>3 DEF TickValid
    <3> QED
      BY <3>1, <3>2, Checked
  <2> QED
    BY <1>3, <2>1, <2>2, CallerKeepsLockInv DEF TickValid, Goto, LockInv, TypeOK
<1>4. CASE TickInvalid(h)
  BY <1>4, ReadRowFacts, CallerKeepsLockInv DEF TickInvalid, LockInv, TypeOK
<1> QED
  BY <1>1, <1>2, <1>3, <1>4 DEF TickProbes, TickEnds

\* The handlers of AccountService leave callers and logins alone, and an entry
\* they write or drop has no lock.
LEMMA AdminKeepsLockInv ==
  ASSUME LockInv, AddStep \/ RefreshBegins \/ RefreshStep \/ RemoveBegins \/ RemoveStep
  PROVE  LockInv'
<1> USE SessionAssumption
<1>1. /\ UNCHANGED <<flight, pc, saw, joined, writes, crashes>>
      /\ row' \in RowStatus
      /\ adding' \in {"none", "set", "done"}
      /\ refreshing' \in {"idle", "login", "save", "saveFailed", "set"}
      /\ removing' \in {"idle", "delete", "drop"}
      /\ admin' \in Nat
  BY DEF AddStep, RefreshBegins, RefreshStep, RemoveBegins, RemoveStep, AddSaves,
    AddSetsSession, RefreshLogsIn, RefreshFails, RefreshSaves, RefreshSetsSession,
    RefreshSavesFailed, RemoveDeletes, RemoveDropsSession, AdminCall, LockInv, TypeOK, RowStatus
<1>4. lapses' \subseteq Lapses
  <2>1. lapses' \in {lapses, lapses \cup {"revived"}}
    BY DEF AddStep, RefreshBegins, RefreshStep, RemoveBegins, RemoveStep, AddSaves,
      AddSetsSession, RefreshLogsIn, RefreshFails, RefreshSaves, RefreshSetsSession,
      RefreshSavesFailed, RemoveDeletes, RemoveDropsSession, NoteRevival
  <2> QED
    BY <2>1 DEF LockInv, TypeOK, Lapses
<1>2. \/ session' = session
      \/ session' = Closed
      \/ \E l \in NewLogin : session' = [open |-> TRUE, cred |-> l, lock |-> None, due |-> FALSE]
  BY DEF AddStep, RefreshBegins, RefreshStep, RemoveBegins, RemoveStep, AddSaves,
    AddSetsSession, RefreshLogsIn, RefreshFails, RefreshSaves, RefreshSetsSession,
    RefreshSavesFailed, RemoveDeletes, RemoveDropsSession, SetSession
<1>3. /\ session' \in Sessions /\ (~session'.open => session' = Closed)
      /\ session'.lock \in {session.lock, None}
  <2>1. CASE session' = session
    BY <2>1 DEF LockInv, TypeOK
  <2>2. CASE session' = Closed
    BY <2>2 DEF Sessions, Closed
  <2>3. ASSUME NEW l \in NewLogin,
               session' = [open |-> TRUE, cred |-> l, lock |-> None, due |-> FALSE]
        PROVE  session' \in Sessions /\ session'.open /\ session'.lock = None
    <3>1. l \in Logins
      BY DEF NewLogin
    <3> QED
      BY <2>3, <3>1 DEF Sessions
  <2> QED
    BY <1>2, <2>1, <2>2, <2>3
<1> QED
  BY <1>1, <1>3, <1>4 DEF LockInv, TypeOK, LockIsLive

LEMMA LockInvNext == ASSUME LockInv, [Next]_vars PROVE LockInv'
<1>1. ASSUME NEW c \in Callers, EnsureLoggedIn(c) PROVE LockInv'
  BY <1>1, EnsureKeepsLockInv
<1>2. ASSUME NEW l \in Logins, LoginEnds(l) PROVE LockInv'
  BY <1>2, LoginEndsKeepsLockInv
<1>3. ASSUME NEW s \in Outcomes, WriteLands(s) PROVE LockInv'
  BY <1>3 DEF WriteLands, LockInv, TypeOK, LockIsLive, Outcomes, RowStatus, adminVars
<1>4. ASSUME NEW u \in Users, UserStep(u) PROVE LockInv'
  BY <1>4, UserKeepsLockInv
<1>5. ASSUME NEW h \in Ticks, TickProbes(h) \/ TickEnds(h) PROVE LockInv'
  BY <1>5, TickKeepsLockInv
<1>6. CASE CheckFallsDue
  BY <1>6 DEF CheckFallsDue, LockInv, TypeOK, LockIsLive, Sessions, adminVars
<1>7. CASE BootReads
  <2>1. lapses' \subseteq Lapses
    BY <1>7 DEF BootReads, Lapses, LockInv, TypeOK
  <2>3. writes' \in [Outcomes -> Nat]
    BY <1>7 DEF BootReads, WriteBack, Outcomes, LockInv, TypeOK
  <2>2. \E p \in {"idle", "found"} : pc' = [pc EXCEPT ![Boot] = p]
    BY <1>7 DEF BootReads, Goto
  <2> QED
    BY <1>7, <2>1, <2>2, <2>3, CallerFacts DEF BootReads, LockInv, TypeOK, LockIsLive, adminVars
<1>8. CASE AddStep \/ RefreshBegins \/ RefreshStep \/ RemoveBegins \/ RemoveStep
  BY <1>8, AdminKeepsLockInv
<1>9. CASE Crash
  BY <1>9, SessionAssumption
    DEF Crash, StartUp, LockInv, TypeOK, LockIsLive, Sessions, Closed, Outcomes
<1>10. CASE UNCHANGED vars
  BY <1>10 DEF vars, adminVars, LockInv, TypeOK, LockIsLive
<1> QED
  BY <1>1, <1>2, <1>3, <1>4, <1>5, <1>6, <1>7, <1>8, <1>9, <1>10 DEF Next

LEMMA LockInvHolds == Spec => []LockInv
<1>1. Init => LockInv
  BY LockInvInit
<1>2. LockInv /\ [Next]_vars => LockInv'
  BY LockInvNext
<1> QED
  BY <1>1, <1>2, PTL DEF Spec

\* Every variable of the session keeper keeps its type.
THEOREM SessionTypeCorrect == Spec => []TypeOK
<1>1. LockInv => TypeOK
  BY DEF LockInv
<1> QED
  BY <1>1, LockInvHolds, PTL

\* The lock, and everyone who waits, refers to a login that is in flight, also
\* when AccountService replaces or drops the entry under the login.
THEOREM LockIsLiveHolds == Spec => []LockIsLive
<1>1. LockInv => LockIsLive
  BY DEF LockInv
<1> QED
  BY <1>1, LockInvHolds, PTL

-----------------------------------------------------------------------------
(* What brings a row, or an entry, back.                                    *)

\* The end of a login and the steps of users and ticks open no entry, and write no
\* row.
LEMMA OpensNothing ==
  ASSUME TypeOK,
         \/ \E l \in Logins : LoginEnds(l)
         \/ \E u \in Users : UserStep(u)
         \/ \E h \in Ticks : TickProbes(h) \/ TickEnds(h)
  PROVE  row' = row /\ session'.open = session.open
<1> USE CallerFacts
<1>1. ASSUME NEW cs PROVE AfterCheck(session, cs).open = session.open
  BY Checked DEF TypeOK
<1>2. ASSUME NEW c, ReadRow(c) PROVE session'.open = session.open
  BY <1>1, <1>2 DEF ReadRow
<1>3. ASSUME NEW l \in Logins, LoginEnds(l) PROVE row' = row /\ session'.open = session.open
  <2>0. session \in Sessions
    BY DEF TypeOK
  <2>1. CASE LoginSucceeds(l)
    <3>1. CASE session.open
      <4>1. session' = [session EXCEPT !.cred = l, !.lock = None, !.due = FALSE] /\ row' = row
        BY <2>1, <3>1 DEF LoginSucceeds
      <4> QED
        BY <2>0, <4>1 DEF Sessions
    <3>2. CASE ~session.open
      BY <2>1, <3>2 DEF LoginSucceeds
    <3> QED
      BY <3>1, <3>2
  <2>2. CASE LoginFails(l)
    <3> DEFINE s == IF session.open THEN [session EXCEPT !.cred = None, !.lock = None]
                    ELSE session
    <3>1. s \in Sessions /\ s.open = session.open
      BY <2>0, SessionAssumption DEF Sessions
    <3>2. session' = AfterCheck(s, Waiting(l)) /\ row' = row
      BY <2>2 DEF LoginFails
    <3> HIDE DEF s
    <3> QED
      BY <3>1, <3>2, Checked
  <2> QED
    BY <1>3, <2>1, <2>2 DEF LoginEnds
<1>4. ASSUME NEW u \in Users, UserStep(u) PROVE row' = row /\ session'.open = session.open
  BY <1>2, <1>4 DEF UserStep, UserRequests, UserServed, UserRejected, PrecheckRefreshes
<1>5. ASSUME NEW h \in Ticks, TickProbes(h) \/ TickEnds(h)
      PROVE  row' = row /\ session'.open = session.open
  BY <1>1, <1>2, <1>5 DEF TickProbes, TickEnds, TickValid, TickInvalid
<1> QED
  BY <1>3, <1>4, <1>5

BringsBack ==
  row = "absent" /\ removing = "idle" =>
    /\ row' # "absent" => adding = "none" \/ refreshing # "idle"
    /\ session'.open /\ ~session.open =>
         \/ adding = "set" \/ refreshing = "set"
         \/ \E c \in Callers : pc[c] = "found"

LEMMA NextBringsBack == ASSUME TypeOK, [Next]_vars PROVE BringsBack
<1> USE DEF BringsBack
<1>1. ASSUME NEW c \in Callers, EnsureLoggedIn(c) PROVE BringsBack
  BY <1>1 DEF EnsureLoggedIn
<1>2. CASE \/ \E l \in Logins : LoginEnds(l)
           \/ \E u \in Users : UserStep(u)
           \/ \E h \in Ticks : TickProbes(h) \/ TickEnds(h)
  BY <1>2, OpensNothing
<1>3. ASSUME NEW s \in Outcomes, WriteLands(s) PROVE BringsBack
  BY <1>3 DEF WriteLands
<1>4. CASE CheckFallsDue \/ BootReads
  BY <1>4 DEF CheckFallsDue, BootReads
<1>5. CASE AddStep
  BY <1>5 DEF AddStep, AddSaves, AddSetsSession
<1>6. CASE RefreshBegins \/ RefreshStep
  BY <1>6 DEF RefreshBegins, RefreshStep, RefreshLogsIn, RefreshFails, RefreshSaves,
              RefreshSetsSession, RefreshSavesFailed
<1>7. CASE RemoveBegins \/ RemoveStep
  BY <1>7 DEF RemoveBegins, RemoveStep, RemoveDeletes, RemoveDropsSession
<1>8. CASE Crash
  BY <1>8 DEF Crash, Closed
<1>9. CASE UNCHANGED vars
  BY <1>9 DEF vars
<1> QED
  BY <1>1, <1>2, <1>3, <1>4, <1>5, <1>6, <1>7, <1>8, <1>9 DEF Next

\* A removed account comes back only through what was under way when it was
\* removed (account.service.ts:131-172, real-auth-keeper.service.ts:286-328).
THEOREM RemovedStaysRemovedHolds == Spec => RemovedStaysRemoved
<1>1. TypeOK /\ [Next]_vars =>
        (row = "absent" /\ removing = "idle" =>
                      /\ row' # "absent" => adding = "none" \/ refreshing # "idle"
                      /\ session'.open /\ ~session.open =>
                           \/ adding = "set" \/ refreshing = "set"
                           \/ \E c \in Callers : pc[c] = "found")
  BY NextBringsBack DEF BringsBack
<1> QED
  BY <1>1, SessionTypeCorrect, PTL DEF Spec, RemovedStaysRemoved

-----------------------------------------------------------------------------
(* An active account has an entry.                                           *)

\* What is still to come when there is no entry: nothing that would make the row active,
\* and nothing at all as long as the account has never been added.
EntryInv ==
  /\ TypeOK /\ ActiveHasSession
  /\ row # "absent" /\ ~session.open /\ lapses = {} =>
       flight = {} /\ writes["active"] = 0 /\ \A h \in Ticks : pc[h] # "probe"
  /\ removing = "drop" => row = "absent" \/ lapses # {}
  /\ adding = "none" =>
       /\ row = "absent" /\ refreshing = "idle" /\ removing = "idle" /\ ~session.open
       /\ flight = {} /\ writes["active"] = 0
       /\ \A c \in Callers : pc[c] \in {"idle", "boot"}

LEMMA EntryInvInit == Init => EntryInv
BY LockInvInit, SessionAssumption DEF Init, EntryInv, ActiveHasSession, LockInv, StartUp, Closed,
  Callers, Outcomes

LEMMA EntryInvNext == ASSUME EntryInv, TypeOK', [Next]_vars PROVE EntryInv'
<1> USE CallerFacts DEF EntryInv, ActiveHasSession
<1>0. /\ Boot \notin Users /\ Boot \notin Ticks /\ Users \cap Ticks = {}
      /\ pc \in [Callers -> {"idle", "boot", "request", "probe", "found", "wait"}]
      /\ writes \in [Outcomes -> Nat] /\ Outcomes = {"active", "login_failed"}
      /\ ~session.open => session.lock = None
  BY SessionAssumption DEF TypeOK, Closed, Outcomes
<1>1. ASSUME NEW c \in Callers, EnsureLoggedIn(c) PROVE EntryInv'
  <2>1. session'.open
    BY <1>0, <1>1 DEF EnsureLoggedIn
  <2>2. adding # "none" /\ row' = row /\ UNCHANGED <<adding, removing, lapses>>
    BY <1>1 DEF EnsureLoggedIn, adminVars
  <2> QED
    BY <2>1, <2>2
<1>2. ASSUME NEW l \in Logins, LoginEnds(l) PROVE EntryInv'
  <2>1. l \in flight /\ UNCHANGED <<adding, refreshing, removing, lapses>>
    BY <1>2 DEF LoginEnds, LoginSucceeds, LoginFails, adminVars
  <2>2. row' = row /\ session'.open = session.open
    BY <1>2, OpensNothing
  <2> QED
    BY <2>1, <2>2
<1>3. ASSUME NEW s \in Outcomes, WriteLands(s) PROVE EntryInv'
  <2>1. /\ UNCHANGED <<session, flight, pc, adding, refreshing, removing, lapses>>
        /\ row' = row \/ (row # "absent" /\ row' = s)
        /\ writes[s] > 0 /\ writes' = [writes EXCEPT ![s] = @ - 1]
    BY <1>3 DEF WriteLands, adminVars
  <2>2. writes["active"] = 0 => s = "login_failed" /\ writes'["active"] = 0
    BY <1>0, <2>1
  <2> QED
    BY <2>1, <2>2
<1>4. ASSUME NEW c \in Callers, ReadRow(c), row' = row,
             UNCHANGED <<flight, writes, adding, refreshing, removing, lapses>>,
             session'.open = session.open, c # Boot
      PROVE  EntryInv'
  BY <1>0, <1>4 DEF ReadRow, Goto
<1>5. ASSUME NEW u \in Users, UserStep(u) PROVE EntryInv'
  <2>1. row' = row /\ session'.open = session.open
    BY <1>5, OpensNothing
  <2>2. UNCHANGED <<flight, writes, adding, refreshing, removing, lapses>>
    BY <1>5 DEF UserStep, UserRequests, UserServed, UserRejected, PrecheckRefreshes, adminVars
  <2>3. CASE ReadRow(u)
    BY <1>0, <1>4, <2>1, <2>2, <2>3
  <2>4. CASE UserRequests(u) \/ UserServed(u)
    BY <1>0, <2>1, <2>2, <2>4 DEF UserRequests, UserServed, Goto
  <2> QED
    BY <1>5, <2>3, <2>4 DEF UserStep, UserRejected, PrecheckRefreshes
<1>6. ASSUME NEW h \in Ticks, TickProbes(h) \/ TickEnds(h) PROVE EntryInv'
  <2>1. row' = row /\ session'.open = session.open
    BY <1>6, OpensNothing
  <2>2. UNCHANGED <<flight, adding, refreshing, removing, lapses>>
    BY <1>6 DEF TickProbes, TickEnds, TickValid, TickInvalid, adminVars
  <2>3. CASE ReadRow(h) /\ UNCHANGED writes
    BY <1>0, <1>4, <2>1, <2>2, <2>3
  <2>4. CASE TickProbes(h) /\ Goto(h, "probe")
    BY <1>0, <2>1, <2>2, <2>4 DEF TickProbes, Goto
  <2>5. CASE TickValid(h)
    BY <1>0, <2>1, <2>2, <2>5 DEF TickValid, Goto
  <2> QED
    BY <1>6, <2>3, <2>4, <2>5 DEF TickProbes, TickEnds, TickInvalid
<1>7. CASE CheckFallsDue
  <2>1. session.open /\ session'.open
    BY <1>7 DEF CheckFallsDue, TypeOK, Sessions
  <2> QED
    BY <1>7, <2>1 DEF CheckFallsDue, adminVars
<1>8. CASE BootReads
  <2>1. /\ UNCHANGED <<row, session, flight, adding, refreshing, removing>>
        /\ \E p \in {"idle", "found"} : pc' = [pc EXCEPT ![Boot] = p]
        /\ row = "active" => pc' = [pc EXCEPT ![Boot] = "found"] \/ lapses' # {}
        /\ row # "active" => pc' = [pc EXCEPT ![Boot] = "idle"]
        /\ lapses \subseteq lapses'
    BY <1>8 DEF BootReads, Goto, adminVars
  <2>2. writes'["active"] = writes["active"]
    BY <1>0, <1>8 DEF BootReads, WriteBack
  <2> QED
    BY <1>0, <2>1, <2>2
<1>9. CASE AddStep
  BY <1>9 DEF AddStep, AddSaves, AddSetsSession, SetSession
<1>10. CASE RefreshBegins \/ RefreshStep
  BY <1>10 DEF RefreshBegins, RefreshStep, RefreshLogsIn, RefreshFails, RefreshSaves,
    RefreshSetsSession, RefreshSavesFailed, NoteRevival, SetSession
<1>11. CASE RemoveBegins \/ RemoveStep
  BY <1>11 DEF RemoveBegins, RemoveStep, RemoveDeletes, RemoveDropsSession
<1>12. CASE Crash
  BY <1>0, <1>12, SessionAssumption DEF Crash, StartUp, Closed
<1>13. CASE UNCHANGED vars
  BY <1>13 DEF vars, adminVars
<1> QED
  BY <1>1, <1>2, <1>3, <1>5, <1>6, <1>7, <1>8, <1>9, <1>10, <1>11, <1>12, <1>13 DEF Next

\* The entry that getCredentials looks for is there as long as the row says active, whatever
\* the calls of AccountService, the logins, the late updates and the restarts do to either,
\* unless a refresh brought the removed row back or the start-up login could not read the
\* password (real-auth-keeper.service.ts:71-101, account.service.ts:61-214).
THEOREM ActiveHasSessionHolds == Spec => []ActiveHasSession
<1>1. EntryInv /\ TypeOK' /\ [Next]_vars => EntryInv'
  BY EntryInvNext
<1>2. EntryInv => ActiveHasSession
  BY DEF EntryInv
<1> QED
  BY <1>1, <1>2, EntryInvInit, SessionTypeCorrect, PTL DEF Spec

-----------------------------------------------------------------------------
(* How many logins of one account the lock lets through.                    *)

One(b) == IF b THEN 1 ELSE 0

\* The calls of AccountService that have not written the entry yet.
Owed == One(adding = "set") + One(refreshing # "idle") + One(removing # "idle")

\* A login in flight without the lock has lost it to a call of AccountService, and every
\* call takes the lock from one login at most.  A login that ends without the lock takes
\* it from another, which then is without it in its place.
BoundInv ==
  /\ LockInv
  /\ IsFiniteSet(flight)
  /\ Cardinality(flight \ {session.lock}) + Owed <= admin

\* The sum in BoundInv when the strays stay and the calls owe no more.
LEMMA StaysWithin ==
  ASSUME NEW n \in Nat, NEW o \in Nat, NEW a \in Nat, NEW p \in Nat, NEW b \in Nat,
         n + o <= a, p + a <= o + b
  PROVE  n + p <= b
OBVIOUS

LEMMA OwedType == Owed \in Nat
BY DEF Owed, One

\* Cardinalities of a finite set with one element less.
LEMMA OneLess ==
  ASSUME NEW S, IsFiniteSet(S), NEW x
  PROVE  /\ IsFiniteSet(S \ {x})
         /\ Cardinality(S) \in Nat /\ Cardinality(S \ {x}) \in Nat
         /\ Cardinality(S \ {x}) <= Cardinality(S)
         /\ x \in S => Cardinality(S \ {x}) = Cardinality(S) - 1
         /\ x \notin S => Cardinality(S \ {x}) = Cardinality(S)
<1>1. Cardinality(S) \in Nat
  BY FS_CardinalityType
<1>2. CASE x \in S
  <2>1. IsFiniteSet(S \ {x}) /\ Cardinality(S \ {x}) = Cardinality(S) - 1
    BY <1>2, FS_RemoveElement
  <2>2. Cardinality(S \ {x}) \in Nat
    BY <2>1, FS_CardinalityType
  <2> QED
    BY <1>1, <1>2, <2>1, <2>2
<1>3. CASE x \notin S
  <2>1. S \ {x} = S
    BY <1>3
  <2> QED
    BY <1>1, <1>3, <2>1
<1> QED
  BY <1>2, <1>3

\* The same as a bound on the whole.
LEMMA AtMostOneLess ==
  ASSUME NEW S, IsFiniteSet(S), NEW x
  PROVE  /\ Cardinality(S) \in Nat /\ Cardinality(S \ {x}) \in Nat
         /\ Cardinality(S) <= Cardinality(S \ {x}) + 1
<1> DEFINE m == Cardinality(S)
           n == Cardinality(S \ {x})
<1>1. m \in Nat /\ n \in Nat /\ (n = m - 1 \/ n = m)
  BY OneLess
<1> HIDE DEF m, n
<1>2. m <= n + 1
  BY <1>1
<1> QED
  BY <1>1, <1>2 DEF m, n

\* The steps of users, ticks, status updates, the clock and the start-up login do
\* not touch the lock, the logins in flight or the set of those who wait.
LEMMA Bystanders ==
  ASSUME LockInv,
         \/ \E s \in Outcomes : WriteLands(s)
         \/ \E u \in Users : UserStep(u)
         \/ \E h \in Ticks : TickProbes(h) \/ TickEnds(h)
         \/ CheckFallsDue \/ BootReads
         \/ UNCHANGED vars
  PROVE  /\ UNCHANGED <<flight, joined, adminVars>>
         /\ session'.lock = session.lock /\ session'.cred = session.cred
         /\ \A c \in Callers : (pc[c] = "wait") = (pc'[c] = "wait")
<1> USE CallerFacts
<1>0. session \in Sessions /\ pc \in [Callers -> {"idle", "boot", "request", "probe", "found", "wait"}]
  BY DEF LockInv, TypeOK
<1>1. ASSUME NEW c \in Callers, pc[c] # "wait",
             NEW p \in {"idle", "request", "probe", "found"}, pc' = [pc EXCEPT ![c] = p]
      PROVE  \A b \in Callers : (pc[b] = "wait") = (pc'[b] = "wait")
  BY <1>0, <1>1
<1>2. ASSUME NEW c \in Callers, ReadRow(c), pc[c] # "wait"
      PROVE  /\ session'.lock = session.lock /\ session'.cred = session.cred
             /\ \A b \in Callers : (pc[b] = "wait") = (pc'[b] = "wait")
  BY <1>1, <1>2, ReadRowFacts DEF LockInv
<1>3. ASSUME NEW s \in Outcomes, WriteLands(s) PROVE UNCHANGED <<flight, joined, adminVars, session, pc>>
  BY <1>3 DEF WriteLands
<1>4. ASSUME NEW u \in Users, UserStep(u)
      PROVE  /\ UNCHANGED <<flight, joined, adminVars>>
             /\ session'.lock = session.lock /\ session'.cred = session.cred
             /\ \A c \in Callers : (pc[c] = "wait") = (pc'[c] = "wait")
  <2>1. CASE UserRequests(u)
    BY <2>1, <1>1 DEF UserRequests, Goto
  <2>2. CASE UserServed(u)
    BY <2>2, <1>1 DEF UserServed, Goto
  <2>3. CASE UserRejected(u)
    BY <2>3, <1>2 DEF UserRejected
  <2>4. CASE PrecheckRefreshes(u)
    BY <2>4, <1>2 DEF PrecheckRefreshes
  <2> QED
    BY <1>4, <2>1, <2>2, <2>3, <2>4 DEF UserStep
<1>5. ASSUME NEW h \in Ticks, TickProbes(h) \/ TickEnds(h)
      PROVE  /\ UNCHANGED <<flight, joined, adminVars>>
             /\ session'.lock = session.lock /\ session'.cred = session.cred
             /\ \A c \in Callers : (pc[c] = "wait") = (pc'[c] = "wait")
  <2>1. CASE TickProbes(h)
    BY <2>1, <1>1, <1>2 DEF TickProbes, Goto
  <2>2. CASE TickValid(h)
    <3>1. session'.lock = session.lock /\ session'.cred = session.cred
      BY <2>2, <1>0, Checked DEF TickValid
    <3> QED
      BY <2>2, <3>1, <1>1 DEF TickValid, Goto
  <2>3. CASE TickInvalid(h)
    BY <2>3, <1>2 DEF TickInvalid
  <2> QED
    BY <1>5, <2>1, <2>2, <2>3 DEF TickEnds
<1>6. CASE CheckFallsDue
  BY <1>0, <1>6 DEF CheckFallsDue, Sessions
<1>7. CASE BootReads
  BY <1>0, <1>7 DEF BootReads, Goto
<1>8. CASE UNCHANGED vars
  BY <1>8 DEF vars
<1> QED
  BY <1>3, <1>4, <1>5, <1>6, <1>7, <1>8

\* The end of a login frees the lock, whoever holds it.
LEMMA EndFreesLock ==
  ASSUME TypeOK, NEW l \in Logins, LoginEnds(l)
  PROVE  l \in flight /\ flight' = flight \ {l} /\ session'.lock = None /\ UNCHANGED adminVars
<1>1. CASE LoginSucceeds(l)
  BY <1>1, Renewed DEF LoginSucceeds
<1>2. CASE LoginFails(l)
  <2> DEFINE s == IF session.open THEN [session EXCEPT !.cred = None, !.lock = None]
                  ELSE session
  <2>1. s \in Sessions /\ s.lock = None
    BY Renewed
  <2>2. session' = AfterCheck(s, Waiting(l))
    BY <1>2 DEF LoginFails
  <2> HIDE DEF s
  <2> QED
    BY <1>2, <2>1, <2>2, Checked DEF LoginFails
<1> QED
  BY <1>1, <1>2 DEF LoginEnds

\* A handler of AccountService leaves the lock alone, and then owes no more than its
\* calls; or it frees the lock, and owes one write of the entry less.
LEMMA AdminOwes ==
  ASSUME TypeOK, AddStep \/ RefreshBegins \/ RefreshStep \/ RemoveBegins \/ RemoveStep
  PROVE  /\ UNCHANGED <<flight, pc, joined>>
         /\ \/ session'.lock = session.lock /\ Owed' + admin <= Owed + admin'
            \/ session'.lock = None /\ Owed' = Owed - 1 /\ admin' = admin
<1> USE DEF Owed, One, TypeOK
<1>1. CASE AddSaves \/ RefreshBegins \/ RemoveBegins
  BY <1>1 DEF AddSaves, RefreshBegins, RemoveBegins, AdminCall
<1>2. CASE AddSetsSession
  BY <1>2 DEF AddSetsSession, SetSession
<1>3. CASE RefreshLogsIn \/ RefreshFails \/ RefreshSaves \/ RefreshSavesFailed \/ RemoveDeletes
  BY <1>3 DEF RefreshLogsIn, RefreshFails, RefreshSaves, RefreshSavesFailed, RemoveDeletes
<1>4. CASE RefreshSetsSession
  BY <1>4 DEF RefreshSetsSession, SetSession
<1>5. CASE RemoveDropsSession
  BY <1>5 DEF RemoveDropsSession, Closed
<1> QED
  BY <1>1, <1>2, <1>3, <1>4, <1>5 DEF AddStep, RefreshStep, RemoveStep

LEMMA BoundInvNext == ASSUME BoundInv, [Next]_vars PROVE BoundInv'
<1> DEFINE stray == flight \ {session.lock}
<1>1. LockInv /\ LockInv' /\ TypeOK /\ None \notin flight /\ admin \in Nat
  BY LockInvNext, SessionAssumption DEF BoundInv, LockInv, TypeOK
<1>2. IsFiniteSet(flight) /\ Cardinality(stray) + Owed <= admin
  BY DEF BoundInv
<1>3. ASSUME NEW c \in Callers, EnsureLoggedIn(c) PROVE BoundInv'
  <2>1. UNCHANGED <<admin, Owed>>
    BY <1>3 DEF EnsureLoggedIn, adminVars, Owed
  <2>2. CASE UNCHANGED <<session, flight>>
    BY <1>1, <1>2, <2>1, <2>2 DEF BoundInv
  <2>3. ASSUME session.lock = None, NEW l \in NewLogin, flight' = flight \cup {l},
               session'.lock = l
        PROVE  BoundInv'
    <3>1. flight' \ {session'.lock} = stray
      BY <1>1, <2>3 DEF NewLogin, Free
    <3>2. IsFiniteSet(flight')
      BY <1>2, <2>3, FS_AddElement
    <3> QED
      BY <1>1, <1>2, <2>1, <3>1, <3>2 DEF BoundInv
  <2> QED
    BY <1>3, <2>2, <2>3 DEF EnsureLoggedIn
<1>4. ASSUME NEW l \in Logins, LoginEnds(l) PROVE BoundInv'
  <2>1. /\ l \in flight /\ flight' = flight \ {l} /\ session'.lock = None
        /\ UNCHANGED <<admin, Owed>>
    BY <1>1, <1>4, EndFreesLock DEF adminVars, Owed
  <2>2. flight' \ {session'.lock} = flight \ {l}
    BY <1>1, <2>1
  <2>3. IsFiniteSet(flight') /\ Cardinality(flight \ {l}) <= Cardinality(stray)
    BY <1>2, <2>1, OneLess
  <2>4. Cardinality(flight \ {l}) \in Nat /\ Cardinality(stray) \in Nat /\ Owed \in Nat
    BY <1>2, OneLess, OwedType
  <2>5. Cardinality(flight' \ {session'.lock}) + Owed' <= admin'
    BY <1>1, <1>2, <2>1, <2>2, <2>3, <2>4
  <2> QED
    BY <1>1, <2>3, <2>5 DEF BoundInv
<1>5. CASE \/ \E s \in Outcomes : WriteLands(s)
           \/ \E u \in Users : UserStep(u)
           \/ \E h \in Ticks : TickProbes(h) \/ TickEnds(h)
           \/ CheckFallsDue \/ BootReads
           \/ UNCHANGED vars
  <2>1. UNCHANGED <<flight, admin, Owed>> /\ session'.lock = session.lock
    BY <1>1, <1>5, Bystanders DEF adminVars, Owed
  <2> QED
    BY <1>1, <1>2, <2>1 DEF BoundInv
<1>6. CASE AddStep \/ RefreshBegins \/ RefreshStep \/ RemoveBegins \/ RemoveStep
  <2>1. /\ UNCHANGED flight
        /\ \/ session'.lock = session.lock /\ Owed' + admin <= Owed + admin'
           \/ session'.lock = None /\ Owed' = Owed - 1 /\ admin' = admin
    BY <1>1, <1>6, AdminOwes
  <2>2. Owed \in Nat /\ Owed' \in Nat /\ admin' \in Nat
    BY <1>1, OwedType DEF LockInv, TypeOK, Owed, One
  <2>3. CASE session'.lock = session.lock /\ Owed' + admin <= Owed + admin'
    <3>1. flight' \ {session'.lock} = stray /\ Cardinality(stray) \in Nat
      BY <1>2, <2>1, <2>3, OneLess
    <3>2. Cardinality(stray) + Owed' <= admin'
      <4>1. Cardinality(stray) \in Nat /\ Owed \in Nat /\ admin \in Nat
        BY <1>1, <2>2, <3>1
      <4> HIDE DEF stray
      <4> QED
        BY <1>2, <2>2, <2>3, <4>1, StaysWithin
    <3> QED
      BY <1>1, <1>2, <2>1, <3>1, <3>2 DEF BoundInv
  <2>4. CASE session'.lock = None /\ Owed' = Owed - 1 /\ admin' = admin
    <3>1. flight' \ {session'.lock} = flight
      BY <1>1, <2>1, <2>4
    <3>2. /\ Cardinality(flight) \in Nat /\ Cardinality(stray) \in Nat
          /\ Cardinality(flight) <= Cardinality(stray) + 1
      <4>1. PICK x : x = session.lock
        OBVIOUS
      <4>2. /\ Cardinality(flight) \in Nat /\ Cardinality(flight \ {x}) \in Nat
            /\ Cardinality(flight) <= Cardinality(flight \ {x}) + 1
        BY <1>2, AtMostOneLess
      <4> QED
        BY <4>1, <4>2
    <3>3. Cardinality(flight) + Owed' <= admin'
      <4> HIDE DEF stray
      <4> QED
        BY <1>1, <1>2, <2>2, <2>4, <3>2
    <3> QED
      BY <1>1, <1>2, <2>1, <3>1, <3>3 DEF BoundInv
  <2> QED
    BY <2>1, <2>3, <2>4
<1>7. CASE Crash
  <2>1. flight' \ {session'.lock} = {} /\ flight' = {} /\ admin' = admin /\ Owed' = 0
    BY <1>7 DEF Crash, Owed, One
  <2> QED
    BY <1>1, <2>1, FS_EmptySet DEF BoundInv
<1> QED
  BY <1>3, <1>4, <1>5, <1>6, <1>7 DEF Next

\* The login lock of ensureLoggedInWithTrigger: an account has at most one login of the
\* keeper in flight, and one more for every call of AccountService.
THEOREM OneLoginHolds == Spec => []OneLogin
<1>1. Init => BoundInv
  <2> SUFFICES ASSUME Init PROVE BoundInv
    OBVIOUS
  <2>1. flight = {} /\ flight \ {session.lock} = {} /\ admin = 0 /\ Owed = 0
    BY DEF Init, Owed, One
  <2> QED
    BY <2>1, LockInvInit, FS_EmptySet DEF BoundInv
<1>2. BoundInv /\ [Next]_vars => BoundInv'
  BY BoundInvNext
<1>3. BoundInv => OneLogin
  <2> SUFFICES ASSUME BoundInv PROVE OneLogin
    OBVIOUS
  <2>1. /\ Cardinality(flight) \in Nat /\ Cardinality(flight \ {session.lock}) \in Nat
        /\ Cardinality(flight) <= Cardinality(flight \ {session.lock}) + 1
    BY AtMostOneLess DEF BoundInv
  <2> QED
    BY <2>1, OwedType DEF BoundInv, OneLogin, LockInv, TypeOK
<1> QED
  BY <1>1, <1>2, <1>3, PTL DEF Spec

-----------------------------------------------------------------------------
(* The single flight: the callers that wait for one login are a group.      *)

\* Every login in flight has a group: who started it waits for it to the end.
GroupInv == LockInv /\ \A l \in flight : Waiting(l) # {}

\* Different logins have different groups, and only logins in flight have one.
LEMMA GroupsDiffer ==
  ASSUME GroupInv
  PROVE  /\ \A k, l \in flight : k # l => Waiting(k) # Waiting(l)
         /\ \A l : l \notin flight => Waiting(l) = {}
BY DEF GroupInv, LockInv, LockIsLive, Waiting

\* What the two ways to ask make of the groups.
LEMMA AskGroups ==
  ASSUME LockInv, NEW c \in Callers, EnsureLoggedIn(c)
  PROVE  \E l \in Logins :
           /\ session'.lock = l /\ flight' = flight \cup {l}
           /\ session.lock \in {l, None} /\ (session.lock = None => l \notin flight)
           /\ Waiting(l)' = Waiting(l) \cup {c}
           /\ \A k : k # l => Waiting(k)' = Waiting(k)
           /\ \A k : c \notin Waiting(k)
<1>0. /\ pc \in [Callers -> {"idle", "boot", "request", "probe", "found", "wait"}]
      /\ joined \in [Callers -> Logins \cup {None}]
      /\ session.lock # None => session.lock \in flight /\ session.lock \in Logins
  BY DEF LockInv, LockIsLive, TypeOK
<1>1. pc[c] = "found" /\ pc' = [pc EXCEPT ![c] = "wait"]
  BY DEF EnsureLoggedIn, Goto
<1>2. \E l \in Logins :
         /\ session'.lock = l /\ flight' = flight \cup {l}
         /\ session.lock \in {l, None} /\ (session.lock = None => l \notin flight)
         /\ joined' = [joined EXCEPT ![c] = l]
  <2>1. CASE session.lock # None /\ joined' = [joined EXCEPT ![c] = session.lock]
             /\ UNCHANGED <<session, flight>>
    BY <1>0, <2>1
  <2>2. ASSUME session.lock = None, NEW l \in NewLogin, flight' = flight \cup {l},
               session'.lock = l, joined' = [joined EXCEPT ![c] = l]
        PROVE  l \in Logins /\ l \notin flight
    BY <2>2 DEF NewLogin, Free
  <2> QED
    BY <2>1, <2>2 DEF EnsureLoggedIn
<1>3. PICK l \in Logins :
         /\ session'.lock = l /\ flight' = flight \cup {l}
         /\ session.lock \in {l, None} /\ (session.lock = None => l \notin flight)
         /\ joined' = [joined EXCEPT ![c] = l]
  BY <1>2
<1>4. Waiting(l)' = Waiting(l) \cup {c}
  BY <1>0, <1>1, <1>3 DEF Waiting
<1>5. ASSUME NEW k, k # l PROVE Waiting(k)' = Waiting(k)
  BY <1>0, <1>1, <1>3, <1>5 DEF Waiting
<1>6. ASSUME NEW k PROVE c \notin Waiting(k)
  BY <1>1 DEF Waiting
<1> QED
  BY <1>3, <1>4, <1>5, <1>6

\* The end of a login answers its group and no other.
LEMMA EndGroups ==
  ASSUME LockInv, NEW l \in Logins, LoginEnds(l)
  PROVE  Waiting(l)' = {} /\ \A k : k # l => Waiting(k)' = Waiting(k)
<1>1. \E s \in Outcomes : Resume(l, s)
  BY DEF LoginEnds, LoginSucceeds, LoginFails, Outcomes
<1>2. /\ pc' = [c \in Callers |-> IF c \in Waiting(l) THEN "idle" ELSE pc[c]]
      /\ joined' = [c \in Callers |-> IF c \in Waiting(l) THEN None ELSE joined[c]]
  BY <1>1 DEF Resume
<1> QED
  BY <1>2 DEF Waiting

LEMMA GroupInvNext == ASSUME GroupInv, [Next]_vars PROVE GroupInv'
<1>1. LockInv /\ LockInv'
  BY LockInvNext DEF GroupInv
<1>2. ASSUME NEW c \in Callers, EnsureLoggedIn(c) PROVE GroupInv'
  BY <1>1, <1>2, AskGroups DEF GroupInv
<1>3. ASSUME NEW l \in Logins, LoginEnds(l) PROVE GroupInv'
  BY <1>1, <1>3, EndFreesLock, EndGroups DEF GroupInv, LockInv
<1>4. CASE \/ \E s \in Outcomes : WriteLands(s)
           \/ \E u \in Users : UserStep(u)
           \/ \E h \in Ticks : TickProbes(h) \/ TickEnds(h)
           \/ CheckFallsDue \/ BootReads
           \/ UNCHANGED vars
  BY <1>1, <1>4, Bystanders DEF GroupInv, Waiting
<1>5. CASE AddStep \/ RefreshBegins \/ RefreshStep \/ RemoveBegins \/ RemoveStep
  BY <1>1, <1>5, AdminOwes DEF GroupInv, LockInv, Waiting
<1>6. CASE Crash
  BY <1>1, <1>6 DEF Crash, GroupInv
<1> QED
  BY <1>2, <1>3, <1>4, <1>5, <1>6 DEF Next

\* The keeper's lock, with AccountService interfering and the process dying, implements
\* the abstract single flight: nobody is answered by a login he does not wait for, and
\* while the lock is held nobody starts another one.
THEOREM SingleFlightImplemented == Spec => ImplementsSingleFlight
<1> DEFINE G == {Waiting(l) : l \in flight}
           H == IF session.lock = None THEN {} ELSE Waiting(session.lock)
<1>1. Init => GroupInv /\ SF!Init
  BY LockInvInit DEF Init, SF!Init, Closed, GroupInv
<1>2. GroupInv /\ [Next]_vars => GroupInv'
  BY GroupInvNext
<1>3. ASSUME GroupInv, [Next]_vars
      PROVE  [SF!Next]_<<G, H>>
  <2>1. /\ LockInv /\ TypeOK /\ None \notin flight
        /\ session.lock # None => session.lock \in flight
    BY <1>3, SessionAssumption DEF GroupInv, LockInv, LockIsLive, TypeOK
  <2>2. ASSUME NEW c \in Callers, EnsureLoggedIn(c) PROVE SF!Ask(c)
    <3>1. PICK l \in Logins :
             /\ session'.lock = l /\ flight' = flight \cup {l}
             /\ session.lock \in {l, None} /\ (session.lock = None => l \notin flight)
             /\ Waiting(l)' = Waiting(l) \cup {c}
             /\ \A k : k # l => Waiting(k)' = Waiting(k)
             /\ \A k : c \notin Waiting(k)
      BY <2>1, <2>2, AskGroups
    <3>2. l # None /\ H' = Waiting(l)'
      BY <3>1, SessionAssumption
    <3>3. H = Waiting(l)
      BY <1>3, <2>1, <3>1, <3>2, GroupsDiffer
    <3>4. \A k \in flight : k # l => Waiting(k) # H
      BY <1>3, <2>1, <3>1, <3>3, GroupsDiffer DEF GroupInv
    <3>5. G' = {Waiting(k)' : k \in flight'}
      OBVIOUS
    <3>6. G' = (G \ {H}) \cup {H'}
      <4>1. ASSUME NEW g \in G' PROVE g \in (G \ {H}) \cup {H'}
        BY <3>1, <3>2, <3>4, <4>1
      <4>2. ASSUME NEW g \in (G \ {H}) \cup {H'} PROVE g \in G'
        BY <3>1, <3>2, <3>3, <4>2
      <4> QED
        BY <4>1, <4>2
    <3>7. \A g \in G : c \notin g
      BY <3>1
    <3> QED
      BY <3>1, <3>2, <3>3, <3>6, <3>7 DEF SF!Ask
  <2>3. ASSUME NEW l \in Logins, LoginEnds(l) PROVE \E g \in G : SF!End(g)
    <3>1. l \in flight /\ flight' = flight \ {l} /\ H' = {}
      BY <2>1, <2>3, EndFreesLock
    <3>2. \A k : k # l => Waiting(k)' = Waiting(k)
      BY <2>1, <2>3, EndGroups
    <3>3. \A k \in flight : k # l => Waiting(k) # Waiting(l)
      BY <1>3, <3>1, GroupsDiffer
    <3>4. Waiting(l) \in G
      BY <3>1
    <3>5. G' = G \ {Waiting(l)}
      BY <3>1, <3>2, <3>3
    <3> QED
      BY <3>1, <3>4, <3>5 DEF SF!End
  <2>4. ASSUME \/ \E s \in Outcomes : WriteLands(s)
               \/ \E u \in Users : UserStep(u)
               \/ \E h \in Ticks : TickProbes(h) \/ TickEnds(h)
               \/ CheckFallsDue \/ BootReads
               \/ UNCHANGED vars
        PROVE  UNCHANGED <<G, H>>
    <3>1. UNCHANGED flight /\ session'.lock = session.lock
      BY <2>1, <2>4, Bystanders
    <3>2. \A k : Waiting(k)' = Waiting(k)
      BY <2>1, <2>4, Bystanders DEF Waiting
    <3> QED
      BY <3>1, <3>2
  <2>5. ASSUME AddStep \/ RefreshBegins \/ RefreshStep \/ RemoveBegins \/ RemoveStep
        PROVE  SF!LockLost \/ UNCHANGED <<G, H>>
    <3>1. UNCHANGED flight /\ session'.lock \in {session.lock, None}
      BY <2>1, <2>5, AdminOwes
    <3>2. \A k : Waiting(k)' = Waiting(k)
      BY <2>1, <2>5, AdminOwes DEF Waiting
    <3> QED
      BY <3>1, <3>2 DEF SF!LockLost
  <2>6. ASSUME Crash PROVE SF!Die
    BY <2>6 DEF Crash, Closed, SF!Die
  <2> QED
    BY <1>3, <2>2, <2>3, <2>4, <2>5, <2>6 DEF Next, SF!Next
<1> QED
  BY <1>1, <1>2, <1>3, PTL DEF Spec, ImplementsSingleFlight, SF!Spec

-----------------------------------------------------------------------------
(* A refresh replaces the cookie, with AccountService allowed to interfere.  *)

\* Nobody has, or has sent, the cookie of a login that is still in flight.
FreshInv ==
  /\ LockInv
  /\ session.cred \notin flight
  /\ \A u \in Users : saw[u] \notin flight

LEMMA FreshInvNext == ASSUME FreshInv, [Next]_vars PROVE FreshInv'
<1>1. LockInv /\ LockInv' /\ None \notin flight
  BY LockInvNext, SessionAssumption DEF FreshInv, LockInv, TypeOK
<1>2. ASSUME NEW c \in Callers, EnsureLoggedIn(c) PROVE FreshInv'
  BY <1>1, <1>2 DEF EnsureLoggedIn, FreshInv, NewLogin, Free
<1>3. ASSUME NEW l \in Logins, LoginEnds(l) PROVE FreshInv'
  <2>1. flight' = flight \ {l}
    BY <1>3 DEF LoginEnds, LoginSucceeds, LoginFails
  <2>2. \A u \in Users : saw'[u] \in {saw[u], None}
    BY <1>3 DEF LoginEnds, LoginSucceeds, LoginFails, Resume
  <2>3. session'.cred \in {session.cred, l, None}
    <3>1. session \in Sessions
      BY <1>1 DEF LockInv, TypeOK
    <3>2. CASE LoginSucceeds(l)
      BY <3>1, <3>2 DEF LoginSucceeds, Sessions
    <3>3. CASE LoginFails(l)
      <4> DEFINE s == IF session.open THEN [session EXCEPT !.cred = None, !.lock = None]
                      ELSE session
      <4>1. s \in Sessions /\ s.cred \in {session.cred, None}
        BY <1>1, Renewed DEF LockInv
      <4>2. session' = AfterCheck(s, Waiting(l))
        BY <3>3 DEF LoginFails
      <4> HIDE DEF s
      <4> QED
        BY <4>1, <4>2, Checked
    <3> QED
      BY <1>3, <3>2, <3>3 DEF LoginEnds
  <2> QED
    BY <1>1, <2>1, <2>2, <2>3 DEF FreshInv
<1>4. CASE AddStep \/ RefreshBegins \/ RefreshStep \/ RemoveBegins \/ RemoveStep
  <2>1. UNCHANGED <<flight, saw>>
    BY <1>4 DEF AddStep, RefreshBegins, RefreshStep, RemoveBegins, RemoveStep, AddSaves,
      AddSetsSession, RefreshLogsIn, RefreshFails, RefreshSaves, RefreshSetsSession,
      RefreshSavesFailed, RemoveDeletes, RemoveDropsSession
  <2>2. session'.cred \notin flight
    <3>1. \/ session' = session
          \/ session' = Closed
          \/ \E l \in NewLogin : session' = [open |-> TRUE, cred |-> l, lock |-> None, due |-> FALSE]
      BY <1>4 DEF AddStep, RefreshBegins, RefreshStep, RemoveBegins, RemoveStep, AddSaves,
        AddSetsSession, RefreshLogsIn, RefreshFails, RefreshSaves, RefreshSetsSession,
        RefreshSavesFailed, RemoveDeletes, RemoveDropsSession, SetSession
    <3> QED
      BY <1>1, <3>1 DEF FreshInv, NewLogin, Free, Closed
  <2> QED
    BY <1>1, <2>1, <2>2 DEF FreshInv
<1>5. CASE Crash
  BY <1>1, <1>5 DEF Crash, FreshInv
<1>6. CASE \/ \E s \in Outcomes : WriteLands(s)
           \/ \E u \in Users : UserStep(u)
           \/ \E h \in Ticks : TickProbes(h) \/ TickEnds(h)
           \/ CheckFallsDue \/ BootReads
           \/ UNCHANGED vars
  <2>1. \A u \in Users : saw'[u] \in {saw[u], session.cred, None}
    <3>1. ASSUME NEW c \in Callers, ReadRow(c) PROVE \A u \in Users : saw'[u] \in {saw[u], None}
      BY <1>1, <3>1, ReadRowFacts DEF LockInv
    <3>2. saw \in [Users -> Logins \cup {None}]
      BY <1>1 DEF LockInv, TypeOK
    <3> QED
      BY <1>6, <3>1, <3>2, CallerFacts
        DEF WriteLands, UserStep, UserRequests, UserServed, UserRejected, PrecheckRefreshes,
          TickProbes, TickEnds, TickValid, TickInvalid, CheckFallsDue, BootReads, Saw, vars
  <2> QED
    BY <1>1, <1>6, <2>1, Bystanders DEF FreshInv
<1> QED
  BY <1>2, <1>3, <1>4, <1>5, <1>6 DEF Next

\* Only the success of a login takes a caller out of "wait" and issues an update
\* that says "active".
LEMMA AnsweredBySuccess ==
  ASSUME LockInv, [Next]_vars, NEW u \in Users,
         pc[u] = "wait", pc'[u] = "idle", writes'["active"] > writes["active"]
  PROVE  \E l \in Logins : LoginSucceeds(l)
<1>1. LockInv /\ writes \in [Outcomes -> Nat] /\ u \in Callers
  BY CallerFacts DEF LockInv, TypeOK
<1>2. ASSUME NEW c \in Callers, EnsureLoggedIn(c) PROVE FALSE
  BY <1>1, <1>2 DEF EnsureLoggedIn, Outcomes
<1>3. ASSUME NEW l \in Logins, LoginFails(l) PROVE FALSE
  BY <1>1, <1>3 DEF LoginFails, Resume, WriteBack, Outcomes
<1>4. CASE AddStep \/ RefreshBegins \/ RefreshStep \/ RemoveBegins \/ RemoveStep
  BY <1>1, <1>4 DEF AddStep, RefreshBegins, RefreshStep, RemoveBegins, RemoveStep, AddSaves,
    AddSetsSession, RefreshLogsIn, RefreshFails, RefreshSaves, RefreshSetsSession,
    RefreshSavesFailed, RemoveDeletes, RemoveDropsSession
<1>5. CASE Crash
  BY <1>1, <1>5 DEF Crash, Outcomes
<1>6. CASE \/ \E s \in Outcomes : WriteLands(s)
           \/ \E v \in Users : UserStep(v)
           \/ \E h \in Ticks : TickProbes(h) \/ TickEnds(h)
           \/ CheckFallsDue \/ BootReads
           \/ UNCHANGED vars
  BY <1>1, <1>6, Bystanders
<1> QED
  BY <1>2, <1>3, <1>4, <1>5, <1>6 DEF Next, LoginEnds

\* refreshSession: the user that resumes finds neither the cookie the library refused
\* nor an empty one, also when AccountService has replaced the entry meanwhile.
THEOREM RefreshReplacesHolds == Spec => RefreshReplaces
<1>1. Init => FreshInv
  BY LockInvInit DEF Init, FreshInv
<1>2. FreshInv /\ [Next]_vars => FreshInv'
  BY FreshInvNext
<1>3. ASSUME FreshInv, [Next]_vars
      PROVE  \A u \in Users :
               pc[u] = "wait" /\ pc'[u] = "idle" /\ writes'["active"] > writes["active"]
                 /\ session'.open =>
                 session'.cred \notin {saw[u], None}
  <2> SUFFICES ASSUME NEW u \in Users, pc[u] = "wait", pc'[u] = "idle",
                      writes'["active"] > writes["active"], session'.open
               PROVE  session'.cred \notin {saw[u], None}
    OBVIOUS
  <2>1. PICK l \in Logins : LoginSucceeds(l)
    BY <1>3, AnsweredBySuccess DEF FreshInv
  <2>2. l \in flight /\ l # None /\ saw[u] # l
    BY <1>3, <2>1, SessionAssumption DEF LoginSucceeds, FreshInv
  <2>3. session'.cred = l
    BY <1>3, <2>1, Renewed DEF LoginSucceeds, FreshInv, LockInv
  <2> QED
    BY <2>2, <2>3
<1> QED
  BY <1>1, <1>2, <1>3, PTL DEF Spec, RefreshReplaces
=============================================================================
