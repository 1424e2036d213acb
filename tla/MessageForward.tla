---------------------------- MODULE MessageForward ----------------------------
(***************************************************************************)
(* The forwarding of the library's messages (MessageForwardService): every *)
(* round lists the active accounts, asks the library for the messages of   *)
(* each, records the first answer of an account without pushing it (the    *)
(* baseline), and pushes and then records what is new in later answers.    *)
(*                                                                         *)
(* A message is known by its key (account, booking, title).  The order of  *)
(* accounts and of messages in an answer is left open.                     *)
(***************************************************************************)
EXTENDS Naturals, FiniteSets

CONSTANTS
  Rounds,     \* firings of the interval timer that may overlap
  Accounts,
  Messages,
  AccountOf,  \* the account each message belongs to
  TitleOf,    \* the booking and title of each message
  None,       \* no account; no message
  MaxFaults,  \* bound on failing database, library and WxPusher calls
  MaxCrashes, \* bound on restarts of the backend
  MaxWindows, \* bound on grab windows (one each day, 19:55 to 20:05)
  MaxChanges  \* bound on changes of an account's status or session

ASSUME ForwardAssumption ==
  /\ AccountOf \in [Messages -> Accounts]
  /\ None \notin Accounts \cup Messages
  /\ {MaxFaults, MaxCrashes, MaxWindows, MaxChanges} \subseteq Nat

VARIABLES
  mode,      \* NOTIFY_MODE
  active,    \* accounts whose status is active
  loggedOut, \* accounts whose session the library refuses
  listed,    \* messages the library lists
  window,    \* it is between 19:55 and 20:05
  polling,   \* MessageForwardService.polling
  baselined, \* MessageForwardService.baselinedAccounts
  records,   \* keys in forwarded_messages
  pc, todo, acct, first, batch, msg, \* each round: position, accounts left, account,
                                     \* isBaselineRound, messages left, message
  delivered, \* keys of messages that reached the user
  old,       \* messages the library listed when their account was first polled
  swallowed, \* keys whose failed push notify() has hidden
  lost,      \* keys whose record was not written because of a fault or a crash
  faults, crashes, windows, changes \* what has been used of the bounds

library == <<mode, active, loggedOut, listed, window, windows, changes>>
locals  == <<todo, acct, first, batch, msg>>
ghosts  == <<delivered, old, swallowed, lost>>
vars == <<library, polling, baselined, records, pc, locals, ghosts, faults, crashes>>

Key(m)   == <<AccountOf[m], TitleOf[m]>>
Keys     == {Key(m) : m \in Messages}
Of(a)    == {m \in listed : AccountOf[m] = a}
KeysOf(ms) == {Key(m) : m \in ms}

TypeOK ==
  /\ mode \in {"mock", "wxpusher"}
  /\ active \subseteq Accounts /\ loggedOut \subseteq Accounts
  /\ listed \subseteq Messages
  /\ window \in BOOLEAN /\ polling \in BOOLEAN
  /\ baselined \subseteq Accounts
  /\ records \subseteq Keys
  /\ pc \in [Rounds -> {"idle", "list", "next", "fetch", "refresh", "baseline", "forward",
                        "push", "save"}]
  /\ todo \in [Rounds -> SUBSET Accounts]
  /\ acct \in [Rounds -> Accounts \cup {None}]
  /\ first \in [Rounds -> BOOLEAN]
  /\ batch \in [Rounds -> SUBSET Messages]
  /\ msg \in [Rounds -> Messages \cup {None}]
  /\ \A r \in Rounds : pc[r] \in {"push", "save"} => msg[r] \in Messages
  /\ \A r \in Rounds : pc[r] \notin {"idle", "list", "next"} => acct[r] \in Accounts
  /\ delivered \subseteq Keys /\ old \subseteq Messages
  /\ swallowed \subseteq Keys /\ lost \subseteq Keys
  /\ faults \in Nat /\ crashes \in Nat /\ windows \in Nat /\ changes \in Nat

Init ==
  /\ mode \in {"mock", "wxpusher"}
  /\ active = Accounts /\ loggedOut = {} /\ listed \in SUBSET Messages
  /\ window = FALSE /\ polling = FALSE
  /\ baselined = {} /\ records = {}
  /\ pc = [r \in Rounds |-> "idle"]
  /\ todo = [r \in Rounds |-> {}]
  /\ acct = [r \in Rounds |-> None]
  /\ first = [r \in Rounds |-> FALSE]
  /\ batch = [r \in Rounds |-> {}]
  /\ msg = [r \in Rounds |-> None]
  /\ delivered = {} /\ old = {} /\ swallowed = {} /\ lost = {}
  /\ faults = 0 /\ crashes = 0 /\ windows = 0 /\ changes = 0

Goto(r, p) == pc' = [pc EXCEPT ![r] = p]
Batch(r, ms) == batch' = [batch EXCEPT ![r] = ms]
Forget(r) == msg' = [msg EXCEPT ![r] = None]
Lose(ks) == lost' = lost \cup ks

\* A call to the database, the library or WxPusher fails.
Fault == faults < MaxFaults /\ faults' = faults + 1

-----------------------------------------------------------------------------
(* pollAllAccounts.                                                          *)

\* The timer's next firing; which name it gets does not matter.
NextFiring(r) == pc[r] = "idle" /\ r = CHOOSE q \in Rounds : pc[q] = "idle"

\* Mutant: a round starts while another one runs.
PollBegins_NoLock(r) ==
  /\ NextFiring(r)
  /\ polling' = TRUE /\ Goto(r, "list")
  /\ UNCHANGED <<library, baselined, records, locals, ghosts, faults, crashes>>

\* The timer fires and no round is in progress.
PollBegins(r) ==
  /\ NextFiring(r) /\ ~polling
  /\ polling' = TRUE /\ Goto(r, "list")
  /\ UNCHANGED <<library, baselined, records, locals, ghosts, faults, crashes>>

ListAccounts(r) ==
  /\ pc[r] = "list"
  /\ todo' = [todo EXCEPT ![r] = active]
  /\ Goto(r, "next")
  /\ UNCHANGED <<library, polling, baselined, records, acct, first, batch, msg, ghosts,
                 faults, crashes>>

\* Mutant: the flag is not released when the query throws.
ListFails_KeepsPolling(r) ==
  /\ pc[r] = "list" /\ Fault
  /\ Goto(r, "idle")
  /\ UNCHANGED <<library, polling, baselined, records, locals, ghosts, crashes>>

\* The finally block releases the flag.
ListFails(r) ==
  /\ pc[r] = "list" /\ Fault
  /\ polling' = FALSE /\ Goto(r, "idle")
  /\ UNCHANGED <<library, baselined, records, locals, ghosts, crashes>>

\* Whether this is the account's baseline is decided before the request.
NextAccount(r) ==
  /\ pc[r] = "next"
  /\ \E a \in todo[r] :
       /\ todo' = [todo EXCEPT ![r] = @ \ {a}]
       /\ acct' = [acct EXCEPT ![r] = a]
       /\ first' = [first EXCEPT ![r] = a \notin baselined]
  /\ Goto(r, "fetch")
  /\ UNCHANGED <<library, polling, baselined, records, batch, msg, ghosts, faults, crashes>>

RoundEnds(r) ==
  /\ pc[r] = "next" /\ todo[r] = {}
  /\ polling' = FALSE /\ Goto(r, "idle")
  /\ acct' = [acct EXCEPT ![r] = None] /\ first' = [first EXCEPT ![r] = FALSE]
  /\ UNCHANGED <<library, baselined, records, todo, batch, msg, ghosts, faults, crashes>>

-----------------------------------------------------------------------------
(* processAccount: the library's answer.                                     *)

Continue(r) == Goto(r, IF first[r] THEN "baseline" ELSE "forward")
FirstSight(r) == old' = IF first[r] THEN old \cup Of(acct[r]) ELSE old

Answer(r) ==
  /\ pc[r] = "fetch" /\ acct[r] \notin loggedOut
  /\ Batch(r, Of(acct[r])) /\ FirstSight(r)
  /\ Continue(r)
  /\ UNCHANGED <<library, polling, baselined, records, todo, acct, first, msg,
                 delivered, swallowed, lost, faults, crashes>>

\* getAppointMessages turns every failure but an expired session into an empty
\* answer.
AnswerFails(r) ==
  /\ pc[r] = "fetch" /\ Fault
  /\ Batch(r, {}) /\ FirstSight(r)
  /\ Lose(IF first[r] THEN KeysOf(Of(acct[r])) \ records ELSE {})
  /\ Continue(r)
  /\ UNCHANGED <<library, polling, baselined, records, todo, acct, first, msg,
                 delivered, swallowed, crashes>>

\* Mutant: the test of the window is inverted.
AnswerExpired_InWindow(r) ==
  /\ pc[r] = "fetch" /\ acct[r] \in loggedOut
  /\ Goto(r, IF window THEN "refresh" ELSE "next")
  /\ UNCHANGED <<library, polling, baselined, records, locals, ghosts, faults, crashes>>

\* handleSessionExpired: no refresh within the window.
AnswerExpired(r) ==
  /\ pc[r] = "fetch" /\ acct[r] \in loggedOut
  /\ Goto(r, IF window THEN "next" ELSE "refresh")
  /\ UNCHANGED <<library, polling, baselined, records, locals, ghosts, faults, crashes>>

\* refreshSession succeeds or throws.
RefreshReturns(r) ==
  /\ pc[r] = "refresh"
  /\ loggedOut' \in {loggedOut, loggedOut \ {acct[r]}}
  /\ Goto(r, "next")
  /\ UNCHANGED <<mode, active, listed, window, windows, changes, polling, baselined, records,
                 locals, ghosts, faults, crashes>>

-----------------------------------------------------------------------------
(* baselineSync.                                                             *)

BaselineSaves(r) ==
  /\ pc[r] = "baseline"
  /\ \E m \in batch[r] : Batch(r, batch[r] \ {m}) /\ records' = records \cup {Key(m)}
  /\ UNCHANGED <<library, polling, baselined, pc, todo, acct, first, msg, ghosts, faults,
                 crashes>>

\* A save that throws does not stop the baseline.
BaselineSaveFails(r) ==
  /\ pc[r] = "baseline" /\ Fault
  /\ \E m \in batch[r] : Batch(r, batch[r] \ {m}) /\ Lose({Key(m)} \ records)
  /\ UNCHANGED <<library, polling, baselined, records, pc, todo, acct, first, msg,
                 delivered, old, swallowed, crashes>>

\* Mutant: the account is marked while its messages are still being recorded.
BaselineDone_TooEarly(r) ==
  /\ pc[r] = "baseline"
  /\ baselined' = baselined \cup {acct[r]}
  /\ Goto(r, IF batch[r] = {} THEN "next" ELSE "baseline")
  /\ UNCHANGED <<library, polling, records, locals, ghosts, faults, crashes>>

BaselineDone(r) ==
  /\ pc[r] = "baseline" /\ batch[r] = {}
  /\ baselined' = baselined \cup {acct[r]}
  /\ Goto(r, "next")
  /\ UNCHANGED <<library, polling, records, locals, ghosts, faults, crashes>>

-----------------------------------------------------------------------------
(* forwardNewMessages.                                                       *)

\* Mutant: a known message ends the loop instead of being skipped.
Lookup_StopsAtKnown(r) ==
  /\ pc[r] = "forward"
  /\ \E m \in batch[r] :
       \/ /\ Key(m) \in records
          /\ Batch(r, {})
          /\ UNCHANGED <<pc, msg>>
       \/ /\ Key(m) \notin records
          /\ Batch(r, batch[r] \ {m})
          /\ msg' = [msg EXCEPT ![r] = m]
          /\ Goto(r, "push")
  /\ UNCHANGED <<library, polling, baselined, records, todo, acct, first, ghosts, faults,
                 crashes>>

\* Mutant: the message is recorded before it is pushed.
Lookup_RecordsFirst(r) ==
  /\ pc[r] = "forward"
  /\ \E m \in batch[r] :
       /\ Batch(r, batch[r] \ {m})
       /\ records' = records \cup {Key(m)}
       /\ \/ Key(m) \in records /\ UNCHANGED <<pc, msg>>
          \/ /\ Key(m) \notin records
             /\ msg' = [msg EXCEPT ![r] = m]
             /\ Goto(r, "push")
  /\ UNCHANGED <<library, polling, baselined, todo, acct, first, ghosts, faults, crashes>>

\* Mutant: the message to push is not the one that was looked up.
Lookup_KeepsMessage(r) ==
  /\ pc[r] = "forward"
  /\ \E m \in batch[r] :
       /\ Batch(r, batch[r] \ {m})
       /\ \/ Key(m) \in records /\ UNCHANGED pc
          \/ Key(m) \notin records /\ Goto(r, "push")
  /\ UNCHANGED <<library, polling, baselined, records, msg, todo, acct, first, ghosts, faults,
                 crashes>>

\* A message that has a record is skipped, another is pushed.
Lookup(r) ==
  /\ pc[r] = "forward"
  /\ \E m \in batch[r] :
       /\ Batch(r, batch[r] \ {m})
       /\ \/ Key(m) \in records /\ UNCHANGED <<pc, msg>>
          \/ /\ Key(m) \notin records
             /\ msg' = [msg EXCEPT ![r] = m]
             /\ Goto(r, "push")
  /\ UNCHANGED <<library, polling, baselined, records, todo, acct, first, ghosts, faults,
                 crashes>>

\* The message waits for the next round.
LookupFails(r) ==
  /\ pc[r] = "forward" /\ Fault
  /\ \E m \in batch[r] : Batch(r, batch[r] \ {m})
  /\ UNCHANGED <<library, polling, baselined, records, pc, todo, acct, first, msg, ghosts,
                 crashes>>

ForwardDone(r) ==
  /\ pc[r] = "forward" /\ batch[r] = {}
  /\ Goto(r, "next")
  /\ UNCHANGED <<library, polling, baselined, records, locals, ghosts, faults, crashes>>

Push(r) ==
  /\ pc[r] = "push"
  /\ delivered' = delivered \cup {Key(msg[r])}
  /\ Goto(r, "save")
  /\ UNCHANGED <<library, polling, baselined, records, locals, old, swallowed, lost, faults,
                 crashes>>

\* The push fails.  The WxPusher service logs it and returns, so the message is
\* recorded as if it had been pushed; the mock service throws, and it is not.
PushFails(r) ==
  /\ pc[r] = "push" /\ Fault
  /\ \/ /\ mode = "wxpusher"
        /\ swallowed' = swallowed \cup {Key(msg[r])}
        /\ Goto(r, "save")
        /\ UNCHANGED msg
     \/ /\ mode = "mock"
        /\ Goto(r, "forward")
        /\ Forget(r)
        /\ UNCHANGED swallowed
  /\ UNCHANGED <<library, polling, baselined, records, todo, acct, first, batch, delivered,
                 old, lost, crashes>>

Save(r) ==
  /\ pc[r] = "save"
  /\ records' = records \cup {Key(msg[r])}
  /\ Goto(r, "forward") /\ Forget(r)
  /\ UNCHANGED <<library, polling, baselined, todo, acct, first, batch, ghosts, faults,
                 crashes>>

SaveFails(r) ==
  /\ pc[r] = "save" /\ Fault
  /\ Lose({Key(msg[r])})
  /\ Goto(r, "forward") /\ Forget(r)
  /\ UNCHANGED <<library, polling, baselined, records, todo, acct, first, batch, delivered,
                 old, swallowed, crashes>>

-----------------------------------------------------------------------------
(* The rest of the world.                                                    *)

Publish(m) ==
  /\ m \notin listed
  /\ listed' = listed \cup {m}
  /\ UNCHANGED <<mode, active, loggedOut, window, windows, changes, polling, baselined, records, pc,
                 locals, ghosts, faults, crashes>>

Change == changes < MaxChanges /\ changes' = changes + 1

\* The session keeper writes the account's status back.
StatusChanges(a) ==
  /\ Change
  /\ active' = IF a \in active THEN active \ {a} ELSE active \cup {a}
  /\ UNCHANGED <<mode, loggedOut, listed, window, windows, polling, baselined, records, pc,
                 locals, ghosts, faults, crashes>>

\* The library ends a session, or somebody else renews it.
SessionChanges(a) ==
  /\ Change
  /\ loggedOut' = IF a \in loggedOut THEN loggedOut \ {a} ELSE loggedOut \cup {a}
  /\ UNCHANGED <<mode, active, listed, window, windows, polling, baselined, records, pc,
                 locals, ghosts, faults, crashes>>

WindowOpens ==
  /\ ~window /\ windows < MaxWindows
  /\ window' = TRUE /\ windows' = windows + 1
  /\ UNCHANGED <<mode, active, loggedOut, listed, changes, polling, baselined, records, pc, locals,
                 ghosts, faults, crashes>>

WindowCloses ==
  /\ window
  /\ window' = FALSE
  /\ UNCHANGED <<mode, active, loggedOut, listed, windows, changes, polling, baselined, records, pc,
                 locals, ghosts, faults, crashes>>

\* The backend restarts: the flag, the set of baselined accounts and the round in
\* progress are gone; a message that was pushed and not yet recorded stays so.
Crash ==
  /\ crashes < MaxCrashes
  /\ crashes' = crashes + 1
  /\ polling' = FALSE /\ baselined' = {}
  /\ pc' = [r \in Rounds |-> "idle"]
  /\ todo' = [r \in Rounds |-> {}] /\ batch' = [r \in Rounds |-> {}]
  /\ acct' = [r \in Rounds |-> None] /\ msg' = [r \in Rounds |-> None]
  /\ first' = [r \in Rounds |-> FALSE]
  /\ Lose({Key(msg[r]) : r \in {q \in Rounds : pc[q] = "save"}})
  /\ UNCHANGED <<library, records, delivered, old, swallowed, faults>>

\* What a round does when no call fails, and what a failing call makes of it.
RoundStep(r) ==
  \/ ListAccounts(r) \/ NextAccount(r) \/ RoundEnds(r)
  \/ Answer(r) \/ AnswerExpired(r) \/ RefreshReturns(r)
  \/ BaselineSaves(r) \/ BaselineDone(r)
  \/ Lookup(r) \/ ForwardDone(r) \/ Push(r) \/ Save(r)
RoundFault(r) ==
  \/ ListFails(r) \/ AnswerFails(r) \/ BaselineSaveFails(r)
  \/ LookupFails(r) \/ PushFails(r) \/ SaveFails(r)
World ==
  \/ \E m \in Messages : Publish(m)
  \/ \E a \in Accounts : StatusChanges(a) \/ SessionChanges(a)
  \/ WindowOpens \/ WindowCloses
  \/ Crash

Next == (\E r \in Rounds : PollBegins(r) \/ RoundStep(r) \/ RoundFault(r)) \/ World

Spec == Init /\ [][Next]_vars

\* The timer keeps firing, every call returns (HTTP calls have a timeout), and the
\* grab window closes.
Fairness ==
  /\ WF_vars(\E r \in Rounds : PollBegins(r))
  /\ \A r \in Rounds : WF_vars(RoundStep(r))
  /\ WF_vars(WindowCloses)

FairSpec == Spec /\ Fairness

-----------------------------------------------------------------------------
Pushes(r) == pc[r] = "push" /\ pc'[r] = "save"

\* Rounds never overlap, every push is recorded, and so is the baseline: a message that
\* has reached the user, or that the library listed when its account was first polled, is
\* pushed only if a fault or a crash has kept its record from being written.
OnlyNewIsPushed ==
  [][\A r \in Rounds :
       Pushes(r) /\ (Key(msg[r]) \in delivered \/ msg[r] \in old) => Key(msg[r]) \in lost]_vars

\* A message is recorded, so that it is skipped from then on, only because it was
\* pushed or belongs to the baseline.
NeverSkipped == records \subseteq delivered \cup swallowed \cup KeysOf(old)

\* What becomes of every message, and when: the baseline of an account is settled before
\* anything of it is pushed, a pushed message is recorded or lost before the next push,
\* and what was pushed, or is history, is pushed later only if its record was lost.
Life == INSTANCE MessageLife WITH
  Owner <- [k \in Keys |-> k[1]],
  open <- baselined, history <- KeysOf(old), seen <- delivered,
  hand <- {Key(msg[r]) : r \in {q \in Rounds : pc[q] = "save"}}
ImplementsMessageLife == Life!Spec

\* The flag against overlapping rounds is always released.
PollingEnds == polling ~> ~polling

\* A listed message of a usable account is dealt with, whatever happens to other
\* messages and accounts.
MessageArrives ==
  \A m \in Messages :
    m \in listed ~> \/ Key(m) \in delivered \cup swallowed \cup KeysOf(old)
                   \/ AccountOf[m] \notin active \/ AccountOf[m] \in loggedOut

\* An expired session is refreshed, at the latest after the grab window.
ExpiredIsRefreshed ==
  \A a \in Accounts :
    a \in loggedOut ~> \/ a \notin loggedOut \/ a \notin active
                      \/ \E r \in Rounds : pc[r] = "refresh" /\ acct[r] = a

-----------------------------------------------------------------------------
(* What comments say, and the code does not do                              *)

\* The messages of an account's first poll are only recorded, never pushed.  An
\* answer that failed counts as an empty first poll.
NoHistoryPushed == [][\A r \in Rounds : Pushes(r) => msg[r] \notin old]_vars

\* A record is written only after the push has succeeded.  notify() of the WxPusher
\* service does not tell.
RecordedIsPushed == records \subseteq delivered \cup KeysOf(old)
=============================================================================
