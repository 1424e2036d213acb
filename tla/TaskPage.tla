------------------------------ MODULE TaskPage ------------------------------
(***************************************************************************)
(* The web page and the backend handlers it calls: the accounts and tasks  *)
(* as rows, AccountService.remove beside GrabTaskService.create, and one   *)
(* page that loads the accounts, restores the active tasks of each, lets   *)
(* the user submit and end tasks, and polls the task of every card it      *)
(* shows.  The card of one task is followed.                               *)
(*                                                                         *)
(* Other pages and clients call the same handlers.  A request reads or     *)
(* changes rows in one step.  What a poll has read is shown in a later     *)
(* one, what the listings of a restore have read when the last of them is  *)
(* answered, and the tasks a click has created when it is through.         *)
(* Reloading the page forgets all it has.                                  *)
(***************************************************************************)
EXTENDS FiniteSets, Naturals

CONSTANTS
  Accounts,   \* ids of accounts; an id is used once
  Tasks,      \* ids of tasks; an id is used once
  Owners,     \* possible choices of each task's account
  Watched,    \* the task whose card is followed
  Stalling,   \* tasks whose job may be delivered again
  Clicks,     \* handlers of a click that may run at once
  MaxPolls    \* bound on polls of the card not yet answered

ASSUME PageAssumption ==
  /\ Watched \in Tasks /\ Owners \subseteq [Tasks -> Accounts]
  /\ Stalling \subseteq Tasks /\ MaxPolls \in Nat

VARIABLES
  account,   \* each account: not yet added, there, removed
  row,       \* each task: status ("absent": not yet created)
  owner,     \* each task: its account
  counted,   \* accounts of which remove() has found no active task
  known,     \* the page: accounts
  list,      \* the page: taskStatuses
  asked, found,  \* the restore: listings awaited, active tasks found so far
  click,     \* each handler: what it does, the accounts or tasks still to be asked
             \* for, and the tasks it has created
  card,      \* the card of the watched task
  late,      \* history: tasks created, or started again, since remove() counted the account's
  acted,     \* history: the user has submitted or ended tasks since the page was loaded
  newer,     \* history, until the user acts: tasks created, or started again, since the
             \* restore began
  missed     \* history, until the user acts: a listing of the restore has failed

backend == <<account, row, owner, counted, late>>
restore == <<asked, found, missed>>
shows == <<list, card>>
page == <<known, restore, shows, click, acted>>
vars == <<backend, page, newer>>

Active == {"pending", "running"}
RowStatus == {"absent", "ended"} \cup Active
IsActive(t) == row[t] \in Active
Present == {a \in Accounts : account[a] = "there"}

NoClick == [does |-> "nothing", accounts |-> {}, tasks |-> {}]
Handlers == [does : {"nothing", "submit", "cancel"}, accounts : SUBSET Accounts,
             tasks : SUBSET Tasks]

\* first: the poll at mount has not been sent; shown: of a status, whether it is an
\* end; polls: what polls have read and not yet brought back, with whether their
\* result may stop the interval.
Polls == [saw : {"active", "ended"}, interval : BOOLEAN]
NoCard == [mounted |-> FALSE, ticking |-> FALSE, first |-> FALSE, shown |-> "loading", polls |-> {}]
NewCard == [NoCard EXCEPT !.mounted = TRUE, !.ticking = TRUE, !.first = TRUE]
Cards == [mounted : BOOLEAN, ticking : BOOLEAN, first : BOOLEAN,
          shown : {"loading", "error", "active", "ended"}, polls : SUBSET Polls]

BackendTyped ==
  /\ account \in [Accounts -> {"new", "there", "gone"}] /\ counted \subseteq Accounts
  /\ row \in [Tasks -> RowStatus] /\ owner \in [Tasks -> Accounts]
  /\ late \subseteq Tasks
ShowsTyped == list \subseteq Tasks /\ card \in Cards /\ (card.mounted <=> Watched \in list)
PageTyped ==
  /\ known \subseteq Accounts /\ asked \subseteq Accounts /\ found \subseteq Tasks
  /\ click \in [Clicks -> Handlers]
  /\ newer \subseteq Tasks /\ missed \in BOOLEAN /\ acted \in BOOLEAN

TypeOK == BackendTyped /\ ShowsTyped /\ PageTyped

BlankPage ==
  /\ known' = {} /\ list' = {} /\ card' = NoCard
  /\ asked' = {} /\ found' = {} /\ missed' = FALSE
  /\ click' = [c \in Clicks |-> NoClick] /\ acted' = FALSE

Init ==
  /\ account \in [Accounts -> {"new", "there"}] /\ counted = {}
  /\ row = [t \in Tasks |-> "absent"] /\ owner \in Owners
  /\ known = {} /\ list = {} /\ card = NoCard
  /\ asked = {} /\ found = {} /\ missed = FALSE
  /\ click = [c \in Clicks |-> NoClick] /\ acted = FALSE
  /\ late = {} /\ newer = {}

-----------------------------------------------------------------------------
(* The backend.                                                              *)

\* t becomes active.
Joins(t) ==
  /\ late' = IF owner[t] \in counted \/ account[owner[t]] = "gone" THEN late \cup {t} ELSE late
  /\ newer' = IF acted THEN newer ELSE newer \cup {t}

\* create: refused while a task of the account runs; a pending one is overridden.
\* Nothing asks whether the account is there.
Creates(t, a) ==
  /\ row[t] = "absent" /\ owner[t] = a
  /\ \A u \in Tasks : owner[u] = a => row[u] # "running"
  /\ row' = [u \in Tasks |-> IF u = t THEN "pending"
                             ELSE IF owner[u] = a /\ row[u] = "pending" THEN "ended"
                             ELSE row[u]]
  /\ Joins(t)
  /\ UNCHANGED <<account, owner, counted>>

CreatedElsewhere(t) ==
  /\ Creates(t, owner[t])
  /\ UNCHANGED page

\* A job that is delivered again starts a task whatever its status.
TaskStarts(t) ==
  /\ row[t] = "pending" \/ (row[t] = "ended" /\ t \in Stalling)
  /\ row' = [row EXCEPT ![t] = "running"]
  /\ IF row[t] = "ended" THEN Joins(t) ELSE UNCHANGED <<late, newer>>
  /\ UNCHANGED <<account, owner, counted, page>>

\* A verdict, or a cancellation by another page.
TaskEnds(t) ==
  /\ IsActive(t)
  /\ row' = [row EXCEPT ![t] = "ended"]
  /\ UNCHANGED <<account, owner, counted, late, page, newer>>

AccountAdded(a) ==
  /\ account[a] = "new"
  /\ account' = [account EXCEPT ![a] = "there"]
  /\ UNCHANGED <<row, owner, counted, late, page, newer>>

\* Mutant: only the pending tasks are counted.
RemoveCounts_Pending(a) ==
  /\ account[a] = "there" /\ a \notin counted
  /\ \A t \in Tasks : owner[t] = a => row[t] # "pending"
  /\ counted' = counted \cup {a}
  /\ UNCHANGED <<account, row, owner, late, page, newer>>

\* remove: the account is there and has no active task ...
RemoveCounts(a) ==
  /\ account[a] = "there" /\ a \notin counted
  /\ \A t \in Tasks : owner[t] = a => ~IsActive(t)
  /\ counted' = counted \cup {a}
  /\ UNCHANGED <<account, row, owner, late, page, newer>>

\* ... so it is deleted, in a later call, which may fail.
RemoveDeletes(a) ==
  /\ a \in counted /\ counted' = counted \ {a}
  /\ \/ account' = [account EXCEPT ![a] = "gone"] /\ UNCHANGED late
     \/ late' = {t \in late : owner[t] # a} /\ UNCHANGED account
  /\ UNCHANGED <<row, owner, page, newer>>

-----------------------------------------------------------------------------
(* The page: accounts, restore, selection.                                   *)

\* Mutant: a card that is taken away goes on polling.
Render_NoCleanup(l) ==
  /\ list' = l
  /\ card' = IF Watched \in l /\ ~card.mounted THEN NewCard ELSE card

\* What React makes of a new list: a card is mounted, kept or unmounted.
Render(l) ==
  /\ list' = l
  /\ card' = IF Watched \notin l THEN NoCard ELSE IF card.mounted THEN card ELSE NewCard

\* loadAccounts, at mount, every 30 s and after what is done to an account.  When
\* the set has changed the restore of before is given up and a new one begins.
LoadAccounts ==
  /\ known' = Present
  /\ IF Present = known THEN UNCHANGED <<restore, newer>>
     ELSE asked' = Present /\ found' = {} /\ missed' = FALSE /\ newer' = {}
  /\ UNCHANGED <<backend, shows, click, acted>>

\* Mutant: a pending task does not count as active.
Listed_Running(a) == {t \in Tasks : owner[t] = a /\ row[t] = "running"}

\* The tasks of an account that the restore keeps.
Listed(a) == {t \in Tasks : owner[t] = a /\ IsActive(t)}

\* The last answer applies what has been found, if anything.
Settle(a, f) ==
  /\ a \in asked /\ asked' = asked \ {a}
  /\ IF asked' = {}
     THEN /\ found' = {}
          /\ IF f # {} THEN Render(f) ELSE UNCHANGED shows
     ELSE found' = f /\ UNCHANGED shows
  /\ UNCHANGED <<backend, known, click, acted, newer>>

ListingAnswers(a) == Settle(a, found \cup Listed(a)) /\ UNCHANGED missed

\* A listing that fails is left out.
ListingFails(a) == Settle(a, found) /\ missed' = ~acted

-----------------------------------------------------------------------------
(* The page: submit and end.                                                 *)

UserActs == acted' = TRUE /\ newer' = {} /\ missed' = FALSE

Becomes(c, h) == click' = [click EXCEPT ![c] = h]

\* handleSubmit, for some of the accounts shown, or one that another page has removed
\* after it was selected here: the list is emptied, which leaves the button enabled.
Submit(c) ==
  /\ click[c] = NoClick /\ list = {}
  /\ Render({}) /\ UserActs
  /\ \E S \in SUBSET (known \cup {a \in Accounts : account[a] = "gone"}) \ {{}} :
       Becomes(c, [NoClick EXCEPT !.does = "submit", !.accounts = S])
  /\ UNCHANGED <<backend, known, asked, found>>

\* One account after another; the answer brings the id of the new task.
SubmitCreates(c, a, t) ==
  /\ a \in click[c].accounts
  /\ Creates(t, a)
  /\ Becomes(c, [click[c] EXCEPT !.accounts = @ \ {a}, !.tasks = @ \cup {t}])
  /\ UNCHANGED <<known, restore, shows, acted>>

\* The request is refused, does not arrive, or its answer is lost.
SubmitFails(c, a) ==
  /\ a \in click[c].accounts
  /\ (UNCHANGED <<backend, newer>>) \/ \E t \in Tasks : Creates(t, a)
  /\ Becomes(c, [click[c] EXCEPT !.accounts = @ \ {a}])
  /\ UNCHANGED <<known, restore, shows, acted>>

SubmitEnds(c) ==
  /\ click[c].does = "submit" /\ click[c].accounts = {}
  /\ Render(click[c].tasks) /\ Becomes(c, NoClick)
  /\ UNCHANGED <<backend, known, restore, acted, newer>>

\* handleCancelAll: the tasks listed at the click, one after another.
CancelAll(c) ==
  /\ click[c] = NoClick /\ list # {}
  /\ UserActs
  /\ Becomes(c, [NoClick EXCEPT !.does = "cancel", !.tasks = list])
  /\ UNCHANGED <<backend, known, asked, found, shows>>

\* The task is ended, or has ended already, which is an error; either call fails.
CancelsOne(c, t) ==
  /\ click[c].does = "cancel" /\ t \in click[c].tasks
  /\ row' \in {row, [row EXCEPT ![t] = "ended"]}
  /\ Becomes(c, [click[c] EXCEPT !.tasks = @ \ {t}])
  /\ UNCHANGED <<account, owner, counted, late, known, restore, shows, acted, newer>>

\* The list is emptied, also of the tasks that could not be ended.
CancelEnds(c) ==
  /\ click[c].does = "cancel" /\ click[c].tasks = {}
  /\ Render({}) /\ Becomes(c, NoClick)
  /\ UNCHANGED <<backend, known, restore, acted, newer>>

-----------------------------------------------------------------------------
(* The card of the watched task.                                             *)

\* At mount, and every 2 s, whether or not earlier polls have been answered.
PollReads ==
  /\ card.mounted /\ Cardinality(card.polls) < MaxPolls
  /\ card.first \/ card.ticking
  /\ LET saw == IF IsActive(Watched) THEN "active" ELSE "ended"
     IN  card' = [card EXCEPT !.first = FALSE,
                              !.polls = @ \cup {[saw |-> saw, interval |-> ~card.first]}]
  /\ UNCHANGED <<backend, known, restore, list, click, acted, newer>>

\* An error is never cleared.
Shows(s) == IF card.shown = "error" THEN "error" ELSE s

\* Mutant: any answer stops the interval.
Stops_Always(p) == p.interval

\* The interval is stopped by a poll of its own that brings an end.
Stops(p) == p.interval /\ p.saw = "ended"

PollAnswers(p) ==
  /\ p \in card.polls
  /\ card' = [card EXCEPT !.polls = @ \ {p}, !.shown = Shows(p.saw),
                          !.ticking = @ /\ ~Stops(p)]
  /\ UNCHANGED <<backend, known, restore, list, click, acted, newer>>

PollFails(p) ==
  /\ p \in card.polls
  /\ card' = [card EXCEPT !.polls = @ \ {p}, !.shown = "error", !.ticking = @ /\ ~p.interval]
  /\ UNCHANGED <<backend, known, restore, list, click, acted, newer>>

Reload == BlankPage /\ UNCHANGED <<backend, newer>>

-----------------------------------------------------------------------------
TaskStep(t) == CreatedElsewhere(t) \/ TaskStarts(t) \/ TaskEnds(t)
AccountStep(a) == AccountAdded(a) \/ RemoveCounts(a) \/ RemoveDeletes(a)
RestoreStep(a) == ListingAnswers(a) \/ ListingFails(a)
ClickStep(c) ==
  \/ Submit(c) \/ SubmitEnds(c) \/ CancelAll(c) \/ CancelEnds(c)
  \/ \E a \in Accounts : SubmitFails(c, a) \/ \E t \in Tasks : SubmitCreates(c, a, t)
  \/ \E t \in Tasks : CancelsOne(c, t)
PollEnds(p) == PollAnswers(p) \/ PollFails(p)

Next ==
  \/ \E t \in Tasks : TaskStep(t)
  \/ \E a \in Accounts : AccountStep(a) \/ RestoreStep(a)
  \/ LoadAccounts
  \/ \E c \in Clicks : ClickStep(c)
  \/ PollReads \/ \E p \in Polls : PollEnds(p)
  \/ Reload

Spec == Init /\ [][Next]_vars

\* The interval fires, and while polls are out one is answered or fails, not
\* necessarily the first.  Nothing obliges the user to do anything, or a task to end.
Fairness == WF_vars(PollReads) /\ WF_vars(\E p \in Polls : PollEnds(p))

FairSpec == Spec /\ Fairness

-----------------------------------------------------------------------------
\* "A page that is opened again shows the tasks submitted before": until the user
\* acts, a restore that is over and has missed no account has put every active task
\* of the accounts into the list, but those created or started again since it began.
RestoreShowsAll ==
  ~acted /\ asked = {} /\ ~missed =>
    {t \in Tasks \ newer : IsActive(t) /\ owner[t] \in known} \subseteq list

\* An active task whose account is gone was created, or started again, after remove()
\* had counted the account's tasks: none that was active before loses its account.
OrphansAreYounger ==
  \A t \in Tasks : IsActive(t) /\ account[owner[t]] = "gone" => t \in late

\* A card that still polls when its task ends comes to show the end, or an error,
\* or is taken away, or the task is started again.
CardLearnsEnd ==
  row[Watched] = "ended" /\ card.ticking ~>
    card.shown \in {"ended", "error"} \/ ~card.mounted \/ row[Watched] # "ended"
=============================================================================
