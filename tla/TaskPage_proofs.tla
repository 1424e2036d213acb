--------------------------- MODULE TaskPage_proofs ---------------------------
(* What holds of the page and the handlers it calls for any accounts, tasks  *)
(* and number of clicks handled at once.                                     *)
EXTENDS TaskPage, TLAPS

LEMMA CardsTyped == NoCard \in Cards /\ NewCard \in Cards /\ ~NoCard.mounted /\ NewCard.mounted
  BY DEF NoCard, NewCard, Cards

LEMMA NoClickTyped == NoClick \in Handlers
  BY DEF NoClick, Handlers

LEMMA InitTypeOK == Init => TypeOK
<1> SUFFICES ASSUME Init PROVE TypeOK
  OBVIOUS
<1>1. account \in [Accounts -> {"new", "there", "gone"}] /\ row \in [Tasks -> RowStatus]
  BY DEF Init, RowStatus
<1>2. owner \in [Tasks -> Accounts]
  BY PageAssumption DEF Init
<1>3. click \in [Clicks -> Handlers]
  BY NoClickTyped DEF Init
<1>4. card \in Cards /\ (card.mounted <=> Watched \in list)
  BY CardsTyped DEF Init
<1> QED
  BY <1>1, <1>2, <1>3, <1>4 DEF Init, TypeOK, BackendTyped, ShowsTyped, PageTyped

LEMMA RenderTyped ==
  ASSUME ShowsTyped, NEW l \in SUBSET Tasks, Render(l)
  PROVE  ShowsTyped'
<1>1. CASE Watched \notin l
  BY <1>1, CardsTyped DEF Render, ShowsTyped
<1>2. CASE Watched \in l /\ card.mounted
  BY <1>2 DEF Render, ShowsTyped
<1>3. CASE Watched \in l /\ ~card.mounted
  BY <1>3, CardsTyped DEF Render, ShowsTyped
<1> QED
  BY <1>1, <1>2, <1>3

LEMMA CreatesTyped ==
  ASSUME TypeOK, NEW t \in Tasks, NEW a, Creates(t, a)
  PROVE  BackendTyped' /\ newer' \subseteq Tasks
<1> USE DEF TypeOK, BackendTyped, PageTyped
<1>1. row' \in [Tasks -> RowStatus]
  BY DEF Creates, RowStatus, Active
<1>2. late' \subseteq Tasks /\ newer' \subseteq Tasks
  BY DEF Creates, Joins
<1>3. UNCHANGED <<account, owner, counted>>
  BY DEF Creates
<1> QED
  BY <1>1, <1>2, <1>3

LEMMA BecomesTyped ==
  ASSUME TypeOK, NEW c \in Clicks, NEW h \in Handlers, Becomes(c, h)
  PROVE  click' \in [Clicks -> Handlers]
  BY DEF Becomes, TypeOK, BackendTyped, ShowsTyped, PageTyped

LEMMA HandlerParts ==
  ASSUME NEW h \in Handlers
  PROVE  h.accounts \subseteq Accounts /\ h.tasks \subseteq Tasks
  BY DEF Handlers

LEMMA BackendStepTyped ==
  ASSUME TypeOK,
         \/ \E t \in Tasks : TaskStep(t)
         \/ \E a \in Accounts : AccountStep(a)
  PROVE  TypeOK'
<1> USE DEF backend, page, restore, shows
<1>1. ASSUME NEW t \in Tasks, CreatedElsewhere(t) PROVE TypeOK'
  BY <1>1, CreatesTyped DEF CreatedElsewhere, TypeOK, BackendTyped, ShowsTyped, PageTyped
<1>2. ASSUME NEW t \in Tasks, TaskStarts(t) \/ TaskEnds(t) PROVE TypeOK'
  BY <1>2 DEF TaskStarts, TaskEnds, Joins, RowStatus, Active, TypeOK, BackendTyped, ShowsTyped,
              PageTyped
<1>3. ASSUME NEW a \in Accounts, AccountStep(a) PROVE TypeOK'
  <2>1. CASE AccountAdded(a)
    BY <2>1 DEF AccountAdded, TypeOK, BackendTyped, ShowsTyped, PageTyped
  <2>2. CASE RemoveCounts(a)
    BY <2>2 DEF RemoveCounts, TypeOK, BackendTyped, ShowsTyped, PageTyped
  <2>3. CASE RemoveDeletes(a)
    BY <2>3 DEF RemoveDeletes, TypeOK, BackendTyped, ShowsTyped, PageTyped
  <2> QED
    BY <1>3, <2>1, <2>2, <2>3 DEF AccountStep
<1> QED
  BY <1>1, <1>2, <1>3 DEF TaskStep

LEMMA RestoreStepTyped ==
  ASSUME TypeOK, LoadAccounts \/ \E a \in Accounts : RestoreStep(a)
  PROVE  TypeOK'
<1> USE DEF backend, restore, shows
<1>1. CASE LoadAccounts
  <2>1. Present \subseteq Accounts
    BY DEF Present
  <2> QED
    BY <1>1, <2>1 DEF LoadAccounts, TypeOK, BackendTyped, ShowsTyped, PageTyped
<1>2. ASSUME NEW a \in Accounts, RestoreStep(a) PROVE TypeOK'
  <2>1. PICK f \in SUBSET Tasks : Settle(a, f)
    BY <1>2 DEF RestoreStep, ListingAnswers, ListingFails, Listed, TypeOK, BackendTyped, ShowsTyped, PageTyped
  <2>2. missed' \in BOOLEAN
    BY <1>2 DEF RestoreStep, ListingAnswers, ListingFails, TypeOK, BackendTyped, ShowsTyped, PageTyped
  <2>3. ShowsTyped'
    BY <2>1, RenderTyped DEF Settle, TypeOK, BackendTyped, ShowsTyped, PageTyped
  <2>4. BackendTyped'
    BY <2>1 DEF Settle, TypeOK, BackendTyped, ShowsTyped, PageTyped
  <2>5. PageTyped'
    BY <2>1, <2>2 DEF Settle, TypeOK, BackendTyped, ShowsTyped, PageTyped
  <2> QED
    BY <2>3, <2>4, <2>5 DEF TypeOK, BackendTyped, ShowsTyped, PageTyped
<1> QED
  BY <1>1, <1>2

LEMMA ClickStepTyped ==
  ASSUME TypeOK, NEW c \in Clicks, ClickStep(c)
  PROVE  TypeOK'
<1> USE DEF backend, restore, shows
<1>0. /\ click[c] \in Handlers /\ click[c].accounts \subseteq Accounts
      /\ click[c].tasks \subseteq Tasks
  BY HandlerParts DEF TypeOK, BackendTyped, ShowsTyped, PageTyped
<1>1. CASE Submit(c)
  <2>1. click' \in [Clicks -> Handlers]
    <3>1. PICK S \in SUBSET Accounts : Becomes(c, [NoClick EXCEPT !.does = "submit", !.accounts = S])
      BY <1>1 DEF Submit, TypeOK, BackendTyped, ShowsTyped, PageTyped
    <3>2. [NoClick EXCEPT !.does = "submit", !.accounts = S] \in Handlers
      BY DEF NoClick, Handlers
    <3> QED
      BY <3>1, <3>2, BecomesTyped
  <2>2. ShowsTyped'
    BY <1>1, RenderTyped DEF Submit, TypeOK, BackendTyped, ShowsTyped, PageTyped
  <2> QED
    BY <1>1, <2>1, <2>2 DEF Submit, UserActs, TypeOK, BackendTyped, ShowsTyped, PageTyped
<1>2. ASSUME NEW a \in Accounts, NEW t \in Tasks, SubmitCreates(c, a, t) PROVE TypeOK'
  <2>1. click' \in [Clicks -> Handlers]
    <3>1. [click[c] EXCEPT !.accounts = click[c].accounts \ {a}, !.tasks = click[c].tasks \cup {t}]
            \in Handlers
      BY <1>0 DEF Handlers
    <3> QED
      BY <1>2, <3>1, BecomesTyped DEF SubmitCreates
  <2>2. BackendTyped' /\ newer' \subseteq Tasks
    BY <1>2, CreatesTyped DEF SubmitCreates
  <2> QED
    BY <1>2, <2>1, <2>2 DEF SubmitCreates, TypeOK, BackendTyped, ShowsTyped, PageTyped
<1>3. ASSUME NEW a \in Accounts, SubmitFails(c, a) PROVE TypeOK'
  <2>1. click' \in [Clicks -> Handlers]
    <3>1. [click[c] EXCEPT !.accounts = click[c].accounts \ {a}] \in Handlers
      BY <1>0 DEF Handlers
    <3> QED
      BY <1>3, <3>1, BecomesTyped DEF SubmitFails
  <2>2. BackendTyped' /\ newer' \subseteq Tasks
    BY <1>3, CreatesTyped DEF SubmitFails, TypeOK, BackendTyped, ShowsTyped, PageTyped
  <2> QED
    BY <1>3, <2>1, <2>2 DEF SubmitFails, TypeOK, BackendTyped, ShowsTyped, PageTyped
<1>4. CASE SubmitEnds(c)
  <2>1. ShowsTyped'
    BY <1>0, <1>4, RenderTyped DEF SubmitEnds, TypeOK, BackendTyped, ShowsTyped, PageTyped
  <2>2. click' \in [Clicks -> Handlers]
    BY <1>4, NoClickTyped, BecomesTyped DEF SubmitEnds
  <2> QED
    BY <1>4, <2>1, <2>2 DEF SubmitEnds, TypeOK, BackendTyped, ShowsTyped, PageTyped
<1>5. CASE CancelAll(c)
  <2>1. [NoClick EXCEPT !.does = "cancel", !.tasks = list] \in Handlers
    BY DEF NoClick, Handlers, TypeOK, BackendTyped, ShowsTyped, PageTyped
  <2>2. click' \in [Clicks -> Handlers]
    BY <1>5, <2>1, BecomesTyped DEF CancelAll
  <2> QED
    BY <1>5, <2>2 DEF CancelAll, UserActs, TypeOK, BackendTyped, ShowsTyped, PageTyped
<1>6. ASSUME NEW t \in Tasks, CancelsOne(c, t) PROVE TypeOK'
  <2>1. click' \in [Clicks -> Handlers]
    <3>1. [click[c] EXCEPT !.tasks = click[c].tasks \ {t}] \in Handlers
      BY <1>0 DEF Handlers
    <3> QED
      BY <1>6, <3>1, BecomesTyped DEF CancelsOne
  <2>2. row' \in [Tasks -> RowStatus]
    BY <1>6 DEF CancelsOne, RowStatus, TypeOK, BackendTyped, ShowsTyped, PageTyped
  <2> QED
    BY <1>6, <2>1, <2>2 DEF CancelsOne, TypeOK, BackendTyped, ShowsTyped, PageTyped
<1>7. CASE CancelEnds(c)
  <2>1. ShowsTyped'
    BY <1>7, RenderTyped DEF CancelEnds, TypeOK, BackendTyped, ShowsTyped, PageTyped
  <2>2. click' \in [Clicks -> Handlers]
    BY <1>7, NoClickTyped, BecomesTyped DEF CancelEnds
  <2> QED
    BY <1>7, <2>1, <2>2 DEF CancelEnds, TypeOK, BackendTyped, ShowsTyped, PageTyped
<1> QED
  BY <1>1, <1>2, <1>3, <1>4, <1>5, <1>6, <1>7 DEF ClickStep

\* The card's own steps leave everything else alone, and keep it mounted.
LEMMA CardStepTyped ==
  ASSUME TypeOK, PollReads \/ \E p \in Polls : PollEnds(p)
  PROVE  TypeOK'
<1> USE DEF backend, restore
<1>1. card' \in Cards /\ card'.mounted = card.mounted
  <2>1. CASE PollReads
    <3>1. PICK s \in {"active", "ended"} :
            card' = [card EXCEPT !.first = FALSE,
                                 !.polls = @ \cup {[saw |-> s, interval |-> ~card.first]}]
      BY <2>1 DEF PollReads
    <3>2. [saw |-> s, interval |-> ~card.first] \in Polls
      BY DEF Polls
    <3> QED
      BY <3>1, <3>2 DEF Cards, TypeOK, BackendTyped, ShowsTyped, PageTyped
  <2>2. ASSUME NEW p \in Polls, PollAnswers(p) PROVE card' \in Cards /\ card'.mounted = card.mounted
    <3>1. Shows(p.saw) \in {"loading", "error", "active", "ended"}
      BY DEF Shows, Polls
    <3> QED
      BY <2>2, <3>1 DEF PollAnswers, Cards, TypeOK, BackendTyped, ShowsTyped, PageTyped
  <2>3. ASSUME NEW p \in Polls, PollFails(p) PROVE card' \in Cards /\ card'.mounted = card.mounted
    BY <2>3 DEF PollFails, Cards, TypeOK, BackendTyped, ShowsTyped, PageTyped
  <2> QED
    BY <2>1, <2>2, <2>3 DEF PollEnds
<1>2. UNCHANGED <<account, row, owner, counted, late, known, asked, found, missed, list, click,
                  acted, newer>>
  BY DEF PollReads, PollEnds, PollAnswers, PollFails
<1> QED
  BY <1>1, <1>2 DEF TypeOK, BackendTyped, ShowsTyped, PageTyped

LEMMA ReloadTyped == TypeOK /\ Reload => TypeOK'
<1> SUFFICES ASSUME TypeOK, Reload PROVE TypeOK'
  OBVIOUS
<1>1. click' \in [Clicks -> Handlers] /\ card' \in Cards /\ card'.mounted = FALSE
  BY NoClickTyped DEF Reload, BlankPage, NoCard, Cards
<1> QED
  BY <1>1 DEF Reload, BlankPage, backend, TypeOK, BackendTyped, ShowsTyped, PageTyped

LEMMA NextTypeOK == ASSUME TypeOK, [Next]_vars PROVE TypeOK'
<1>1. CASE UNCHANGED vars
  BY <1>1 DEF vars, backend, page, restore, shows, TypeOK, BackendTyped, ShowsTyped, PageTyped
<1> QED
  BY <1>1, BackendStepTyped, RestoreStepTyped, ClickStepTyped, CardStepTyped, ReloadTyped
     DEF Next

\* Every variable keeps its type, and a card is mounted exactly while its task is listed.
THEOREM PageTypeCorrect == Spec => []TypeOK
  BY InitTypeOK, NextTypeOK, PTL DEF Spec

-----------------------------------------------------------------------------
(* What a step does to the rows.                                             *)

\* No task becomes active but one that is created, and that is recorded.
RowsKept ==
  /\ UNCHANGED <<owner, counted, account, late>>
  /\ \A t \in Tasks : row'[t] \in Active => IsActive(t)

\* One task becomes active, and that is recorded.
Activates(s) ==
  /\ UNCHANGED <<owner, counted, account>>
  /\ Joins(s)
  /\ \A t \in Tasks : t # s /\ row'[t] \in Active => IsActive(t)

LEMMA CreatesActivates ==
  ASSUME TypeOK, NEW s \in Tasks, NEW a, Creates(s, a)
  PROVE  Activates(s)
  BY DEF Creates, Activates, IsActive, Active, TypeOK, BackendTyped

LEMMA StartKinds ==
  ASSUME TypeOK, NEW s \in Tasks, TaskStarts(s)
  PROVE  \/ RowsKept /\ UNCHANGED newer
         \/ Activates(s)
<1>1. CASE row[s] = "ended"
  BY <1>1 DEF TaskStarts, Activates, IsActive, TypeOK, BackendTyped
<1>2. CASE row[s] # "ended"
  BY <1>2 DEF TaskStarts, RowsKept, IsActive, Active, TypeOK, BackendTyped
<1> QED
  BY <1>1, <1>2

LEMMA RowKinds ==
  ASSUME TypeOK, [Next]_vars
  PROVE  \/ RowsKept
         \/ \E s \in Tasks : Activates(s)
         \/ \E a \in Accounts : RemoveCounts(a) \/ RemoveDeletes(a) \/ AccountAdded(a)
<1> USE DEF backend
<1>0. UNCHANGED backend => RowsKept
  BY DEF RowsKept, IsActive
<1>1. ASSUME NEW t \in Tasks, CreatedElsewhere(t)
      PROVE  \E s \in Tasks : Activates(s)
  BY <1>1, CreatesActivates DEF CreatedElsewhere
<1>2. ASSUME NEW t \in Tasks, TaskStarts(t) \/ TaskEnds(t)
      PROVE  RowsKept \/ \E s \in Tasks : Activates(s)
  BY <1>2, StartKinds DEF TaskEnds, RowsKept, IsActive, Active, TypeOK, BackendTyped
<1>3. ASSUME NEW c \in Clicks, NEW t \in Tasks, CancelsOne(c, t) PROVE RowsKept
  BY <1>3 DEF CancelsOne, RowsKept, IsActive, Active, TypeOK, BackendTyped
<1>4. ASSUME NEW c \in Clicks, NEW a \in Accounts, SubmitFails(c, a)
      PROVE  RowsKept \/ \E s \in Tasks : Activates(s)
  BY <1>0, <1>4, CreatesActivates DEF SubmitFails
<1>5. ASSUME NEW c \in Clicks, ClickStep(c)
      PROVE  RowsKept \/ \E s \in Tasks : Activates(s)
  BY <1>0, <1>3, <1>4, <1>5, CreatesActivates
     DEF ClickStep, Submit, SubmitEnds, CancelAll, CancelEnds, SubmitCreates
<1>6. CASE \/ LoadAccounts \/ PollReads \/ Reload
           \/ \E a \in Accounts : RestoreStep(a)
           \/ \E p \in Polls : PollEnds(p)
           \/ UNCHANGED vars
  BY <1>0, <1>6 DEF LoadAccounts, PollReads, Reload, RestoreStep, ListingAnswers, ListingFails,
                    Settle, PollEnds, PollAnswers, PollFails, vars
<1> QED
  BY <1>1, <1>2, <1>5, <1>6 DEF Next, TaskStep, AccountStep

-----------------------------------------------------------------------------
(* Tasks that lose their account.                                            *)

\* Also between the count and the deletion, only tasks created since are active.
OrphanInv ==
  /\ \A a \in counted : account[a] = "there"
  /\ \A t \in Tasks : IsActive(t) /\ (owner[t] \in counted \/ account[owner[t]] = "gone") =>
       t \in late

LEMMA OrphanStep ==
  ASSUME TypeOK, OrphanInv, [Next]_vars
  PROVE  OrphanInv'
<1>1. CASE RowsKept
  BY <1>1 DEF RowsKept, OrphanInv, IsActive
<1>2. ASSUME NEW s \in Tasks, Activates(s) PROVE OrphanInv'
  BY <1>2 DEF Activates, Joins, OrphanInv, IsActive
<1>3. ASSUME NEW a \in Accounts, RemoveCounts(a) PROVE OrphanInv'
  BY <1>3 DEF RemoveCounts, OrphanInv, IsActive
<1>4. ASSUME NEW a \in Accounts, RemoveDeletes(a) PROVE OrphanInv'
  <2>1. CASE account' = [account EXCEPT ![a] = "gone"] /\ UNCHANGED late
    BY <1>4, <2>1 DEF RemoveDeletes, OrphanInv, IsActive, TypeOK, BackendTyped
  <2>2. CASE late' = {t \in late : owner[t] # a} /\ UNCHANGED account
    BY <1>4, <2>2 DEF RemoveDeletes, OrphanInv, IsActive, TypeOK, BackendTyped
  <2> QED
    BY <1>4, <2>1, <2>2 DEF RemoveDeletes
<1>5. ASSUME NEW a \in Accounts, AccountAdded(a) PROVE OrphanInv'
  BY <1>5 DEF AccountAdded, OrphanInv, IsActive, TypeOK, BackendTyped
<1> QED
  BY <1>1, <1>2, <1>3, <1>4, <1>5, RowKinds

\* remove() leaves no active task without an account, but those that were created
\* after it had counted (account.service.ts:103-126).
THEOREM OrphansAreYoungerHolds == Spec => []OrphansAreYounger
<1>1. Init => OrphanInv
  BY DEF Init, OrphanInv, IsActive, Active
<1>2. OrphanInv => OrphansAreYounger
  BY DEF OrphanInv, OrphansAreYounger
<1> QED
  BY <1>1, <1>2, OrphanStep, PageTypeCorrect, PTL DEF Spec

-----------------------------------------------------------------------------
(* The restore.                                                              *)

Wanted == {t \in Tasks \ newer : IsActive(t) /\ owner[t] \in known}

\* While listings are out, what they have to bring is found, or still to be listed.
RestoreInv ==
  ~acted =>
    /\ click = [c \in Clicks |-> NoClick]
    /\ ~missed /\ asked = {} => Wanted \subseteq list
    /\ ~missed /\ asked # {} => {t \in Wanted : owner[t] \notin asked} \subseteq found

\* Backend steps make nothing wanted.
WantsLess ==
  /\ UNCHANGED <<acted, click, missed, asked, known, list, found>>
  /\ ~acted => Wanted' \subseteq Wanted
  /\ UNCHANGED owner

LEMMA BackendWantsLess ==
  ASSUME TypeOK,
         \/ \E t \in Tasks : TaskStep(t)
         \/ \E a \in Accounts : AccountStep(a)
  PROVE  WantsLess
<1> USE DEF page, restore, shows
<1>1. ASSUME NEW t \in Tasks, CreatedElsewhere(t) PROVE WantsLess
  <2>1. Creates(t, owner[t]) /\ UNCHANGED page
    BY <1>1 DEF CreatedElsewhere
  <2>2. Activates(t)
    BY <2>1, CreatesActivates
  <2> QED
    BY <2>1, <2>2 DEF Activates, Joins, WantsLess, Wanted, IsActive
<1>2. ASSUME NEW t \in Tasks, TaskStarts(t) PROVE WantsLess
  <2>1. UNCHANGED page
    BY <1>2 DEF TaskStarts
  <2>2. CASE Activates(t)
    BY <2>1, <2>2 DEF Activates, Joins, WantsLess, Wanted, IsActive
  <2>3. CASE RowsKept /\ UNCHANGED newer
    BY <2>1, <2>3 DEF RowsKept, WantsLess, Wanted, IsActive
  <2> QED
    BY <1>2, <2>2, <2>3, StartKinds
<1>4. ASSUME NEW t \in Tasks, TaskEnds(t) PROVE WantsLess
  BY <1>4 DEF TaskEnds, WantsLess, Wanted, IsActive, Active, TypeOK, BackendTyped
<1>3. ASSUME NEW a \in Accounts, AccountStep(a) PROVE WantsLess
  BY <1>3 DEF AccountStep, AccountAdded, RemoveCounts, RemoveDeletes, WantsLess, Wanted, IsActive
<1> QED
  BY <1>1, <1>2, <1>3, <1>4 DEF TaskStep

LEMMA SettleRestores ==
  ASSUME TypeOK, RestoreInv, NEW a \in Accounts, ListingAnswers(a)
  PROVE  RestoreInv'
<1> DEFINE f == found \cup Listed(a)
<1> SUFFICES ASSUME ~acted, ~missed PROVE RestoreInv'
  BY DEF ListingAnswers, Settle, RestoreInv
<1>1. /\ a \in asked /\ asked' = asked \ {a}
      /\ UNCHANGED <<row, owner, known, click, acted, newer, missed>>
      /\ IF asked' = {} THEN IF f # {} THEN list' = f ELSE list' = list
                        ELSE found' = f
  BY DEF ListingAnswers, Settle, Render, backend, shows
<1>2. {t \in Wanted : owner[t] \notin asked'} \subseteq f
  BY <1>1 DEF RestoreInv, Wanted, Listed
<1>3. Wanted' = Wanted
  BY <1>1 DEF Wanted, IsActive
<1>4. CASE asked' = {}
  <2>1. Wanted \subseteq list'
    BY <1>1, <1>2, <1>4
  <2> QED
    BY <1>1, <1>3, <1>4, <2>1 DEF RestoreInv
<1>5. CASE asked' # {}
  <2>1. {t \in Wanted : owner[t] \notin asked'} \subseteq found'
    BY <1>1, <1>2, <1>5
  <2> QED
    BY <1>1, <1>3, <1>5, <2>1 DEF RestoreInv
<1> QED
  BY <1>4, <1>5

\* A click is handled only after the user has acted.
LEMMA ClickActs ==
  ASSUME TypeOK, RestoreInv, NEW c \in Clicks, ClickStep(c)
  PROVE  acted'
<1>1. CASE Submit(c) \/ CancelAll(c)
  BY <1>1 DEF Submit, CancelAll, UserActs
<1>2. CASE ~(Submit(c) \/ CancelAll(c))
  <2>0. NoClick.does = "nothing" /\ NoClick.accounts = {} /\ NoClick.tasks = {}
    BY DEF NoClick
  <2>1. CASE SubmitEnds(c) \/ CancelEnds(c)
    BY <2>0, <2>1 DEF SubmitEnds, CancelEnds, RestoreInv
  <2>2. ASSUME NEW a \in Accounts, NEW t \in Tasks, SubmitCreates(c, a, t) PROVE acted'
    BY <2>0, <2>2 DEF SubmitCreates, RestoreInv
  <2>3. ASSUME NEW a \in Accounts, SubmitFails(c, a) PROVE acted'
    BY <2>0, <2>3 DEF SubmitFails, RestoreInv
  <2>4. ASSUME NEW t \in Tasks, CancelsOne(c, t) PROVE acted'
    BY <2>0, <2>4 DEF CancelsOne, RestoreInv
  <2> QED
    BY <1>2, <2>1, <2>2, <2>3, <2>4 DEF ClickStep
<1> QED
  BY <1>1, <1>2

LEMMA RestoreInvStep ==
  ASSUME TypeOK, RestoreInv, [Next]_vars
  PROVE  RestoreInv'
<1>1. CASE WantsLess
  BY <1>1 DEF WantsLess, RestoreInv
<1>2. CASE LoadAccounts
  <2>1. CASE Present = known
    BY <1>2, <2>1 DEF LoadAccounts, RestoreInv, Wanted, IsActive, backend, restore, shows
  <2>2. CASE Present # known
    <3>1. known' = asked' /\ UNCHANGED <<acted, click>>
      BY <1>2, <2>2 DEF LoadAccounts
    <3>2. {t \in Wanted' : owner'[t] \notin asked'} = {}
      BY <3>1 DEF Wanted
    <3>3. asked' = {} => Wanted' = {}
      BY <3>1 DEF Wanted
    <3> QED
      BY <3>1, <3>2, <3>3 DEF RestoreInv
  <2> QED
    BY <2>1, <2>2
<1>3. ASSUME NEW a \in Accounts, ListingAnswers(a) PROVE RestoreInv'
  BY <1>3, SettleRestores
<1>4. ASSUME NEW a \in Accounts, ListingFails(a) PROVE RestoreInv'
  BY <1>4 DEF ListingFails, Settle, RestoreInv
<1>5. ASSUME NEW c \in Clicks, ClickStep(c) PROVE RestoreInv'
  BY <1>5, ClickActs DEF RestoreInv
<1>6. CASE PollReads \/ \E p \in Polls : PollEnds(p)
  BY <1>6 DEF PollReads, PollEnds, PollAnswers, PollFails, RestoreInv, Wanted, IsActive,
              backend, restore
<1>7. CASE Reload
  BY <1>7 DEF Reload, BlankPage, RestoreInv, Wanted
<1>8. CASE UNCHANGED vars
  BY <1>8 DEF vars, backend, page, restore, shows, RestoreInv, Wanted, IsActive
<1> QED
  BY <1>1, <1>2, <1>3, <1>4, <1>5, <1>6, <1>7, <1>8, BackendWantsLess DEF Next, RestoreStep

\* The page that is opened again lists every active task (App.tsx:221-260).
THEOREM RestoreShowsAllHolds == Spec => []RestoreShowsAll
<1>1. Init => RestoreInv
  BY DEF Init, RestoreInv, Wanted
<1>2. RestoreInv => RestoreShowsAll
  BY DEF RestoreInv, RestoreShowsAll, Wanted
<1> QED
  BY <1>1, <1>2, RestoreInvStep, PageTypeCorrect, PTL DEF Spec
=============================================================================
