------------------------ MODULE MessageForward_proofs ------------------------
(***************************************************************************)
(* Theorems about MessageForward for every set of rounds, accounts and     *)
(* messages, with faults, restarts and changes of accounts at any time.    *)
(***************************************************************************)
EXTENDS MessageForward, TLAPS

\* The flag does what it is for: one round at a time.
OneRound ==
  /\ \A r \in Rounds : pc[r] # "idle" => polling
  /\ \A r, q \in Rounds : pc[r] # "idle" /\ pc[q] # "idle" => r = q

\* What a round that is about to push or to save knows of its message.
RoundKnows ==
  \A r \in Rounds :
    /\ pc[r] = "push" => Key(msg[r]) \notin records
    /\ pc[r] = "save" => Key(msg[r]) \in delivered \cup swallowed

\* Messages that reached the user are recorded, unless the record is about to be
\* written or was lost.
DeliveredRecorded ==
  \A k \in delivered :
    k \in records \cup lost \/ \E r \in Rounds : pc[r] = "save" /\ Key(msg[r]) = k

\* The baseline in progress works on messages of the account's first answer.
BaselineIsOld == \A r \in Rounds : pc[r] = "baseline" => batch[r] \subseteq old

DedupInv ==
  TypeOK /\ OneRound /\ RoundKnows /\ DeliveredRecorded /\ BaselineIsOld /\ NeverSkipped

LEMMA KeyType == \A m \in Messages : Key(m) \in Keys
BY DEF Keys

LEMMA TypeInit == Init => TypeOK
<1> SUFFICES ASSUME Init PROVE TypeOK
  OBVIOUS
<1>1. first \in [Rounds -> BOOLEAN]
  BY DEF Init
<1>2. /\ pc \in [Rounds -> {"idle", "list", "next", "fetch", "refresh", "baseline", "forward",
                          "push", "save"}]
      /\ \A r \in Rounds : pc[r] = "idle"
  BY DEF Init
<1>3. todo \in [Rounds -> SUBSET Accounts] /\ batch \in [Rounds -> SUBSET Messages]
  BY DEF Init
<1>4. acct \in [Rounds -> Accounts \cup {None}] /\ msg \in [Rounds -> Messages \cup {None}]
  BY DEF Init
<1> QED
  BY <1>1, <1>2, <1>3, <1>4 DEF Init, TypeOK

LEMMA RoundStepType ==
  ASSUME TypeOK, NEW r \in Rounds, PollBegins(r) \/ RoundStep(r) \/ RoundFault(r)
  PROVE  TypeOK'
<1> USE KeyType DEF TypeOK, library, locals, ghosts, Goto, Batch, Lose, Fault, Forget
<1>1. CASE PollBegins(r)
  BY <1>1 DEF PollBegins
<1>2. CASE ListAccounts(r)
  BY <1>2 DEF ListAccounts
<1>3. CASE NextAccount(r)
  BY <1>3 DEF NextAccount
<1>4. CASE RoundEnds(r)
  BY <1>4 DEF RoundEnds
<1>5. CASE Answer(r)
  BY <1>5 DEF Answer, Continue, FirstSight, Of
<1>6. CASE AnswerExpired(r)
  BY <1>6 DEF AnswerExpired
<1>7. CASE RefreshReturns(r)
  BY <1>7 DEF RefreshReturns
<1>8. CASE BaselineSaves(r)
  BY <1>8 DEF BaselineSaves
<1>9. CASE BaselineDone(r)
  BY <1>9 DEF BaselineDone
<1>10. CASE Lookup(r)
  BY <1>10 DEF Lookup
<1>11. CASE ForwardDone(r)
  BY <1>11 DEF ForwardDone
<1>12. CASE Push(r)
  BY <1>12 DEF Push
<1>13. CASE Save(r)
  BY <1>13 DEF Save
<1>14. CASE ListFails(r)
  <2>1. faults' \in Nat
    BY <1>14 DEF ListFails
  <2>3. polling' = FALSE
    BY <1>14 DEF ListFails
  <2>2. /\ pc' = [pc EXCEPT ![r] = "idle"]
        /\ UNCHANGED <<library, baselined, records, locals, ghosts, crashes>>
    BY <1>14 DEF ListFails
  <2> QED
    BY <2>1, <2>2, <2>3
<1>15. CASE AnswerFails(r)
  BY <1>15 DEF AnswerFails, Continue, FirstSight, Of, KeysOf
<1>16. CASE BaselineSaveFails(r)
  BY <1>16 DEF BaselineSaveFails
<1>17. CASE LookupFails(r)
  BY <1>17 DEF LookupFails
<1>18. CASE PushFails(r)
  BY <1>18 DEF PushFails
<1>19. CASE SaveFails(r)
  BY <1>19 DEF SaveFails
<1> QED
  BY <1>1, <1>2, <1>3, <1>4, <1>5, <1>6, <1>7, <1>8, <1>9, <1>10, <1>11, <1>12, <1>13,
     <1>14, <1>15, <1>16, <1>17, <1>18, <1>19 DEF RoundStep, RoundFault

LEMMA WorldType == ASSUME TypeOK, World PROVE TypeOK'
<1> USE KeyType, ForwardAssumption DEF TypeOK, library, locals, ghosts
<1>1. ASSUME NEW m \in Messages, Publish(m) PROVE TypeOK'
  BY <1>1 DEF Publish
<1>2. ASSUME NEW a \in Accounts, StatusChanges(a) PROVE TypeOK'
  BY <1>2 DEF StatusChanges, Change
<1>3. ASSUME NEW a \in Accounts, SessionChanges(a) PROVE TypeOK'
  BY <1>3 DEF SessionChanges, Change
<1>4. CASE WindowOpens
  BY <1>4 DEF WindowOpens
<1>5. CASE WindowCloses
  BY <1>5 DEF WindowCloses
<1>6. CASE Crash
  <2>1. first' \in [Rounds -> BOOLEAN]
    BY <1>6 DEF Crash
  <2>2. /\ pc' \in [Rounds -> {"idle", "list", "next", "fetch", "refresh", "baseline", "forward",
                            "push", "save"}]
        /\ \A r \in Rounds : pc'[r] = "idle"
    BY <1>6 DEF Crash
  <2>3. todo' \in [Rounds -> SUBSET Accounts] /\ batch' \in [Rounds -> SUBSET Messages]
    BY <1>6 DEF Crash
  <2>4. acct' \in [Rounds -> Accounts \cup {None}] /\ msg' \in [Rounds -> Messages \cup {None}]
    BY <1>6 DEF Crash
  <2>5. lost' \subseteq Keys
    BY <1>6 DEF Crash, Lose
  <2>6. crashes' \in Nat /\ UNCHANGED <<library, records, delivered, old, swallowed, faults>>
    BY <1>6 DEF Crash
  <2>7. polling' = FALSE /\ baselined' = {}
    BY <1>6 DEF Crash
  <2> QED
    BY <2>1, <2>2, <2>3, <2>4, <2>5, <2>6, <2>7
<1> QED
  BY <1>1, <1>2, <1>3, <1>4, <1>5, <1>6 DEF World

LEMMA TypeNext == ASSUME TypeOK, [Next]_vars PROVE TypeOK'
<1>1. CASE UNCHANGED vars
  BY <1>1 DEF vars, library, locals, ghosts, TypeOK
<1> QED
  BY <1>1, RoundStepType, WorldType DEF Next

\* Every variable of the forwarding keeps its type, and a round in progress always has
\* the account and the message it works on.
THEOREM ForwardTypeCorrect == Spec => []TypeOK
<1>1. Init => TypeOK
  BY TypeInit
<1>2. TypeOK /\ [Next]_vars => TypeOK'
  BY TypeNext
<1> QED
  BY <1>1, <1>2, PTL DEF Spec

-----------------------------------------------------------------------------
(* One round at a time.                                                      *)

\* A step of a round moves that round only, and releases the flag when it ends it.
LEMMA StepMovesOne ==
  ASSUME TypeOK, NEW r \in Rounds, RoundStep(r) \/ RoundFault(r)
  PROVE  /\ pc[r] # "idle"
         /\ \E p : pc' = [pc EXCEPT ![r] = p] /\ (p = "idle" \/ polling' = polling)
<1> USE DEF TypeOK, Goto, library
<1>1. ASSUME ListAccounts(r) \/ NextAccount(r) \/ Answer(r) \/ AnswerExpired(r)
             \/ RefreshReturns(r) \/ BaselineDone(r) \/ ForwardDone(r) \/ Push(r) \/ Save(r)
             \/ AnswerFails(r) \/ PushFails(r) \/ SaveFails(r)
      PROVE  pc[r] # "idle" /\ \E p : pc' = [pc EXCEPT ![r] = p] /\ polling' = polling
  BY <1>1 DEF ListAccounts, NextAccount, Answer, AnswerExpired, RefreshReturns, BaselineDone,
    ForwardDone, Push, Save, AnswerFails, PushFails, SaveFails, Continue
<1>2. ASSUME BaselineSaves(r) \/ BaselineSaveFails(r) \/ LookupFails(r)
      PROVE  pc[r] # "idle" /\ pc' = [pc EXCEPT ![r] = pc[r]] /\ polling' = polling
  BY <1>2 DEF BaselineSaves, BaselineSaveFails, LookupFails
<1>3. ASSUME Lookup(r)
      PROVE  pc[r] # "idle" /\ (\E p : pc' = [pc EXCEPT ![r] = p]) /\ polling' = polling
  <2>1. pc' = pc \/ pc' = [pc EXCEPT ![r] = "push"]
    BY <1>3 DEF Lookup
  <2>2. pc = [pc EXCEPT ![r] = pc[r]]
    OBVIOUS
  <2> QED
    BY <1>3, <2>1, <2>2 DEF Lookup
<1>4. ASSUME RoundEnds(r) \/ ListFails(r)
      PROVE  pc[r] # "idle" /\ pc' = [pc EXCEPT ![r] = "idle"]
  BY <1>4 DEF RoundEnds, ListFails
<1> QED
  BY <1>1, <1>2, <1>3, <1>4 DEF RoundStep, RoundFault

LEMMA WorldLeavesRounds ==
  ASSUME World \/ UNCHANGED vars
  PROVE  \/ UNCHANGED <<polling, baselined, records, pc, locals, ghosts>> /\ listed \subseteq listed'
         \/ Crash
BY DEF World, Publish, StatusChanges, SessionChanges, WindowOpens, WindowCloses, vars, library

LEMMA OneRoundNext == ASSUME TypeOK, OneRound, [Next]_vars PROVE OneRound'
<1> USE DEF TypeOK, OneRound
<1>1. ASSUME NEW r \in Rounds, PollBegins(r) PROVE OneRound'
  BY <1>1 DEF PollBegins, Goto
<1>2. ASSUME NEW r \in Rounds, RoundStep(r) \/ RoundFault(r) PROVE OneRound'
  <2>1. PICK p : pc' = [pc EXCEPT ![r] = p] /\ (p = "idle" \/ polling' = polling)
    BY <1>2, StepMovesOne
  <2>2. pc[r] # "idle" /\ \A q \in Rounds \ {r} : pc'[q] = "idle"
    BY <1>2, <2>1, StepMovesOne
  <2> QED
    BY <2>1, <2>2
<1>3. CASE World \/ UNCHANGED vars
  <2>1. CASE UNCHANGED <<polling, pc>>
    BY <2>1
  <2>2. CASE Crash
    <3>1. \A r \in Rounds : pc'[r] = "idle"
      BY <2>2 DEF Crash
    <3> QED
      BY <3>1
  <2> QED
    BY <1>3, <2>1, <2>2, WorldLeavesRounds
<1> QED
  BY <1>1, <1>2, <1>3 DEF Next

-----------------------------------------------------------------------------
(* No duplicate, and nothing skipped.                                        *)

LEMMA DedupInvNext == ASSUME DedupInv, [Next]_vars PROVE DedupInv'
<1>0. TypeOK' /\ OneRound'
  BY TypeNext, OneRoundNext DEF DedupInv
<1>1. ASSUME NEW r \in Rounds, PollBegins(r) PROVE DedupInv'
  BY <1>0, <1>1 DEF PollBegins, NextFiring, Goto, locals, ghosts, DedupInv, TypeOK, RoundKnows,
    DeliveredRecorded, BaselineIsOld, NeverSkipped
<1>2. ASSUME NEW r \in Rounds, RoundStep(r) \/ RoundFault(r) PROVE DedupInv'
  <2> USE DEF DedupInv, TypeOK, RoundKnows, DeliveredRecorded, BaselineIsOld, NeverSkipped,
        Goto, Batch, Lose, Forget, locals, ghosts
  <2>0. /\ pc[r] # "idle" /\ \A q \in Rounds \ {r} : pc[q] = "idle"
        /\ \A q \in Rounds \ {r} : pc'[q] = "idle"
    <3>1. pc[r] # "idle" /\ \E p : pc' = [pc EXCEPT ![r] = p]
      BY <1>2, StepMovesOne
    <3> QED
      BY <3>1 DEF OneRound
  <2>1. CASE ListAccounts(r) \/ ListFails(r) \/ NextAccount(r) \/ RoundEnds(r)
    BY <1>0, <2>0, <2>1 DEF ListAccounts, ListFails, NextAccount, RoundEnds
  <2>2. CASE Answer(r)
    BY <1>0, <2>0, <2>2 DEF Answer, Continue, FirstSight, KeysOf
  <2>3. CASE AnswerFails(r)
    BY <1>0, <2>0, <2>3 DEF AnswerFails, Continue, FirstSight, KeysOf
  <2>4. CASE AnswerExpired(r) \/ RefreshReturns(r)
    BY <1>0, <2>0, <2>4 DEF AnswerExpired, RefreshReturns
  <2>5. CASE BaselineSaves(r)
    BY <1>0, <2>0, <2>5 DEF BaselineSaves, KeysOf
  <2>6. CASE BaselineSaveFails(r) \/ BaselineDone(r)
    BY <1>0, <2>0, <2>6 DEF BaselineSaveFails, BaselineDone
  <2>7. CASE Lookup(r)
    BY <1>0, <2>0, <2>7 DEF Lookup
  <2>8. CASE LookupFails(r) \/ ForwardDone(r)
    BY <1>0, <2>0, <2>8 DEF LookupFails, ForwardDone
  <2>9. CASE Push(r)
    BY <1>0, <2>0, <2>9 DEF Push
  <2>10. CASE PushFails(r)
    BY <1>0, <2>0, <2>10 DEF PushFails
  <2>11. CASE Save(r)
    BY <1>0, <2>0, <2>11 DEF Save
  <2>12. CASE SaveFails(r)
    BY <1>0, <2>0, <2>12 DEF SaveFails
  <2> QED
    BY <1>2, <2>1, <2>2, <2>3, <2>4, <2>5, <2>6, <2>7, <2>8, <2>9, <2>10, <2>11, <2>12
      DEF RoundStep, RoundFault
<1>3. CASE World \/ UNCHANGED vars
  <2>1. CASE UNCHANGED <<polling, baselined, records, pc, locals, ghosts>>
    BY <1>0, <2>1 DEF locals, ghosts, DedupInv, RoundKnows, DeliveredRecorded, BaselineIsOld,
      NeverSkipped
  <2>2. CASE Crash
    BY <1>0, <2>2 DEF Crash, Lose, DedupInv, RoundKnows, DeliveredRecorded, BaselineIsOld,
      NeverSkipped
  <2> QED
    BY <1>3, <2>1, <2>2, WorldLeavesRounds
<1> QED
  BY <1>1, <1>2, <1>3 DEF Next

LEMMA DedupInvHolds == Spec => []DedupInv
<1>1. Init => DedupInv
  BY TypeInit DEF Init, DedupInv, OneRound, RoundKnows, DeliveredRecorded, BaselineIsOld,
    NeverSkipped
<1>2. DedupInv /\ [Next]_vars => DedupInv'
  BY DedupInvNext
<1> QED
  BY <1>1, <1>2, PTL DEF Spec

\* A message is only recorded because it was pushed or belongs to the baseline.
THEOREM NeverSkippedHolds == Spec => []NeverSkipped
<1>1. DedupInv => NeverSkipped
  BY DEF DedupInv
<1> QED
  BY <1>1, DedupInvHolds, PTL

-----------------------------------------------------------------------------
(* The baseline.                                                             *)

\* What a round knows of its account: whether this is its baseline, and, once it
\* forwards, that the baseline is done.
RoundAccount ==
  \A r \in Rounds :
    /\ pc[r] \in {"fetch", "baseline"} => (first[r] <=> acct[r] \notin baselined)
    /\ pc[r] = "baseline" => first[r]
    /\ pc[r] \in {"forward", "push", "save"} => acct[r] \in baselined
    /\ pc[r] \in {"baseline", "forward", "push", "save"} =>
         \A m \in batch[r] : AccountOf[m] = acct[r]
    /\ pc[r] \in {"push", "save"} => AccountOf[msg[r]] = acct[r]

\* The old messages of an account that has had its baseline are recorded, or lost;
\* while the baseline is in progress those left in the batch are not yet.
OldIsKept ==
  /\ old \subseteq listed
  /\ \A m \in old : AccountOf[m] \in baselined => Key(m) \in records \cup lost
  /\ \A r \in Rounds : pc[r] = "baseline" =>
       \A m \in old : AccountOf[m] = acct[r] => m \in batch[r] \/ Key(m) \in records \cup lost

BaseInv == DedupInv /\ RoundAccount /\ OldIsKept

LEMMA BaseInvNext == ASSUME BaseInv, [Next]_vars PROVE BaseInv'
<1>0. DedupInv /\ DedupInv' /\ TypeOK /\ TypeOK'
  BY DedupInvNext DEF BaseInv, DedupInv
<1>1. ASSUME NEW r \in Rounds, PollBegins(r) PROVE BaseInv'
  BY <1>0, <1>1 DEF PollBegins, NextFiring, Goto, library, locals, ghosts, BaseInv, TypeOK,
    RoundAccount, OldIsKept
<1>2. ASSUME NEW r \in Rounds, RoundStep(r) \/ RoundFault(r) PROVE BaseInv'
  <2> USE <1>0 DEF BaseInv, TypeOK, RoundAccount, OldIsKept, Goto, Batch, Lose, Forget,
        library, locals, ghosts
  <2>0. /\ pc[r] # "idle" /\ \A q \in Rounds \ {r} : pc[q] = "idle"
        /\ \A q \in Rounds \ {r} : pc'[q] = "idle"
    <3>1. pc[r] # "idle" /\ \E p : pc' = [pc EXCEPT ![r] = p]
      BY <1>2, StepMovesOne
    <3> QED
      BY <3>1 DEF DedupInv, OneRound
  <2>1. CASE ListAccounts(r) \/ ListFails(r) \/ RoundEnds(r)
    BY <2>0, <2>1 DEF ListAccounts, ListFails, RoundEnds
  <2>2. CASE NextAccount(r)
    <3>1. /\ pc[r] = "next" /\ pc' = [pc EXCEPT ![r] = "fetch"]
          /\ UNCHANGED <<library, baselined, records, batch, msg, ghosts>>
      BY <2>2 DEF NextAccount
    <3>2. PICK a \in todo[r] : /\ acct' = [acct EXCEPT ![r] = a]
                              /\ first' = [first EXCEPT ![r] = a \notin baselined]
      BY <2>2 DEF NextAccount
    <3>3. acct'[r] = a /\ pc'[r] = "fetch"
      BY <3>1, <3>2
    <3>4. first'[r] <=> a \notin baselined
      BY <3>2, Zenon
    <3>5. RoundAccount'
      BY <2>0, <3>1, <3>3, <3>4
    <3>6. OldIsKept'
      BY <2>0, <3>1, <3>3
    <3> QED
      BY <3>5, <3>6
  <2>3. CASE Answer(r)
    BY <2>0, <2>3 DEF Answer, Continue, FirstSight, Of
  <2>4. CASE AnswerFails(r)
    BY <2>0, <2>4 DEF AnswerFails, Continue, FirstSight, Of, KeysOf
  <2>5. CASE AnswerExpired(r)
    BY <2>0, <2>5 DEF AnswerExpired
  <2>6. CASE RefreshReturns(r)
    BY <2>0, <2>6 DEF RefreshReturns
  <2>7. CASE BaselineSaves(r)
    BY <2>0, <2>7 DEF BaselineSaves
  <2>8. CASE BaselineSaveFails(r)
    BY <2>0, <2>8 DEF BaselineSaveFails
  <2>9. CASE BaselineDone(r)
    BY <2>0, <2>9 DEF BaselineDone
  <2>10. CASE Lookup(r)
    BY <2>0, <2>10 DEF Lookup
  <2>11. CASE LookupFails(r)
    BY <2>0, <2>11 DEF LookupFails
  <2>12. CASE ForwardDone(r) \/ Push(r)
    BY <2>0, <2>12 DEF ForwardDone, Push
  <2>13. CASE PushFails(r)
    BY <2>0, <2>13 DEF PushFails
  <2>14. CASE Save(r)
    BY <2>0, <2>14 DEF Save
  <2>15. CASE SaveFails(r)
    BY <2>0, <2>15 DEF SaveFails
  <2> QED
    BY <1>2, <2>1, <2>2, <2>3, <2>4, <2>5, <2>6, <2>7, <2>8, <2>9, <2>10, <2>11, <2>12, <2>13,
       <2>14, <2>15 DEF RoundStep, RoundFault
<1>3. CASE World \/ UNCHANGED vars
  <2>1. CASE UNCHANGED <<polling, baselined, records, pc, locals, ghosts>> /\ listed \subseteq listed'
    BY <1>0, <2>1 DEF locals, ghosts, BaseInv, RoundAccount, OldIsKept
  <2>2. CASE Crash
    BY <1>0, <2>2 DEF Crash, Lose, library, BaseInv, RoundAccount, OldIsKept
  <2> QED
    BY <1>3, <2>1, <2>2, WorldLeavesRounds
<1> QED
  BY <1>1, <1>2, <1>3 DEF Next

LEMMA BaseInvHolds == Spec => []BaseInv
<1>1. Init => RoundAccount /\ OldIsKept
  BY DEF Init, RoundAccount, OldIsKept
<1>2. ASSUME DedupInv, RoundAccount, OldIsKept, [Next]_vars PROVE RoundAccount' /\ OldIsKept'
  BY <1>2, BaseInvNext DEF BaseInv
<1> QED
  BY <1>1, <1>2, DedupInvHolds, PTL DEF Spec, BaseInv

\* What has reached the user, or was listed when its account was first polled, is pushed
\* only if a fault or a crash has kept its record from being written.
THEOREM OnlyNewIsPushedHolds == Spec => OnlyNewIsPushed
<1>1. ASSUME BaseInv, [Next]_vars
      PROVE  \A r \in Rounds :
               Pushes(r) /\ (Key(msg[r]) \in delivered \/ msg[r] \in old) =>
                 Key(msg[r]) \in lost
  <2> SUFFICES ASSUME NEW r \in Rounds, Pushes(r), Key(msg[r]) \in delivered \/ msg[r] \in old
               PROVE  Key(msg[r]) \in lost
    OBVIOUS
  <2>1. CASE Key(msg[r]) \in delivered
    BY <1>1, <2>1 DEF BaseInv, DedupInv, OneRound, RoundKnows, DeliveredRecorded, Pushes
  <2>2. CASE msg[r] \in old
    BY <1>1, <2>2 DEF BaseInv, DedupInv, RoundKnows, RoundAccount, OldIsKept, Pushes
  <2> QED
    BY <2>1, <2>2
<1> QED
  BY <1>1, BaseInvHolds, PTL DEF Spec, OnlyNewIsPushed

-----------------------------------------------------------------------------
(* The life of a message.                                                    *)

\* The messages that the mapping shows to be at hand.
AtHand == {Key(msg[r]) : r \in {q \in Rounds : pc[q] = "save"}}

LEMMA KeyOwner ==
  \A m \in Messages : Key(m) \in Keys /\ [k \in Keys |-> k[1]][Key(m)] = AccountOf[m]
BY DEF Key, Keys

\* With one round at a time, the only message at hand is the one of the round that records.
LEMMA HandOfRound ==
  ASSUME OneRound, NEW r \in Rounds, pc[r] # "idle"
  PROVE  AtHand = IF pc[r] = "save" THEN {Key(msg[r])} ELSE {}
<1>1. \A q \in Rounds : pc[q] = "save" => q = r
  BY DEF OneRound
<1> QED
  BY <1>1 DEF AtHand

\* Only a round about to record has something at hand, before its step and after it.
LEMMA EmptyHands ==
  ASSUME TypeOK, OneRound, OneRound', NEW r \in Rounds, RoundStep(r) \/ RoundFault(r)
  PROVE  /\ pc[r] # "save" => AtHand = {}
         /\ pc'[r] # "save" => AtHand' = {}
<1>1. PICK p : pc' = [pc EXCEPT ![r] = p]
  BY StepMovesOne
<1>2. pc[r] # "idle" /\ \A q \in Rounds \ {r} : pc[q] = "idle" /\ pc'[q] = "idle"
  BY <1>1, StepMovesOne DEF OneRound, TypeOK
<1> QED
  BY <1>2 DEF AtHand

\* A step that touches none of the five and leaves what is at hand is not seen.
LEMMA LifeStutters ==
  ASSUME UNCHANGED <<baselined, old, records, delivered, lost>>, AtHand' = AtHand
  PROVE  UNCHANGED Life!vars
<1>1. KeysOf(old)' = KeysOf(old)
  BY DEF KeysOf
<1> QED
  BY <1>1 DEF Life!vars, AtHand

\* The steps of a round that look for accounts and messages are not seen.
LEMMA LifeQuiet ==
  ASSUME TypeOK, OneRound, OneRound', NEW r \in Rounds,
         \/ ListAccounts(r) \/ NextAccount(r) \/ RoundEnds(r) \/ AnswerExpired(r)
         \/ RefreshReturns(r) \/ Lookup(r) \/ ForwardDone(r) \/ ListFails(r) \/ LookupFails(r)
  PROVE  UNCHANGED Life!vars
<1>1. RoundStep(r) \/ RoundFault(r)
  BY DEF RoundStep, RoundFault
<1>2. UNCHANGED <<baselined, old, records, delivered, lost>> /\ pc[r] # "save" /\ pc'[r] # "save"
  BY DEF ListAccounts, NextAccount, RoundEnds, AnswerExpired, RefreshReturns, Lookup, ForwardDone,
    ListFails, LookupFails, ghosts, locals, Goto, TypeOK
<1> QED
  BY <1>1, <1>2, EmptyHands, LifeStutters

\* A first answer is a first look, any other answer is not seen.
LEMMA LifeAnswer ==
  ASSUME BaseInv, BaseInv', NEW r \in Rounds, Answer(r) \/ AnswerFails(r)
  PROVE  [Life!Next]_(Life!vars)
<1>1. TypeOK /\ OneRound /\ OneRound' /\ (RoundStep(r) \/ RoundFault(r))
  BY DEF BaseInv, DedupInv, RoundStep, RoundFault
<1>2. pc[r] = "fetch" /\ pc'[r] # "save" /\ acct[r] \in Accounts
  BY <1>1 DEF Answer, AnswerFails, Continue, Goto, TypeOK
<1>3. AtHand = {} /\ AtHand' = {}
  BY <1>1, <1>2, EmptyHands
<1>4. UNCHANGED <<baselined, records, delivered>>
  BY DEF Answer, AnswerFails
<1>5. CASE ~first[r]
  BY <1>1, <1>3, <1>4, <1>5, LifeStutters DEF Answer, AnswerFails, FirstSight, Lose
<1>6. CASE first[r]
  <2> DEFINE ks == KeysOf(Of(acct[r]))
             gone == IF AnswerFails(r) THEN ks \ records ELSE {}
  <2>1. acct[r] \notin baselined
    BY <1>2, <1>6 DEF BaseInv, RoundAccount
  <2>2. ks \in SUBSET Keys /\ gone \in SUBSET Keys /\ gone \subseteq ks \ records
    <3>1. Of(acct[r]) \subseteq Messages
      BY <1>1 DEF Of, TypeOK
    <3>2. ks \subseteq Keys
      BY <3>1, KeyOwner DEF KeysOf
    <3> QED
      BY <3>2
  <2>3. \A k \in ks : [j \in Keys |-> j[1]][k] = acct[r]
    BY <1>1, KeyOwner DEF KeysOf, Of, TypeOK
  <2>4. KeysOf(old)' = KeysOf(old) \cup ks
    BY <1>6 DEF Answer, AnswerFails, FirstSight, KeysOf
  <2>5. lost' = lost \cup gone
    BY <1>6 DEF Answer, AnswerFails, Lose
  <2>6. Life!Look(acct[r], ks, gone)
    BY <1>3, <1>4, <2>1, <2>2, <2>3, <2>4, <2>5 DEF Life!Look, AtHand
  <2> QED
    BY <1>2, <2>2, <2>6 DEF Life!Next
<1> QED
  BY <1>5, <1>6

\* The baseline settles history, and opens the account when all of it is settled.
LEMMA LifeBaseline ==
  ASSUME BaseInv, BaseInv', NEW r \in Rounds,
         BaselineSaves(r) \/ BaselineSaveFails(r) \/ BaselineDone(r)
  PROVE  [Life!Next]_(Life!vars)
<1>1. TypeOK /\ OneRound /\ OneRound' /\ (RoundStep(r) \/ RoundFault(r))
  BY DEF BaseInv, DedupInv, RoundStep, RoundFault
<1>2. pc[r] = "baseline" /\ pc'[r] # "save" /\ acct[r] \in Accounts
  BY <1>1 DEF BaselineSaves, BaselineSaveFails, BaselineDone, Goto, TypeOK
<1>3. AtHand = {} /\ AtHand' = {}
  BY <1>1, <1>2, EmptyHands
<1>4. UNCHANGED <<old, delivered>> /\ KeysOf(old)' = KeysOf(old)
  BY DEF BaselineSaves, BaselineSaveFails, BaselineDone, ghosts, KeysOf
<1>5. \A m \in batch[r] :
        /\ m \in Messages /\ Key(m) \in Keys /\ Key(m) \in KeysOf(old)
        /\ [k \in Keys |-> k[1]][Key(m)] \notin baselined
  <2>1. batch[r] \subseteq old /\ batch[r] \subseteq Messages
    BY <1>1, <1>2 DEF BaseInv, DedupInv, BaselineIsOld, TypeOK
  <2>2. \A m \in batch[r] : AccountOf[m] \notin baselined
    BY <1>2 DEF BaseInv, RoundAccount
  <2> QED
    BY <2>1, <2>2, KeyOwner DEF KeysOf
<1>6. CASE BaselineSaves(r)
  <2>1. PICK m \in batch[r] : records' = records \cup {Key(m)}
    BY <1>6 DEF BaselineSaves
  <2>2. Life!Keep(Key(m))
    BY <1>3, <1>4, <1>5, <1>6, <2>1 DEF BaselineSaves, ghosts, Life!Keep, AtHand
  <2> QED
    BY <1>5, <2>2 DEF Life!Next
<1>7. CASE BaselineSaveFails(r)
  <2>1. PICK m \in batch[r] : lost' = lost \cup ({Key(m)} \ records)
    BY <1>7 DEF BaselineSaveFails, Lose
  <2>2. CASE Key(m) \in records
    BY <1>3, <1>4, <1>7, <2>1, <2>2, LifeStutters DEF BaselineSaveFails
  <2>3. CASE Key(m) \notin records
    <3>1. Life!Miss(Key(m))
      BY <1>3, <1>4, <1>5, <1>7, <2>1, <2>3 DEF BaselineSaveFails, Life!Miss, AtHand
    <3> QED
      BY <1>5, <3>1 DEF Life!Next
  <2> QED
    BY <2>2, <2>3
<1>8. CASE BaselineDone(r)
  <2>1. \A m \in old : AccountOf[m] = acct[r] => Key(m) \in records \cup lost
    BY <1>2, <1>8 DEF BaselineDone, BaseInv, OldIsKept
  <2>2. \A k \in KeysOf(old) :
          [j \in Keys |-> j[1]][k] = acct[r] => k \in records \cup lost
    <3>1. SUFFICES ASSUME NEW m \in old, [j \in Keys |-> j[1]][Key(m)] = acct[r]
                   PROVE  Key(m) \in records \cup lost
      BY DEF KeysOf
    <3>2. AccountOf[m] = acct[r]
      BY <1>1, <3>1, KeyOwner DEF TypeOK
    <3> QED
      BY <2>1, <3>2
  <2>3. Life!Open(acct[r])
    BY <1>3, <1>4, <1>8, <2>2 DEF BaselineDone, ghosts, Life!Open, AtHand
  <2> QED
    BY <1>2, <2>3 DEF Life!Next
<1> QED
  BY <1>6, <1>7, <1>8

\* A push shows the message, also one whose failure is hidden; a failing push that throws
\* is not seen.
LEMMA LifePush ==
  ASSUME BaseInv, BaseInv', NEW r \in Rounds, Push(r) \/ PushFails(r)
  PROVE  [Life!Next]_(Life!vars)
<1>1. TypeOK /\ OneRound /\ OneRound' /\ (RoundStep(r) \/ RoundFault(r))
  BY DEF BaseInv, DedupInv, RoundStep, RoundFault
<1>2. pc[r] = "push" /\ msg[r] \in Messages /\ AtHand = {}
  BY <1>1, EmptyHands DEF Push, PushFails, TypeOK
<1>3. UNCHANGED <<baselined, records, old, lost>> /\ KeysOf(old)' = KeysOf(old)
  BY DEF Push, PushFails, KeysOf
<1>4. CASE pc'[r] = "save"
  <2>0. PICK k \in Keys : k = Key(msg[r])
    BY <1>2, KeyOwner
  <2>1. AtHand' = {k}
    <3>1. msg' = msg
      BY <1>1, <1>4 DEF Push, PushFails, locals, Goto, TypeOK
    <3>2. \A q \in Rounds : pc'[q] = "save" => q = r
      BY <1>1, <1>4 DEF OneRound
    <3> QED
      BY <1>4, <2>0, <3>1, <3>2 DEF AtHand
  <2>2. [j \in Keys |-> j[1]][k] \in baselined
    BY <1>2, <2>0, KeyOwner DEF BaseInv, RoundAccount
  <2>3. k \notin records
    BY <1>2, <2>0 DEF BaseInv, DedupInv, RoundKnows
  <2>4. k \in delivered => k \in lost
    BY <1>1, <1>2, <2>0, <2>3 DEF BaseInv, DedupInv, DeliveredRecorded, OneRound
  <2>5. k \in KeysOf(old) => k \in lost
    <3>1. SUFFICES ASSUME NEW m \in old, Key(m) = k PROVE k \in lost
      BY DEF KeysOf
    <3>2. AccountOf[m] \in baselined
      BY <1>1, <1>2, <2>0, <2>2, <3>1, KeyOwner DEF TypeOK
    <3> QED
      BY <2>3, <3>1, <3>2 DEF BaseInv, OldIsKept
  <2>6. delivered' \in {delivered, delivered \cup {k}}
    BY <2>0 DEF Push, PushFails
  <2>7. Life!Show(k)
    BY <1>2, <1>3, <2>1, <2>2, <2>3, <2>4, <2>5, <2>6 DEF Life!Show, AtHand
  <2> QED
    BY <2>7 DEF Life!Next
<1>5. CASE pc'[r] # "save"
  <2>1. delivered' = delivered /\ AtHand' = {}
    BY <1>1, <1>5, EmptyHands DEF Push, PushFails, Goto, TypeOK
  <2> QED
    BY <1>2, <1>3, <2>1, LifeStutters
<1> QED
  BY <1>4, <1>5

\* A message that was pushed is recorded or dropped.
LEMMA LifeSave ==
  ASSUME BaseInv, BaseInv', NEW r \in Rounds, Save(r) \/ SaveFails(r)
  PROVE  Life!Next
<1>1. TypeOK /\ OneRound /\ OneRound' /\ (RoundStep(r) \/ RoundFault(r))
  BY DEF BaseInv, DedupInv, RoundStep, RoundFault
<1>2. pc[r] = "save" /\ pc'[r] # "save"
  BY <1>1 DEF Save, SaveFails, Goto, TypeOK
<1>3. AtHand = {Key(msg[r])} /\ AtHand' = {}
  BY <1>1, <1>2, HandOfRound, EmptyHands
<1>4. UNCHANGED <<baselined, old, delivered>> /\ KeysOf(old)' = KeysOf(old)
  BY DEF Save, SaveFails, ghosts, KeysOf
<1>5. CASE Save(r)
  BY <1>3, <1>4, <1>5 DEF Save, ghosts, Life!Record, Life!Next, AtHand
<1>6. CASE SaveFails(r)
  BY <1>3, <1>4, <1>6 DEF SaveFails, Lose, Life!Drop, Life!Next, AtHand
<1> QED
  BY <1>5, <1>6

LEMMA LifeStep == ASSUME BaseInv, BaseInv', [Next]_vars PROVE [Life!Next]_(Life!vars)
<1>1. TypeOK /\ OneRound /\ OneRound'
  BY DEF BaseInv, DedupInv
<1>2. ASSUME NEW r \in Rounds, PollBegins(r) PROVE UNCHANGED Life!vars
  <2>1. AtHand' = AtHand
    BY <1>1, <1>2 DEF PollBegins, NextFiring, Goto, locals, AtHand, TypeOK
  <2> QED
    BY <1>2, <2>1, LifeStutters DEF PollBegins, ghosts
<1>3. ASSUME NEW r \in Rounds, RoundStep(r) \/ RoundFault(r) PROVE [Life!Next]_(Life!vars)
  BY <1>1, <1>3, LifeQuiet, LifeAnswer, LifeBaseline, LifePush, LifeSave DEF RoundStep, RoundFault
<1>4. CASE World \/ UNCHANGED vars
  <2>1. CASE UNCHANGED <<polling, baselined, records, pc, locals, ghosts>>
    <3>1. AtHand' = AtHand
      BY <2>1 DEF locals, AtHand
    <3> QED
      BY <2>1, <3>1, LifeStutters DEF ghosts
  <2>2. CASE Crash
    <3>1. AtHand' = {} /\ lost' = lost \cup AtHand
      BY <2>2 DEF Crash, Lose, AtHand
    <3>2. KeysOf(old)' = KeysOf(old)
      BY <2>2 DEF Crash, KeysOf
    <3>3. Life!Restart
      BY <2>2, <3>1, <3>2 DEF Crash, Life!Restart, AtHand
    <3> QED
      BY <3>3 DEF Life!Next
  <2> QED
    BY <1>4, <2>1, <2>2, WorldLeavesRounds
<1> QED
  BY <1>2, <1>3, <1>4 DEF Next

\* The forwarding implements MessageLife, with failing calls, restarts, and changes of
\* accounts and sessions at any time.
THEOREM MessageLifeImplemented == Spec => ImplementsMessageLife
<1>1. Init => Life!Init
  BY DEF Init, Life!Init, KeysOf
<1>2. BaseInv /\ BaseInv' /\ [Next]_vars => [Life!Next]_(Life!vars)
  BY LifeStep
<1> QED
  BY <1>1, <1>2, BaseInvHolds, PTL DEF Spec, ImplementsMessageLife, Life!Spec
=============================================================================
