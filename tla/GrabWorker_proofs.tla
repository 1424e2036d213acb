-------------------------- MODULE GrabWorker_proofs --------------------------
(***************************************************************************)
(* Theorems about GrabWorker for every set of seats, every list of         *)
(* preferences and every choice of pauses and limits that is ordered like  *)
(* the code's.                                                             *)
(***************************************************************************)
EXTENDS GrabWorker, FiniteSetTheorems, TLAPS

\* The candidates of a blind run: never used up.
QueueLives ==
  /\ Blind <=> queue # <<>>
  /\ pc \in {"start", "preparse", "search", "pick"} => ~Blind
  /\ pc = "confirm" => Blind

\* What the run knows of a booking, and what it has told, by where it is.
KnowsByPlace ==
  /\ pc \in {"log", "succeed"} => known # None
  /\ pc \notin {"log", "succeed", "tell", "done"} => known = None
  /\ pc \notin {"tell", "done"} => verdict = "none"
  /\ pc = "tell" => verdict # "none"

RunInv == TypeOK /\ QueueLives /\ KnowsByPlace /\ EndHasVerdict

LEMMA EntriesType == \A e \in Entries : e \in Seq(Seats) /\ e # <<>>
<1> SUFFICES ASSUME NEW e \in Entries PROVE e \in Seq(Seats) /\ e # <<>>
  OBVIOUS
<1>1. PICK n \in 1..Len(Preferred) : e \in [1..n -> Seats]
  BY DEF Entries
<1>2. n \in Nat /\ n > 0
  BY <1>1, WorkerAssumption DEF WorkerAssumption
<1> QED
  BY <1>1, <1>2

LEMMA ConstantsAreTimes ==
  /\ HighUntil \in Nat /\ Deadline \in Nat /\ FirstFire \in Nat /\ DegradeAfter \in Nat
  /\ UnknownDegrade \in Nat /\ NetworkLimit \in Nat
  /\ HighFreq \in Nat /\ LowFreq \in Nat /\ RateLimit \in Nat /\ QuickRetry \in Nat
  /\ BlindPause \in Nat /\ BlindRateLimit \in Nat /\ BlindNetwork \in Nat
BY WorkerAssumption DEF WorkerAssumption, Pauses

LEMMA ClampType == \A t, d \in Nat : Clamp(t) \in Nat /\ Clamp(t + d) \in Nat
BY ConstantsAreTimes DEF Clamp

LEMMA SearchPauseType == \A c \in Categories : \A n, u \in Nat : SearchPause(c, n, u) \in Nat
BY ConstantsAreTimes DEF SearchPause, Phase

LEMMA LeastPauseType == \A c \in Categories : LeastPause(c) \in Nat
BY ConstantsAreTimes DEF LeastPause, BlindLeast, SearchLeast

LEMMA InvInit == Init => RunInv
<1> SUFFICES ASSUME Init PROVE RunInv
  OBVIOUS
<1>1. now \in Nat
  BY WorkerAssumption DEF WorkerAssumption, Init
<1>2. TypeOK
  <2>1. strict \in BOOLEAN /\ gaveUp \in BOOLEAN /\ cancel \in BOOLEAN /\ threw \in BOOLEAN
    BY Zenon DEF Init
  <2>2. seat \in Seats \cup {None} /\ known \in Seats \cup {None}
    BY DEF Init
  <2>3. tried \in [Seats -> SUBSET Seats] /\ entry \in Seq(Seats) /\ queue \in Seq(Seats)
    BY DEF Init
  <2>4. pc = "start" /\ verdict = "none" /\ cands = {} /\ booked = {} /\ late = {} /\ answers = <<>>
    BY DEF Init
  <2>5. /\ wakeAt \in Nat /\ paceUntil \in Nat /\ attempt \in Nat /\ unknown \in Nat
        /\ notOpen \in Nat /\ network \in Nat /\ faults \in Nat
    BY DEF Init
  <2> QED
    BY <1>1, <2>1, <2>2, <2>3, <2>4, <2>5 DEF TypeOK
<1> QED
  BY <1>2 DEF Init, RunInv, QueueLives, KnowsByPlace, EndHasVerdict, Blind

LEMMA SearchRetriesType ==
  ASSUME TypeOK, NEW c \in Categories, SearchRetries(c)
  PROVE  /\ pc' = "pause" /\ gaveUp' = gaveUp
         /\ wakeAt' \in Nat /\ unknown' \in Nat /\ notOpen' \in Nat /\ network' \in Nat
<1>1. unknown' \in Nat /\ notOpen' \in Nat /\ network' \in Nat
  BY DEF TypeOK, SearchRetries
<1>2. SearchPause(c, notOpen', unknown') \in Nat
  BY <1>1, SearchPauseType
<1> QED
  BY <1>1, <1>2, ClampType DEF TypeOK, SearchRetries, PauseFor, Goto

\* The searching loop's way out of a round.
LEMMA SearchFailedType ==
  ASSUME TypeOK, NEW c \in Categories, SearchFailed(c)
  PROVE  /\ pc' \in {"refresh", "fail", "pause"} /\ gaveUp' = gaveUp
         /\ wakeAt' \in Nat /\ unknown' \in Nat /\ notOpen' \in Nat /\ network' \in Nat
<1>1. CASE c = "session_expired" /\ Goto("refresh") /\ UNCHANGED <<counts, wakeAt, gaveUp>>
  BY <1>1 DEF TypeOK, counts, Goto
<1>2. CASE c \notin Retryable /\ Goto("fail") /\ UNCHANGED <<counts, wakeAt, gaveUp>>
  BY <1>2 DEF TypeOK, counts, Goto
<1>3. CASE SearchRetries(c)
  BY <1>3, SearchRetriesType
<1> QED
  BY <1>1, <1>2, <1>3 DEF SearchFailed

LEMMA RotateType ==
  ASSUME TypeOK, queue # <<>>, Rotate
  PROVE  queue' \in Seq(Seats) /\ tried' \in [Seats -> SUBSET Seats] /\ queue' # <<>>
BY DEF TypeOK, Rotate

LEMMA BlindRefusedType ==
  ASSUME TypeOK, QueueLives, NEW c \in Categories, BlindRefused(c)
  PROVE  TypeOK'
<1>1. queue # <<>> /\ pc = "book" /\ seat' = seat
  BY DEF BlindRefused, BookAnswers, QueueLives
<1>2. /\ notOpen' \in Nat /\ network' \in Nat /\ unknown' \in Nat /\ paceUntil' \in Nat
  BY LeastPauseType DEF TypeOK, BlindRefused, NetworkErrors, BookAnswers, Pace
<1>3. /\ queue' \in Seq(Seats) /\ tried' \in [Seats -> SUBSET Seats]
      /\ pc' \in {"pause", "nap", "refresh", "confirm", "fail"} /\ wakeAt' \in Nat
  BY <1>1, RotateType, ClampType, ConstantsAreTimes
     DEF TypeOK, BlindRefused, Keep, PauseFor, Goto
<1>4. booked' \subseteq Seats /\ late' \subseteq Seats /\ known' = known
  BY <1>1 DEF TypeOK, BlindRefused, BookAnswers, Lost, lib
<1>5. UNCHANGED <<strict, cancel, threw, faults, entry, now, seat, cands, attempt, gaveUp, verdict>>
  BY DEF BlindRefused
<1>6. answers' \in Seq(Categories)
  BY DEF BlindRefused, TypeOK
<1> QED
  BY <1>1, <1>2, <1>3, <1>4, <1>5, <1>6 DEF TypeOK

LEMMA TypeNext == TypeOK /\ QueueLives /\ [Next]_vars => TypeOK'
<1> SUFFICES ASSUME TypeOK, QueueLives, [Next]_vars PROVE TypeOK'
  OBVIOUS
<1> USE DEF TypeOK, Goto, fixed,
          lib, counts, RoundBegins, Fault
<1>1. CASE Start
  BY <1>1 DEF Start
<1>2. CASE Preparsed
  BY <1>2, EntriesType, ConstantsAreTimes DEF Preparsed
<1>3. CASE PreparseFails
  BY <1>3 DEF PreparseFails
<1>4. CASE LoopExits
  BY <1>4 DEF LoopExits
<1>5. CASE LoopCancelled
  BY <1>5 DEF LoopCancelled
<1>6. CASE BlindBooks
  BY <1>6 DEF BlindBooks
<1>7. CASE Searches
  BY <1>7 DEF Searches
<1>8. CASE PauseOver
  BY <1>8 DEF PauseOver
<1>9. CASE PauseCancelled
  BY <1>9 DEF PauseCancelled
<1>10. CASE NapOver
  BY <1>10 DEF NapOver
<1>11. CASE BookAccepted
  BY <1>11 DEF BookAccepted
<1>12. CASE \E s \in Seats : LateAccept(s)
  BY <1>12 DEF LateAccept
<1>13. CASE \E free \in SUBSET Seats : SearchFinds(free)
  BY <1>13 DEF SearchFinds, Candidates
<1>14. ASSUME NEW c \in Categories, SearchFails(c) PROVE TypeOK'
  BY <1>14, SearchFailedType, LeastPauseType DEF SearchFails, Pace
<1>15. ASSUME NEW c \in Categories, SearchRefused(c) PROVE TypeOK'
  <2>1. booked' \subseteq Seats /\ late' \subseteq Seats /\ known' = known
    BY <1>15 DEF SearchRefused, BookAnswers, Lost
  <2>2. paceUntil' \in Nat
    BY <1>15, LeastPauseType DEF SearchRefused, BookAnswers, Pace
  <2>3. /\ wakeAt' \in Nat /\ unknown' \in Nat /\ notOpen' \in Nat /\ network' \in Nat
        /\ gaveUp' = gaveUp /\ pc' \in {"pick", "refresh", "fail", "pause"}
        /\ cands' \subseteq Seats /\ (pc' = "pick" => cands' # {})
    BY <1>15, SearchFailedType DEF SearchRefused
  <2>4. UNCHANGED <<fixed, entry, now, queue, seat, attempt, verdict, tried>>
    BY <1>15 DEF SearchRefused
  <2> QED
    BY <2>1, <2>2, <2>3, <2>4
<1>16. ASSUME NEW c \in Categories, BlindRefused(c) PROVE TypeOK'
  BY <1>16, BlindRefusedType
<1>17. CASE SearchBooks
  BY <1>17 DEF SearchBooks
<1>18. CASE ConfirmFree
  BY <1>18, ClampType, ConstantsAreTimes DEF ConfirmFree, PauseFor
<1>19. CASE ConfirmNotFree
  BY <1>19, RotateType, ClampType, ConstantsAreTimes DEF ConfirmNotFree, PauseFor, QueueLives
<1>20. CASE RefreshDone
  <2>1. CASE Blind
    BY <1>20, <2>1 DEF RefreshDone
  <2>2. CASE ~Blind
    BY <1>20, <2>2, SearchRetriesType DEF RefreshDone, Categories
  <2> QED
    BY <2>1, <2>2
<1>21. CASE RefreshFails
  BY <1>21 DEF RefreshFails
<1>22. CASE Logged \/ MarkSuccess \/ MarkFailed \/ Tell
  BY <1>22 DEF Logged, MarkSuccess, MarkFailed, Tell
<1>23. CASE Throws
  <2>1. threw' \in BOOLEAN
    BY <1>23, Zenon DEF Throws
  <2>2. /\ faults' = faults + 1 /\ pc' = "done"
        /\ UNCHANGED <<strict, cancel, answers, lib, counts, entry, now, wakeAt, queue, seat, cands, attempt,
                       gaveUp, verdict, paceUntil, tried>>
    BY <1>23, Zenon DEF Throws
  <2> QED
    BY <2>1, <2>2
<1>24. CASE UserCancels
  <2>1. cancel' \in BOOLEAN
    BY <1>24, Zenon DEF UserCancels
  <2>2. UNCHANGED <<strict, threw, faults, answers, lib, counts, entry, pc, now, wakeAt, queue, seat, cands,
                    attempt, gaveUp, verdict, paceUntil, tried>>
    BY <1>24, Zenon DEF UserCancels
  <2> QED
    BY <2>1, <2>2
<1>25. CASE Tick
  BY <1>25 DEF Tick
<1>26. CASE UNCHANGED vars
  BY <1>26 DEF vars
<1> QED
  BY <1>1, <1>2, <1>3, <1>4, <1>5, <1>6, <1>7, <1>8, <1>9, <1>10, <1>11, <1>12, <1>13, <1>14,
     <1>15, <1>16, <1>17, <1>18, <1>19, <1>20, <1>21, <1>22, <1>23, <1>24, <1>25, <1>26 DEF Next

\* Only a rotation and the preparsed entry change the queue.
LEMMA QueueLivesNext == TypeOK /\ QueueLives /\ [Next]_vars => QueueLives'
<1> SUFFICES ASSUME TypeOK, QueueLives, [Next]_vars PROVE QueueLives'
  OBVIOUS
<1> USE DEF QueueLives, Goto
<1>1. CASE Preparsed
  BY <1>1, EntriesType DEF Preparsed, Blind
<1>2. ASSUME NEW c \in Categories, BlindRefused(c) PROVE QueueLives'
  <2>1. Blind' /\ queue # <<>> /\ pc' \notin {"start", "preparse", "search", "pick"}
    BY <1>2 DEF BlindRefused, Blind, Goto
  <2>2. queue' # <<>>
    BY <1>2, <2>1, RotateType DEF BlindRefused, Keep
  <2> QED
    BY <2>1, <2>2
<1>3. CASE ConfirmNotFree
  <2>1. Blind' /\ queue # <<>> /\ pc' \notin {"start", "preparse", "search", "pick"}
    BY <1>3 DEF ConfirmNotFree, Blind, Goto
  <2>2. queue' # <<>>
    BY <1>3, <2>1, RotateType DEF ConfirmNotFree
  <2> QED
    BY <2>1, <2>2
<1>4. ASSUME NEW c \in Categories, SearchFails(c) \/ SearchRefused(c) PROVE QueueLives'
  <2>1. ~Blind /\ ~Blind' /\ queue' = queue
    BY <1>4 DEF SearchFails, SearchRefused, Blind
  <2>2. pc' \in {"refresh", "fail", "pause", "pick"}
    BY <1>4, SearchFailedType DEF SearchFails, SearchRefused, Goto
  <2> QED
    BY <2>1, <2>2
<1>5. ASSUME /\ UNCHANGED <<entry, queue>>
             /\ \/ pc' \notin {"start", "preparse", "search", "pick", "confirm"}
                \/ pc' = pc
                \/ pc' = "preparse" /\ pc = "start"
                \/ pc' \in {"search", "pick"} /\ ~Blind
      PROVE  QueueLives'
  BY <1>5 DEF Blind
<1>6. CASE Start \/ PreparseFails \/ LoopExits \/ LoopCancelled \/ BlindBooks \/ Searches
           \/ PauseOver \/ PauseCancelled \/ NapOver \/ BookAccepted
  BY <1>5, <1>6 DEF Start, PreparseFails, LoopExits, LoopCancelled, BlindBooks, Searches,
    PauseOver, PauseCancelled, NapOver, BookAccepted
<1>7. CASE \/ \E s \in Seats : LateAccept(s)
           \/ \E free \in SUBSET Seats : SearchFinds(free)
           \/ SearchBooks \/ ConfirmFree \/ RefreshDone \/ RefreshFails
  BY <1>5, <1>7 DEF LateAccept, SearchFinds, SearchBooks, ConfirmFree, RefreshDone, RefreshFails,
    SearchRetries
<1>8. CASE Logged \/ MarkSuccess \/ MarkFailed \/ Tell \/ Throws \/ UserCancels \/ Tick \/ UNCHANGED vars
  BY <1>5, <1>8, Zenon DEF Logged, MarkSuccess, MarkFailed, Tell, Throws, UserCancels, Tick, vars
<1> QED
  BY <1>1, <1>2, <1>3, <1>4, <1>6, <1>7, <1>8 DEF Next

\* Steps inside the loops: no booking is confirmed, nothing is told, the run goes on.
LEMMA RoundsKnowNothing ==
  ASSUME TypeOK, KnowsByPlace,
         \/ Start \/ Preparsed \/ PreparseFails \/ BlindBooks \/ Searches \/ PauseOver \/ NapOver
         \/ \E free \in SUBSET Seats : SearchFinds(free)
         \/ \E c \in Categories : SearchFails(c) \/ SearchRefused(c) \/ BlindRefused(c)
         \/ SearchBooks \/ ConfirmNotFree \/ RefreshDone \/ RefreshFails
  PROVE  /\ pc \notin {"log", "succeed", "fail", "tell", "done"}
         /\ pc' \notin {"log", "succeed", "tell", "done"}
         /\ UNCHANGED <<known, verdict, gaveUp>>
<1> USE DEF Goto, fixed, lib
<1>1. CASE Start \/ Preparsed \/ PreparseFails \/ BlindBooks \/ Searches \/ PauseOver \/ NapOver
           \/ (\E free \in SUBSET Seats : SearchFinds(free)) \/ SearchBooks \/ RefreshFails
           \/ ConfirmNotFree
  BY <1>1 DEF Start, Preparsed, PreparseFails, BlindBooks, Searches, PauseOver, NapOver,
    RoundBegins, SearchFinds, SearchBooks, RefreshFails, ConfirmNotFree
<1>2. CASE \E c \in Categories : SearchFails(c) \/ SearchRefused(c)
  <2>1. PICK c \in Categories : SearchFails(c) \/ SearchRefused(c)
    BY <1>2
  <2>2. pc \in {"search", "book"} /\ UNCHANGED <<known, verdict>>
    BY <2>1 DEF SearchFails, SearchRefused, BookAnswers, Lost
  <2>3. pc' \in {"refresh", "fail", "pause", "pick"} /\ gaveUp' = gaveUp
    BY <2>1, SearchFailedType DEF SearchFails, SearchRefused
  <2> QED
    BY <2>2, <2>3
<1>3. CASE \E c \in Categories : BlindRefused(c)
  BY <1>3 DEF BlindRefused, BookAnswers, Lost
<1>4. CASE RefreshDone
  BY <1>4 DEF RefreshDone, SearchRetries
<1> QED
  BY <1>1, <1>2, <1>3, <1>4

LEMMA KnowsNext == RunInv /\ [Next]_vars => KnowsByPlace' /\ EndHasVerdict'
<1> SUFFICES ASSUME RunInv, [Next]_vars
             PROVE  KnowsByPlace' /\ EndHasVerdict'
  OBVIOUS
<1> USE DEF RunInv, KnowsByPlace, EndHasVerdict, Goto
<1>1. ASSUME /\ pc \notin {"log", "succeed", "fail", "tell", "done"}
             /\ pc' \notin {"log", "succeed", "tell", "done"}
             /\ UNCHANGED <<known, verdict, gaveUp>>
      PROVE  KnowsByPlace' /\ EndHasVerdict'
  BY <1>1
<1>2. CASE LoopExits
  BY <1>2 DEF LoopExits, QueueLives, lib, fixed
<1>3. CASE LoopCancelled \/ PauseCancelled
  BY <1>3 DEF LoopCancelled, PauseCancelled, lib, fixed
<1>4. CASE BookAccepted
  BY <1>4, WorkerAssumption DEF BookAccepted, WorkerAssumption, TypeOK
<1>5. CASE \E s \in Seats : LateAccept(s)
  BY <1>5 DEF LateAccept, fixed
<1>6. CASE ConfirmFree
  BY <1>6 DEF ConfirmFree, lib
<1>7. CASE Logged \/ MarkSuccess \/ MarkFailed \/ Tell
  BY <1>7 DEF Logged, MarkSuccess, MarkFailed, Tell, lib
<1>8. CASE Throws
  <2>1. threw' /\ pc' = "done" /\ UNCHANGED <<lib, verdict, gaveUp, seat>>
    BY <1>8, Zenon DEF Throws
  <2> QED
    BY <2>1 DEF lib
<1>9. CASE UserCancels
  <2>1. pc # "done" /\ UNCHANGED <<lib, verdict, gaveUp, seat, pc>>
    BY <1>9, Zenon DEF UserCancels
  <2> QED
    BY <2>1 DEF lib
<1>10. CASE Tick \/ UNCHANGED vars
  BY <1>10 DEF Tick, vars, lib, fixed
<1>11. CASE \/ Start \/ Preparsed \/ PreparseFails \/ BlindBooks \/ Searches \/ PauseOver \/ NapOver
            \/ \E free \in SUBSET Seats : SearchFinds(free)
            \/ \E c \in Categories : SearchFails(c) \/ SearchRefused(c) \/ BlindRefused(c)
            \/ SearchBooks \/ ConfirmNotFree \/ RefreshDone \/ RefreshFails
  BY <1>1, <1>11, RoundsKnowNothing
<1> QED
  BY <1>2, <1>3, <1>4, <1>5, <1>6, <1>7, <1>8, <1>9, <1>10, <1>11 DEF Next

LEMMA RunInvHolds == Spec => []RunInv
<1>1. RunInv /\ [Next]_vars => RunInv'
  BY TypeNext, QueueLivesNext, KnowsNext DEF RunInv
<1> QED
  BY InvInit, <1>1, PTL DEF Spec

\* Every variable keeps its type; a round that books has its seat and its candidates.
THEOREM WorkerTypeCorrect == Spec => []TypeOK
<1>1. RunInv => TypeOK
  BY DEF RunInv
<1> QED
  BY <1>1, RunInvHolds, PTL

\* executeGrab returns with a final status written, or was cancelled, or has thrown: the
\* queue of a blind run is never used up, so the loop that tells nothing then is not left.
THEOREM EndHasVerdictHolds == Spec => []EndHasVerdict
<1>1. RunInv => EndHasVerdict
  BY DEF RunInv
<1> QED
  BY <1>1, RunInvHolds, PTL

-----------------------------------------------------------------------------
(* The pace.                                                                 *)

\* A pause lasts until the next round is allowed, or to the end of the window; while the
\* session is renewed or the seat confirmed, the pause to come is known to suffice.
PaceInv ==
  /\ pc \in {"start", "preparse"} => paceUntil = 0
  /\ pc = "loop" => now >= paceUntil \/ now >= Deadline \/ cancel
  /\ pc \in {"pause", "nap"} => wakeAt >= paceUntil \/ wakeAt >= Deadline
  /\ pc = "refresh" => paceUntil <= now + (IF Blind THEN 0 ELSE HighFreq)
  /\ pc = "confirm" => paceUntil <= now + BlindNetwork

LEMMA ConstantsOrdered ==
  /\ QuickRetry <= HighFreq /\ HighFreq <= LowFreq
  /\ BlindNetwork <= BlindPause /\ BlindPause <= LowFreq
BY WorkerAssumption DEF WorkerAssumption

LEMMA ClampSuffices ==
  \A p, t \in Nat : p <= t => Clamp(t) >= p \/ Clamp(t) >= Deadline
BY ConstantsAreTimes DEF Clamp

\* The counters the pause is chosen by have just been updated.
LEMMA RetryPauses ==
  ASSUME TypeOK, NEW c \in Categories, SearchRetries(c)
  PROVE  \A p \in Nat :
           p <= now + SearchLeast(c) \/ (p <= now + HighFreq /\ c = "session_expired") =>
             wakeAt' >= p \/ wakeAt' >= Deadline
<1> SUFFICES ASSUME NEW p \in Nat,
                    p <= now + SearchLeast(c) \/ (p <= now + HighFreq /\ c = "session_expired")
             PROVE  wakeAt' >= p \/ wakeAt' >= Deadline
  OBVIOUS
<1>1. unknown' \in Nat /\ notOpen' \in Nat
  BY SearchRetriesType
<1>2. SearchPause(c, notOpen', unknown') \in Nat
  BY <1>1, SearchPauseType
<1>3. HighFreq <= Phase
  BY ConstantsOrdered, ConstantsAreTimes DEF Phase
<1>4. p <= now + SearchPause(c, notOpen', unknown')
  BY <1>1, <1>2, <1>3, ConstantsAreTimes, ConstantsOrdered
     DEF SearchPause, SearchLeast, Often, SearchRetries, Retryable, TypeOK, Categories, Phase
<1> QED
  BY <1>2, <1>4, ClampSuffices DEF SearchRetries, PauseFor, TypeOK

LEMMA SearchFailedPaced ==
  ASSUME TypeOK, ~Blind, NEW c \in Categories, SearchFailed(c), Pace(c), now' = now, Blind' = Blind
  PROVE  PaceInv'
<1>1. paceUntil' = now + SearchLeast(c) /\ paceUntil' \in Nat
  BY LeastPauseType DEF Pace, LeastPause, TypeOK
<1>2. CASE c = "session_expired" /\ Goto("refresh")
  BY <1>1, <1>2, ConstantsAreTimes DEF PaceInv, Goto, SearchLeast, Often, Retryable, TypeOK
<1>3. CASE c \notin Retryable /\ Goto("fail")
  BY <1>3 DEF PaceInv, Goto
<1>4. CASE SearchRetries(c)
  <2>1. wakeAt' >= paceUntil' \/ wakeAt' >= Deadline
    <3>1. SearchLeast(c) \in Nat
      BY LeastPauseType DEF LeastPause
    <3> QED
      BY <1>1, <1>4, <3>1, RetryPauses DEF TypeOK
  <2> QED
    BY <1>4, <2>1 DEF PaceInv, SearchRetries, Goto
<1> QED
  BY <1>2, <1>3, <1>4 DEF SearchFailed

LEMMA BlindRefusedPaced ==
  ASSUME TypeOK, NEW c \in Categories, BlindRefused(c)
  PROVE  PaceInv'
<1>1. /\ paceUntil' = now + BlindLeast(c) /\ paceUntil' \in Nat /\ now' = now /\ Blind /\ Blind'
      /\ BlindLeast(c) \in Nat
  BY LeastPauseType DEF Pace, LeastPause, TypeOK, BlindRefused, BookAnswers, Blind
<1>2. CASE c = "window_not_open"
  <2> DEFINE d == IF notOpen' < DegradeAfter THEN BlindPause ELSE LowFreq
  <2>1. wakeAt' = Clamp(now + d) /\ pc' \in {"pause", "nap"}
    BY <1>2 DEF BlindRefused, PauseFor, Goto, Retryable
  <2>2. d \in Nat /\ d >= BlindLeast(c)
    BY <1>2, ConstantsAreTimes, ConstantsOrdered
       DEF BlindRefused, BlindLeast, Often, Retryable, TypeOK
  <2> HIDE DEF d
  <2> QED
    BY <1>1, <2>1, <2>2, ClampSuffices DEF PaceInv, TypeOK
<1>3. CASE c \in {"rate_limit", "seat_unavailable"}
  <2> DEFINE d == IF c = "rate_limit" THEN BlindRateLimit ELSE BlindPause
  <2>1. wakeAt' = Clamp(now + d) /\ pc' \in {"pause", "nap"}
    BY <1>3 DEF BlindRefused, PauseFor, Goto, Retryable
  <2>2. d \in Nat /\ d >= BlindLeast(c)
    BY <1>3, ConstantsAreTimes, ConstantsOrdered
       DEF BlindRefused, BlindLeast, Often, Retryable, TypeOK
  <2> HIDE DEF d
  <2> QED
    BY <1>1, <2>1, <2>2, ClampSuffices DEF PaceInv, TypeOK
<1>4. CASE c = "unknown"
  <2> DEFINE d == IF unknown' >= UnknownDegrade THEN LowFreq ELSE BlindPause
  <2>1. wakeAt' = Clamp(now + d) /\ pc' \in {"pause", "nap"}
    BY <1>4 DEF BlindRefused, PauseFor, Goto, Retryable
  <2>2. d \in Nat /\ d >= BlindLeast(c)
    BY <1>4, ConstantsAreTimes, ConstantsOrdered
       DEF BlindRefused, BlindLeast, Often, Retryable, TypeOK
  <2> HIDE DEF d
  <2> QED
    BY <1>1, <2>1, <2>2, ClampSuffices DEF PaceInv, TypeOK
<1>5. CASE c = "session_expired"
  BY <1>1, <1>5 DEF PaceInv, BlindRefused, Goto, BlindLeast, Retryable, TypeOK
<1>6. CASE c = "network"
  BY <1>1, <1>6 DEF PaceInv, BlindRefused, Goto, BlindLeast, Retryable, TypeOK
<1>7. CASE c \notin Retryable
  BY <1>7 DEF PaceInv, BlindRefused, Goto, Retryable
<1> QED
  BY <1>2, <1>3, <1>4, <1>5, <1>6, <1>7 DEF Retryable

LEMMA PaceNext == RunInv /\ PaceInv /\ [Next]_vars => PaceInv'
<1> SUFFICES ASSUME TypeOK, QueueLives, PaceInv, [Next]_vars PROVE PaceInv'
  BY DEF RunInv
<1> USE DEF Goto
<1>1. CASE Start \/ PreparseFails
  BY <1>1 DEF Start, PreparseFails, PaceInv, TypeOK
<1>2. CASE Preparsed
  BY <1>2, ConstantsAreTimes DEF Preparsed, PaceInv, TypeOK
<1>3. CASE BlindBooks \/ Searches \/ BookAccepted \/ SearchBooks \/ RefreshFails
           \/ \E free \in SUBSET Seats : SearchFinds(free)
  BY <1>3 DEF BlindBooks, Searches, BookAccepted, SearchBooks, RefreshFails, SearchFinds, PaceInv
<1>4. CASE LoopExits \/ LoopCancelled \/ PauseCancelled
  BY <1>4 DEF LoopExits, LoopCancelled, PauseCancelled, PaceInv
<1>5. CASE PauseOver \/ NapOver
  <2>1. pc' = "loop" /\ UNCHANGED <<now, paceUntil, cancel>> /\ (now >= wakeAt \/ cancel)
    BY <1>5 DEF PauseOver, NapOver, fixed
  <2>2. wakeAt >= paceUntil \/ wakeAt >= Deadline
    BY <1>5 DEF PauseOver, NapOver, PaceInv
  <2> QED
    BY <2>1, <2>2, ConstantsAreTimes DEF PaceInv, TypeOK
<1>6. CASE \E s \in Seats : LateAccept(s)
  BY <1>6 DEF LateAccept, PaceInv, fixed, Blind
<1>7. ASSUME NEW c \in Categories, SearchFails(c) PROVE PaceInv'
  <2>1. ~Blind /\ Blind' = Blind /\ now' = now
    BY <1>7 DEF SearchFails, QueueLives, Blind
  <2> QED
    BY <1>7, <2>1, SearchFailedPaced DEF SearchFails
<1>8. ASSUME NEW c \in Categories, SearchRefused(c) PROVE PaceInv'
  <2>1. ~Blind /\ Blind' = Blind /\ now' = now /\ Pace(c)
    BY <1>8 DEF SearchRefused, BookAnswers, Blind
  <2>2. CASE pc' = "pick"
    BY <2>2 DEF PaceInv
  <2>3. CASE SearchFailed(c)
    BY <2>1, <2>3, SearchFailedPaced
  <2> QED
    BY <1>8, <2>2, <2>3 DEF SearchRefused
<1>9. CASE \E c \in Categories : BlindRefused(c)
  BY <1>9, BlindRefusedPaced
<1>10. CASE ConfirmFree
  <2>1. \/ pc' = "fail"
        \/ pc' = "nap" /\ wakeAt' = Clamp(now + BlindNetwork)
    BY <1>10 DEF ConfirmFree, PauseFor
  <2>2. UNCHANGED <<now, paceUntil>> /\ paceUntil <= now + BlindNetwork
    BY <1>10 DEF ConfirmFree, PaceInv
  <2> QED
    BY <2>1, <2>2, ClampSuffices, ConstantsAreTimes DEF PaceInv, TypeOK
<1>11. CASE ConfirmNotFree
  <2>1. pc' = "nap" /\ wakeAt' = Clamp(now + BlindPause)
    BY <1>11 DEF ConfirmNotFree, PauseFor
  <2>2. UNCHANGED <<now, paceUntil>> /\ paceUntil <= now + BlindPause
    BY <1>11, ConstantsOrdered, ConstantsAreTimes DEF ConfirmNotFree, PaceInv, TypeOK
  <2> QED
    BY <2>1, <2>2, ClampSuffices, ConstantsAreTimes DEF PaceInv, TypeOK
<1>12. CASE RefreshDone
  <2>1. UNCHANGED <<now, paceUntil>> /\ paceUntil \in Nat /\ pc = "refresh"
    BY <1>12 DEF RefreshDone, TypeOK
  <2>2. CASE Blind
    BY <1>12, <2>1, <2>2 DEF RefreshDone, PaceInv, TypeOK
  <2>3. CASE ~Blind
    <3>1. SearchRetries("session_expired") /\ "session_expired" \in Categories
      BY <1>12, <2>3 DEF RefreshDone, Categories
    <3>2. wakeAt' >= paceUntil' \/ wakeAt' >= Deadline
      BY <2>1, <2>3, <3>1, RetryPauses DEF PaceInv
    <3> QED
      BY <3>1, <3>2 DEF PaceInv, SearchRetries
  <2> QED
    BY <2>2, <2>3
<1>13. CASE Logged \/ MarkSuccess \/ MarkFailed \/ Tell
  BY <1>13 DEF Logged, MarkSuccess, MarkFailed, Tell, PaceInv
<1>14. CASE Throws
  <2>1. pc' = "done"
    BY <1>14, Zenon DEF Throws
  <2> QED
    BY <2>1 DEF PaceInv
<1>15. CASE UserCancels
  <2>1. cancel' /\ UNCHANGED <<entry, pc, now, wakeAt, paceUntil>>
    BY <1>15, Zenon DEF UserCancels
  <2> QED
    BY <2>1 DEF PaceInv, Blind
<1>16. CASE Tick
  BY <1>16, ConstantsAreTimes DEF Tick, PaceInv, TypeOK, fixed, Blind
<1>17. CASE UNCHANGED vars
  BY <1>17 DEF vars, PaceInv, fixed, Blind
<1> QED
  BY <1>1, <1>2, <1>3, <1>4, <1>5, <1>6, <1>7, <1>8, <1>9, <1>10, <1>11, <1>12, <1>13, <1>14,
     <1>15, <1>16, <1>17 DEF Next

\* Rounds are counted when they start, and only then.
LEMMA RoundStartsOnly ==
  ASSUME [Next]_vars, RoundStarts
  PROVE  BlindBooks \/ Searches
<1>1. ASSUME UNCHANGED attempt PROVE FALSE
  BY <1>1 DEF RoundStarts
<1>2. CASE Start \/ Preparsed \/ PreparseFails \/ LoopExits \/ LoopCancelled \/ PauseOver
           \/ PauseCancelled \/ NapOver \/ BookAccepted \/ SearchBooks
           \/ (\E s \in Seats : LateAccept(s)) \/ \E free \in SUBSET Seats : SearchFinds(free)
  BY <1>1, <1>2 DEF Start, Preparsed, PreparseFails, LoopExits, LoopCancelled, PauseOver,
    PauseCancelled, NapOver, BookAccepted, SearchBooks, LateAccept, SearchFinds
<1>3. CASE \/ \E c \in Categories : SearchFails(c) \/ SearchRefused(c) \/ BlindRefused(c)
           \/ ConfirmFree \/ ConfirmNotFree \/ RefreshDone \/ RefreshFails
           \/ Logged \/ MarkSuccess \/ MarkFailed \/ Tell
  BY <1>1, <1>3 DEF SearchFails, SearchRefused, BlindRefused, ConfirmFree, ConfirmNotFree,
    RefreshDone, RefreshFails, Logged, MarkSuccess, MarkFailed, Tell
<1>4. CASE Throws \/ UserCancels \/ Tick \/ UNCHANGED vars
  BY <1>1, <1>4, Zenon DEF Throws, UserCancels, Tick, vars
<1> QED
  BY <1>2, <1>3, <1>4 DEF Next

\* The loops of runGrabTask and executeBlindGrab: after an answer no round starts before
\* the pause that its kind calls for is over, for any pauses ordered like the code's.
THEOREM PaceKeptHolds == Spec => PaceKept
<1>1. Init => PaceInv
  BY DEF Init, PaceInv
<1>2. ASSUME RunInv, PaceInv, [Next]_vars PROVE RoundStarts => now >= paceUntil
  <2>1. ASSUME RoundStarts PROVE pc = "loop" /\ now < Deadline /\ ~cancel
    BY <1>2, <2>1, RoundStartsOnly DEF BlindBooks, Searches, RoundBegins
  <2> QED
    BY <1>2, <2>1, ConstantsAreTimes DEF RunInv, TypeOK, PaceInv
<1> QED
  BY <1>1, <1>2, RunInvHolds, PaceNext, PTL DEF Spec, PaceKept

-----------------------------------------------------------------------------
(* The rotation.                                                             *)

\* The queue holds every seat of the entry once; those behind a seat have been tried since
\* it was sent to the back.
QueueInv ==
  /\ \A i, j \in 1..Len(queue) : queue[i] = queue[j] => i = j
  /\ \A i \in 1..Len(entry) : \E j \in 1..Len(queue) : queue[j] = entry[i]
  /\ \A i, j \in 1..Len(queue) : i < j => queue[j] \in tried[queue[i]]

\* The seat being tried is the first, and counts as tried for all.
FrontInv ==
  /\ pc \in {"start", "preparse"} => tried = [s \in Seats |-> Seats]
  /\ Blind /\ pc \in {"book", "confirm"} =>
       seat = queue[1] /\ \A s \in Seats : seat \in tried[s]

LEMMA EntriesDistinct ==
  ASSUME NEW e \in Entries PROVE \A i, j \in 1..Len(e) : e[i] = e[j] => i = j
<1>1. e \in Seq(Seats)
  BY EntriesType
<1>2. PICK at \in [1..Len(e) -> 1..Len(Preferred)] :
        /\ \A i, j \in 1..Len(e) : i < j => at[i] < at[j]
        /\ \A i \in 1..Len(e) : e[i] = Preferred[at[i]]
  BY DEF Entries
<1> SUFFICES ASSUME NEW i \in 1..Len(e), NEW j \in 1..Len(e), e[i] = e[j] PROVE i = j
  OBVIOUS
<1>3. at[i] \in 1..Len(Preferred) /\ at[j] \in 1..Len(Preferred)
  BY <1>2
<1>4. at[i] = at[j]
  BY <1>2, <1>3, WorkerAssumption DEF WorkerAssumption
<1>5. i \in Nat /\ j \in Nat /\ at[i] \in Nat /\ at[j] \in Nat
  BY <1>1, <1>3
<1>6. ~(i < j) /\ ~(j < i)
  BY <1>2, <1>4, <1>5
<1> QED
  BY <1>5, <1>6

LEMMA RotateKeeps ==
  ASSUME TypeOK, QueueInv, queue # <<>>, \A s \in Seats : queue[1] \in tried[s],
         Rotate, entry' = entry
  PROVE  QueueInv'
<1> DEFINE n == Len(queue)
<1>1. n \in Nat /\ n > 0 /\ \A i \in 1..n : queue[i] \in Seats
  BY DEF TypeOK
<1>2. /\ Len(queue') = n
      /\ \A i \in 1..n : queue'[i] = IF i = n THEN queue[1] ELSE queue[i + 1]
  BY <1>1 DEF Rotate, TypeOK
<1>3. /\ \A s \in Seats : s # queue[1] => tried'[s] = tried[s]
  BY <1>1 DEF Rotate, TypeOK
<1>4. \A i, j \in 1..n : queue'[i] = queue'[j] => i = j
  <2> SUFFICES ASSUME NEW i \in 1..n, NEW j \in 1..n, queue'[i] = queue'[j] PROVE i = j
    OBVIOUS
  <2> QED
    BY <1>1, <1>2 DEF QueueInv
<1>5. \A i \in 1..Len(entry') : \E j \in 1..n : queue'[j] = entry'[i]
  <2> SUFFICES ASSUME NEW i \in 1..Len(entry) PROVE \E j \in 1..n : queue'[j] = entry[i]
    OBVIOUS
  <2>1. PICK k \in 1..n : queue[k] = entry[i]
    BY DEF QueueInv
  <2>2. CASE k = 1
    BY <1>1, <1>2, <2>1, <2>2
  <2>3. CASE k # 1
    <3>1. k - 1 \in 1..n /\ k - 1 # n /\ (k - 1) + 1 = k
      BY <1>1, <2>3
    <3> QED
      BY <1>2, <2>1, <3>1
  <2> QED
    BY <2>2, <2>3
<1>6. \A i, j \in 1..n : i < j => queue'[j] \in tried'[queue'[i]]
  <2> SUFFICES ASSUME NEW i \in 1..n, NEW j \in 1..n, i < j
               PROVE  queue'[j] \in tried'[queue'[i]]
    OBVIOUS
  <2>1. i # n /\ i + 1 \in 1..n /\ i + 1 # 1
    BY <1>1
  <2>2. queue'[i] = queue[i + 1] /\ queue[i + 1] # queue[1] /\ queue[i + 1] \in Seats
    BY <1>1, <1>2, <2>1 DEF QueueInv
  <2>3. tried'[queue'[i]] = tried[queue[i + 1]]
    BY <1>3, <2>2
  <2>4. CASE j = n
    BY <1>2, <2>2, <2>3, <2>4
  <2>5. CASE j # n
    <3>1. j + 1 \in 1..n /\ i + 1 < j + 1 /\ queue'[j] = queue[j + 1]
      BY <1>1, <1>2, <2>5
    <3> QED
      BY <2>1, <2>3, <3>1 DEF QueueInv
  <2> QED
    BY <2>4, <2>5
<1> QED
  BY <1>2, <1>4, <1>5, <1>6 DEF QueueInv

LEMMA RotationNext == RunInv /\ QueueInv /\ FrontInv /\ [Next]_vars => QueueInv' /\ FrontInv'
<1> SUFFICES ASSUME TypeOK, QueueLives, QueueInv, FrontInv, [Next]_vars
             PROVE  QueueInv' /\ FrontInv'
  BY DEF RunInv
<1> USE DEF Goto
<1>1. ASSUME UNCHANGED <<entry, queue, tried>> PROVE QueueInv'
  BY <1>1 DEF QueueInv
<1>2. ASSUME UNCHANGED <<entry, queue, tried>>,
             \/ UNCHANGED <<pc, seat>>
             \/ pc = "start" /\ pc' = "preparse"
             \/ pc' \notin {"start", "preparse", "book", "confirm"}
      PROVE  QueueInv' /\ FrontInv'
  BY <1>1, <1>2 DEF FrontInv, Blind
<1>3. CASE Start \/ PreparseFails \/ LoopExits \/ LoopCancelled \/ Searches \/ PauseOver
           \/ PauseCancelled \/ NapOver \/ BookAccepted
  BY <1>2, <1>3 DEF Start, PreparseFails, LoopExits, LoopCancelled, Searches, PauseOver,
    PauseCancelled, NapOver, BookAccepted
<1>4. CASE \/ \E s \in Seats : LateAccept(s)
           \/ \E free \in SUBSET Seats : SearchFinds(free)
           \/ ConfirmFree \/ RefreshDone \/ RefreshFails \/ Logged \/ MarkSuccess \/ MarkFailed \/ Tell
  BY <1>2, <1>4 DEF LateAccept, SearchFinds, ConfirmFree, RefreshDone, RefreshFails,
    SearchRetries, Logged, MarkSuccess, MarkFailed, Tell
<1>5. CASE Throws \/ UserCancels \/ Tick \/ UNCHANGED vars
  <2>1. UNCHANGED <<entry, queue, tried>> /\ (pc' = "done" \/ UNCHANGED <<pc, seat>>)
    BY <1>5, Zenon DEF Throws, UserCancels, Tick, vars
  <2> QED
    BY <1>2, <2>1
<1>6. CASE Preparsed
  <2>1. queue' = entry' /\ entry' \in Entries /\ pc' = "pause"
        /\ tried' = [s \in Seats |-> Seats]
    BY <1>6 DEF Preparsed, FrontInv
  <2>2. entry' \in Seq(Seats) /\ \A i, j \in 1..Len(entry') : entry'[i] = entry'[j] => i = j
    BY <2>1, EntriesType, EntriesDistinct
  <2> QED
    BY <2>1, <2>2 DEF QueueInv, FrontInv
<1>7. CASE BlindBooks
  <2>1. UNCHANGED <<entry, queue>> /\ pc' = "book" /\ seat' = queue[1] /\ queue # <<>>
    BY <1>7 DEF BlindBooks, TypeOK
  <2>2. tried' = [s \in Seats |-> tried[s] \cup {seat'}]
    BY <1>7 DEF BlindBooks
  <2>3. \A i \in 1..Len(queue) : queue[i] \in Seats
    BY DEF TypeOK
  <2>4. QueueInv'
    BY <2>1, <2>2, <2>3 DEF QueueInv
  <2> QED
    BY <2>1, <2>2, <2>4 DEF FrontInv
<1>8. CASE SearchBooks \/ \E c \in Categories : SearchFails(c) \/ SearchRefused(c)
  <2>1. UNCHANGED <<entry, queue, tried>> /\ (~Blind \/ pc' # "book")
        /\ pc' \notin {"start", "preparse", "confirm"}
    <3>1. CASE SearchBooks
      BY <1>8, <3>1 DEF SearchBooks, QueueLives
    <3>2. CASE \E c \in Categories : SearchFails(c) \/ SearchRefused(c)
      BY <3>2, SearchFailedType DEF SearchFails, SearchRefused
    <3> QED
      BY <1>8, <3>1, <3>2
  <2> QED
    BY <1>1, <2>1 DEF FrontInv, Blind
<1>9. CASE ConfirmNotFree \/ \E c \in Categories : BlindRefused(c)
  <2>1. /\ Blind /\ entry' = entry /\ seat' = seat /\ pc \in {"book", "confirm"}
        /\ pc' \notin {"start", "preparse", "book"}
        /\ (Rotate /\ pc' # "confirm") \/ Keep
    BY <1>9 DEF ConfirmNotFree, BlindRefused, BookAnswers, QueueLives
  <2>2. queue # <<>> /\ \A s \in Seats : queue[1] \in tried[s]
    BY <2>1 DEF QueueLives, FrontInv
  <2>3. QueueInv'
    BY <1>1, <2>1, <2>2, RotateKeeps DEF Keep
  <2> QED
    BY <2>1, <2>3 DEF FrontInv, Keep, Blind
<1> QED
  BY <1>3, <1>4, <1>5, <1>6, <1>7, <1>8, <1>9 DEF Next

\* executeBlindGrab: a seat is tried again only after every other candidate, for any
\* number of candidates.
THEOREM RotationFairHolds == Spec => RotationFair
<1>1. Init => QueueInv /\ FrontInv
  BY DEF Init, QueueInv, FrontInv
<1>2. ASSUME RunInv, QueueInv, FrontInv, [Next]_vars
      PROVE  RoundStarts /\ Blind =>
               \A i \in 1..Len(entry) : entry[i] \in tried[seat'] \cup {seat'}
  <2> SUFFICES ASSUME RoundStarts, Blind, NEW i \in 1..Len(entry)
               PROVE  entry[i] \in tried[seat'] \cup {seat'}
    OBVIOUS
  <2>1. BlindBooks
    BY <1>2, RoundStartsOnly DEF Searches
  <2>2. seat' = queue[1] /\ queue # <<>> /\ queue \in Seq(Seats)
    BY <1>2, <2>1 DEF BlindBooks, RunInv, TypeOK
  <2>3. PICK j \in 1..Len(queue) : queue[j] = entry[i]
    BY <1>2 DEF QueueInv
  <2>4. j = 1 \/ 1 < j
    BY <2>2
  <2>5. 1 \in 1..Len(queue)
    BY <2>2
  <2> QED
    BY <1>2, <2>2, <2>3, <2>4, <2>5 DEF QueueInv
<1> QED
  BY <1>1, <1>2, RunInvHolds, RotationNext, PTL DEF Spec, RotationFair

-----------------------------------------------------------------------------
(* Giving up.                                                                *)

LEMMA SilenceIsFinite == TypeOK => IsFiniteSet(Silence)
<1> SUFFICES ASSUME TypeOK PROVE IsFiniteSet(Silence)
  OBVIOUS
<1>1. Len(answers) \in Nat
  BY DEF TypeOK
<1>2. IsFiniteSet(1..Len(answers))
  BY <1>1, FS_Interval
<1>3. Silence \subseteq 1..Len(answers)
  BY DEF Silence
<1> QED
  BY <1>2, <1>3, FS_Subset

\* What an answer does to the silence.
LEMMA SilenceAfter ==
  ASSUME TypeOK, NEW c \in Categories, answers' = Append(answers, c)
  PROVE  /\ c \in SignsOfLife => Silence' = {}
         /\ c = "network" => Silence' = Silence \cup {Len(answers) + 1}
         /\ c # "network" /\ c \notin SignsOfLife => Silence' = Silence
         /\ Len(answers) + 1 \notin Silence
<1> DEFINE n == Len(answers)
<1>1. /\ n \in Nat /\ Len(answers') = n + 1 /\ answers'[n + 1] = c
      /\ \A i \in 1..n : answers'[i] = answers[i]
  BY DEF TypeOK
<1>2. n + 1 \in 1..(n + 1) /\ n + 1 \notin 1..n /\ \A i \in 1..(n + 1) : n + 1 \in i..(n + 1)
  BY <1>1
<1>3. CASE c \in SignsOfLife
  <2>1. \A i \in 1..(n + 1) : \E j \in i..(n + 1) : answers'[j] \in SignsOfLife
    BY <1>1, <1>2, <1>3
  <2>2. Silence' = {}
    BY <1>1, <2>1 DEF Silence, SignsOfLife
  <2> QED
    BY <1>2, <1>3, <2>2 DEF Silence, SignsOfLife
<1>4. CASE c \notin SignsOfLife
  <2>1. \A i \in 1..n :
          (\A j \in i..(n + 1) : answers'[j] \notin SignsOfLife)
            <=> \A j \in i..n : answers[j] \notin SignsOfLife
    <3> SUFFICES ASSUME NEW i \in 1..n
                 PROVE  (\A j \in i..(n + 1) : answers'[j] \notin SignsOfLife)
                          <=> \A j \in i..n : answers[j] \notin SignsOfLife
      OBVIOUS
    <3>1. \A j \in i..(n + 1) : j = n + 1 \/ (j \in i..n /\ j \in 1..n)
      BY <1>1
    <3>2. \A j \in i..n : j \in i..(n + 1) /\ j \in 1..n
      BY <1>1
    <3> QED
      BY <1>1, <1>4, <3>1, <3>2
  <2>2. \A i \in 1..(n + 1) : i \in 1..n \/ i = n + 1
    BY <1>1
  <2>3. \A i \in 1..n : i \in 1..(n + 1)
    BY <1>1
  <2>4. \A j \in (n + 1)..(n + 1) : j = n + 1
    BY <1>1
  <2>5. Silence' = {i \in 1..(n + 1) :
                     answers'[i] = "network" /\ \A j \in i..(n + 1) : answers'[j] \notin SignsOfLife}
    BY <1>1 DEF Silence, SignsOfLife
  <2>6. \A i \in 1..n : i \in Silence' <=> i \in Silence
    BY <1>1, <2>1, <2>3, <2>5 DEF Silence
  <2>7. n + 1 \in Silence' <=> c = "network"
    BY <1>1, <1>2, <1>4, <2>4, <2>5
  <2>8. n + 1 \notin Silence /\ Silence \subseteq 1..n /\ Silence' \subseteq 1..(n + 1)
    BY <1>2, <2>5 DEF Silence
  <2>9. CASE c = "network"
    BY <2>2, <2>6, <2>7, <2>8, <2>9, <1>4
  <2>10. CASE c # "network"
    BY <2>2, <2>6, <2>7, <2>8, <2>10, <1>4
  <2> QED
    BY <2>9, <2>10
<1> QED
  BY <1>3, <1>4

\* The counter is the length of the silence; the loop goes on after a lost request only
\* below the limit, or with its seat sent to the back.
GiveUpInv ==
  /\ ~Blind => answers = <<>>
  /\ network = Cardinality(Silence)
  /\ LostAndFree =>
       \/ pc \in {"book", "confirm", "log", "succeed", "fail", "tell", "done"}
       \/ network < NetworkLimit

LEMMA NetworkCounts ==
  ASSUME TypeOK, network = Cardinality(Silence), NEW c \in Categories,
         answers' = Append(answers, c), network' = NetworkErrors(c)
  PROVE  network' = Cardinality(Silence')
<1>1. IsFiniteSet(Silence)
  BY SilenceIsFinite
<1>2. CASE c \in SignsOfLife
  <2>1. Silence' = {}
    BY <1>2, SilenceAfter
  <2>2. network' = 0
    BY <1>2 DEF SignsOfLife, NetworkErrors
  <2> QED
    BY <2>1, <2>2, FS_EmptySet
<1>3. CASE c = "network"
  <2>1. Silence' = Silence \cup {Len(answers) + 1} /\ Len(answers) + 1 \notin Silence
    BY <1>3, SilenceAfter
  <2>2. Cardinality(Silence') = Cardinality(Silence) + 1
    BY <1>1, <2>1, FS_AddElement
  <2> QED
    BY <1>3, <2>2 DEF NetworkErrors
<1>4. CASE c # "network" /\ c \notin SignsOfLife
  <2>1. Silence' = Silence
    BY <1>4, SilenceAfter
  <2>2. network' = network
    BY <1>4 DEF SignsOfLife, NetworkErrors
  <2> QED
    BY <2>1, <2>2
<1> QED
  BY <1>2, <1>3, <1>4

LEMMA GiveUpNext == RunInv /\ FrontInv /\ GiveUpInv /\ [Next]_vars => GiveUpInv'
<1> SUFFICES ASSUME TypeOK, QueueLives, FrontInv, GiveUpInv, [Next]_vars PROVE GiveUpInv'
  BY DEF RunInv
<1> USE DEF Goto
<1> DEFINE Ends == {"book", "confirm", "log", "succeed", "fail", "tell", "done"}
<1>1. ASSUME UNCHANGED <<answers, network>> PROVE network' = Cardinality(Silence')
  BY <1>1 DEF GiveUpInv, Silence
<1>2. ASSUME UNCHANGED <<answers, network>>, Blind => Blind',
             \/ pc' \in Ends
             \/ UNCHANGED <<pc, seat, tried>>
             \/ pc \notin Ends /\ UNCHANGED <<seat, tried>>
             \/ ~LostAndFree'
      PROVE  GiveUpInv'
  BY <1>1, <1>2 DEF GiveUpInv, LostAndFree
<1>3. CASE Start \/ PreparseFails \/ LoopExits \/ LoopCancelled \/ Searches \/ PauseOver
           \/ PauseCancelled \/ NapOver \/ \E free \in SUBSET Seats : SearchFinds(free)
  <2>1. UNCHANGED <<answers, network, entry, seat, tried>> /\ pc \notin Ends
    BY <1>3 DEF Start, PreparseFails, LoopExits, LoopCancelled, Searches, RoundBegins, PauseOver,
      PauseCancelled, NapOver, SearchFinds, fixed, counts
  <2> QED
    BY <1>2, <2>1 DEF Blind
<1>4. CASE BlindBooks \/ BookAccepted \/ SearchBooks \/ RefreshFails \/ Logged \/ MarkSuccess
           \/ MarkFailed \/ Tell
  BY <1>2, <1>4 DEF BlindBooks, BookAccepted, SearchBooks, RefreshFails, Logged, MarkSuccess,
    MarkFailed, Tell, fixed, counts, Blind
<1>5. CASE (\E s \in Seats : LateAccept(s)) \/ Tick \/ UNCHANGED vars
  BY <1>2, <1>5 DEF LateAccept, Tick, vars, fixed, counts, Blind
<1>6. CASE Throws \/ UserCancels
  <2>1. UNCHANGED <<answers, network, entry>> /\ (pc' = "done" \/ UNCHANGED <<pc, seat, tried>>)
    BY <1>6, Zenon DEF Throws, UserCancels, counts
  <2> QED
    BY <1>2, <2>1 DEF Blind
<1>7. CASE Preparsed
  <2>1. UNCHANGED <<answers, network>> /\ answers = <<>>
    BY <1>7 DEF Preparsed, fixed, counts, QueueLives, GiveUpInv
  <2>2. ~LostAndFree'
    BY <2>1 DEF LostAndFree
  <2> QED
    BY <1>1, <2>1, <2>2 DEF GiveUpInv
<1>8. ASSUME ~Blind, UNCHANGED <<answers, network, entry>> PROVE GiveUpInv'
  <2>1. answers' = <<>>
    BY <1>8 DEF GiveUpInv
  <2>2. ~LostAndFree'
    BY <2>1 DEF LostAndFree
  <2> QED
    BY <1>1, <1>8, <2>1, <2>2 DEF GiveUpInv
<1>9. ASSUME NEW c \in Categories, SearchFails(c) \/ SearchRefused(c) PROVE GiveUpInv'
  <2>1. ~Blind /\ UNCHANGED <<answers, entry>>
    BY <1>9 DEF SearchFails, SearchRefused, fixed, QueueLives
  <2>2. network' = network
    BY <1>9 DEF SearchFails, SearchRefused, SearchFailed, SearchRetries, counts
  <2> QED
    BY <1>8, <2>1, <2>2
<1>10. ASSUME NEW c \in Categories, BlindRefused(c) PROVE GiveUpInv'
  <2>1. answers' = Append(answers, c) /\ network' = NetworkErrors(c) /\ entry' = entry /\ Blind
    BY <1>10 DEF BlindRefused
  <2>2. network' = Cardinality(Silence')
    BY <2>1, NetworkCounts DEF GiveUpInv
  <2>3. CASE c = "network"
    <3>1. pc' = "confirm"
      BY <1>10, <2>3 DEF BlindRefused, Retryable
    <3> QED
      BY <2>1, <2>2, <3>1 DEF GiveUpInv, Blind
  <2>4. CASE c # "network"
    <3>1. answers'[Len(answers')] = c
      BY <2>1 DEF TypeOK
    <3>2. ~LostAndFree'
      BY <2>4, <3>1 DEF LostAndFree
    <3> QED
      BY <2>1, <2>2, <3>2 DEF GiveUpInv, Blind
  <2> QED
    BY <2>3, <2>4
<1>11. CASE ConfirmFree
  <2>1. UNCHANGED <<answers, network, entry, seat, tried>>
    BY <1>11 DEF ConfirmFree, fixed, counts
  <2>2. pc' = "fail" \/ network < NetworkLimit
    BY <1>11, ConstantsAreTimes DEF ConfirmFree, TypeOK
  <2> QED
    BY <1>1, <2>1, <2>2 DEF GiveUpInv, Blind
<1>12. CASE ConfirmNotFree
  <2>1. UNCHANGED <<answers, network, entry, seat>> /\ Rotate
    BY <1>12 DEF ConfirmNotFree, fixed, counts
  <2>2. queue # <<>> /\ queue \in Seq(Seats) /\ seat = queue[1] /\ seat \in Seats
    BY <1>12 DEF ConfirmNotFree, QueueLives, FrontInv, TypeOK
  <2>3. tried'[seat] = {}
    BY <2>1, <2>2 DEF Rotate, TypeOK
  <2>4. ~LostAndFree'
    BY <2>1, <2>3 DEF LostAndFree
  <2> QED
    BY <1>2, <2>1, <2>4 DEF Blind
<1>13. CASE RefreshDone
  <2>1. UNCHANGED <<answers, network, entry, seat, tried>> /\ pc \notin Ends
    BY <1>13 DEF RefreshDone, SearchRetries, fixed, counts
  <2> QED
    BY <1>2, <2>1 DEF Blind
<1> QED
  BY <1>3, <1>4, <1>5, <1>6, <1>7, <1>9, <1>10, <1>11, <1>12, <1>13 DEF Next

\* ConfirmFree and the counters of executeBlindGrab: the run gives up because of network
\* errors only after NetworkLimit of them in one silence of the library, and books no more
\* once a lost request that has not booked its seat completes that number.
THEOREM GiveUpOnSilenceHolds == Spec => GiveUpOnSilence
<1>1. Init => GiveUpInv
  <2> SUFFICES ASSUME Init PROVE GiveUpInv
    OBVIOUS
  <2>1. answers = <<>> /\ network = 0
    BY DEF Init
  <2>2. Silence = {}
    BY <2>1 DEF Silence
  <2> QED
    BY <2>1, <2>2, FS_EmptySet DEF GiveUpInv, LostAndFree
<1>2. Init => QueueInv /\ FrontInv
  BY DEF Init, QueueInv, FrontInv
<1>3. ASSUME RunInv, GiveUpInv, [Next]_vars
      PROVE  /\ gaveUp' # gaveUp => Cardinality(Silence) >= NetworkLimit
             /\ RoundStarts /\ Blind /\ LostAndFree => Cardinality(Silence) < NetworkLimit
  <2>1. ASSUME gaveUp' # gaveUp PROVE ConfirmFree
    <3>1. ASSUME UNCHANGED gaveUp PROVE FALSE
      BY <2>1, <3>1
    <3>2. CASE Start \/ Preparsed \/ PreparseFails \/ LoopExits \/ LoopCancelled \/ BlindBooks
               \/ Searches \/ PauseOver \/ PauseCancelled \/ NapOver \/ BookAccepted \/ SearchBooks
               \/ (\E s \in Seats : LateAccept(s)) \/ \E free \in SUBSET Seats : SearchFinds(free)
      BY <3>1, <3>2 DEF Start, Preparsed, PreparseFails, LoopExits, LoopCancelled, BlindBooks,
        Searches, PauseOver, PauseCancelled, NapOver, BookAccepted, SearchBooks, LateAccept,
        SearchFinds
    <3>3. CASE \/ \E c \in Categories : SearchFails(c) \/ SearchRefused(c) \/ BlindRefused(c)
               \/ ConfirmNotFree \/ RefreshDone \/ RefreshFails
      BY <1>3, <3>1, <3>3, SearchFailedType DEF SearchFails, SearchRefused, BlindRefused,
        ConfirmNotFree, RefreshDone, SearchRetries, RefreshFails, RunInv
    <3>4. CASE Logged \/ MarkSuccess \/ MarkFailed \/ Tell \/ Throws \/ UserCancels \/ Tick
               \/ UNCHANGED vars
      BY <3>1, <3>4, Zenon DEF Logged, MarkSuccess, MarkFailed, Tell, Throws, UserCancels, Tick, vars
    <3> QED
      BY <1>3, <3>2, <3>3, <3>4 DEF Next
  <2>2. ASSUME gaveUp' # gaveUp PROVE Cardinality(Silence) >= NetworkLimit
    BY <1>3, <2>1, <2>2 DEF ConfirmFree, GiveUpInv
  <2>3. ASSUME RoundStarts, LostAndFree PROVE Cardinality(Silence) < NetworkLimit
    <3>1. pc = "loop"
      BY <1>3, <2>3, RoundStartsOnly DEF BlindBooks, Searches, RoundBegins
    <3> QED
      BY <1>3, <2>3, <3>1 DEF GiveUpInv
  <2> QED
    BY <2>2, <2>3
<1> QED
  BY <1>1, <1>2, <1>3, RunInvHolds, RotationNext, GiveUpNext, PTL DEF Spec, GiveUpOnSilence

-----------------------------------------------------------------------------
(* The run implements GrabRun.                                               *)

LEMMA RunInit == Init => Run!Init
BY DEF Init, Run!Init

LEMMA RunStep == RunInv /\ [Next]_vars => [Run!Next]_Run!vars
<1> SUFFICES ASSUME RunInv, [Next]_vars PROVE Run!Next \/ UNCHANGED Run!vars
  OBVIOUS
<1> USE DEF Goto
<1>1. ASSUME UNCHANGED lib, pc \notin {"book", "tell", "done"},
             pc' \notin {"book", "tell", "done"}, UNCHANGED verdict
      PROVE  UNCHANGED Run!vars
  BY <1>1 DEF Run!vars, lib
<1>2. ASSUME UNCHANGED <<lib, pc, seat, verdict>> PROVE UNCHANGED Run!vars
  BY <1>2 DEF Run!vars, lib
<1>3. ASSUME UNCHANGED lib, pc \notin {"book", "tell", "done"}, pc' = "done", UNCHANGED verdict
      PROVE  Run!Stop
  BY <1>3 DEF Run!Stop, lib
<1>4. CASE Start \/ Preparsed \/ PreparseFails \/ Searches \/ PauseOver \/ NapOver
           \/ ConfirmFree \/ ConfirmNotFree \/ RefreshDone \/ RefreshFails \/ Logged
           \/ \E free \in SUBSET Seats : SearchFinds(free)
  BY <1>1, <1>4 DEF Start, Preparsed, PreparseFails, Searches, RoundBegins, PauseOver, NapOver,
    ConfirmFree, ConfirmNotFree, RefreshDone, SearchRetries, RefreshFails, Logged, SearchFinds
<1>5. CASE \E c \in Categories : SearchFails(c)
  BY <1>1, <1>5, SearchFailedType DEF SearchFails, RunInv
<1>6. CASE LoopExits \/ LoopCancelled \/ PauseCancelled
  BY <1>1, <1>3, <1>6 DEF LoopExits, LoopCancelled, PauseCancelled, Run!Next
<1>7. CASE Throws \/ Tell
  <2>1. UNCHANGED <<lib, verdict>> /\ pc \notin {"book", "done"} /\ pc' = "done"
    BY <1>7, Zenon DEF Throws, Tell
  <2>2. CASE pc = "tell"
    BY <2>1, <2>2 DEF Run!vars, lib
  <2> QED
    BY <1>3, <2>1, <2>2 DEF Run!Next
<1>8. CASE UserCancels \/ Tick \/ UNCHANGED vars
  <2>1. UNCHANGED <<lib, pc, seat, verdict>>
    BY <1>8, Zenon DEF UserCancels, Tick, vars
  <2> QED
    BY <1>2, <2>1
<1>9. CASE BlindBooks \/ SearchBooks
  <2>1. pc \notin {"book", "tell", "done"} /\ pc' = "book" /\ UNCHANGED <<lib, verdict>> /\ seat' \in Seats
    BY <1>9 DEF BlindBooks, SearchBooks, RoundBegins, RunInv, TypeOK
  <2>2. known = None
    BY <1>9 DEF BlindBooks, SearchBooks, RoundBegins, RunInv, KnowsByPlace
  <2>3. Run!Send(seat')
    BY <2>1, <2>2 DEF Run!Send, lib
  <2> QED
    BY <2>1, <2>3 DEF Run!Next
<1>10. CASE BookAccepted
  <2>1. /\ pc = "book" /\ pc' = "log" /\ seat \in Seats \ booked /\ known = None
        /\ booked' = booked \cup {seat} /\ known' = seat /\ UNCHANGED <<late, verdict>>
    BY <1>10 DEF BookAccepted, RunInv, TypeOK, KnowsByPlace
  <2>2. Run!Confirm(seat)
    BY <2>1 DEF Run!Confirm
  <2> QED
    BY <2>1, <2>2 DEF Run!Next
<1>11. CASE \E c \in Categories : SearchRefused(c) \/ BlindRefused(c)
  <2>1. PICK c \in Categories : SearchRefused(c) \/ BlindRefused(c)
    BY <1>11
  <2>2. pc = "book" /\ seat \in Seats /\ UNCHANGED <<known, verdict>>
        /\ (Lost \/ UNCHANGED lib)
    BY <2>1 DEF SearchRefused, BlindRefused, BookAnswers, Lost, lib, RunInv, TypeOK
  <2>3. pc' \notin {"book", "tell", "done"}
    BY <2>1, SearchFailedType DEF SearchRefused, BlindRefused, RunInv
  <2>4. CASE UNCHANGED lib
    <3>1. Run!Refuse(seat) \/ UNCHANGED Run!vars
      BY <2>2, <2>3, <2>4 DEF Run!Refuse, Run!vars, lib
    <3> QED
      BY <2>2, <3>1 DEF Run!Next
  <2>5. CASE seat \notin booked /\ booked' = booked \cup {seat} /\ UNCHANGED late
    <3>1. Run!Accept(seat)
      BY <2>2, <2>3, <2>5 DEF Run!Accept
    <3> QED
      BY <2>2, <3>1 DEF Run!Next
  <2>6. CASE late' = late \cup {seat} /\ UNCHANGED booked
    BY <2>2, <2>3, <2>6 DEF Run!vars
  <2> QED
    BY <2>2, <2>4, <2>5, <2>6 DEF Lost
<1>12. CASE \E s \in Seats : LateAccept(s)
  <2>1. PICK s \in Seats : LateAccept(s)
    BY <1>12
  <2>2. /\ s \in late \ booked /\ booked' = booked \cup {s} /\ late' = late \ {s}
        /\ UNCHANGED <<known, verdict, pc, seat>>
    BY <2>1 DEF LateAccept
  <2>3. Run!Accept(s)
    BY <2>2 DEF Run!Accept
  <2> QED
    BY <2>3 DEF Run!Next
<1>13. CASE MarkSuccess \/ MarkFailed
  <2>1. /\ pc \notin {"book", "tell", "done"} /\ pc' = "tell" /\ UNCHANGED lib /\ verdict = "none"
        /\ verdict' = IF known = None THEN "failed" ELSE "success"
    BY <1>13 DEF MarkSuccess, MarkFailed, RunInv, KnowsByPlace
  <2>2. Run!Report
    BY <2>1 DEF Run!Report, lib
  <2> QED
    BY <2>2 DEF Run!Next
<1> QED
  BY <1>4, <1>5, <1>6, <1>7, <1>8, <1>9, <1>10, <1>11, <1>12, <1>13 DEF Next

\* A run sends nothing after a confirmed booking, reports at most once, and reports a
\* success if and only if a booking was confirmed.
THEOREM GrabRunImplemented == Spec => ImplementsGrabRun
BY RunInit, RunStep, RunInvHolds, PTL DEF Spec, ImplementsGrabRun, Run!Spec
=============================================================================
