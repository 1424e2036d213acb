------------------------------ MODULE GrabWorker ------------------------------
(***************************************************************************)
(* One run of the grab seat worker for one task (GrabSeatWorker): blind    *)
(* booking of the preparsed seats in turn, or searching and booking what   *)
(* the snapshot shows as free, inside a window of time, with the pauses    *)
(* that each kind of answer calls for.                                     *)
(*                                                                         *)
(* Time is counted from the task's trigger.  Every call takes any time and *)
(* every timer may fire late, which also covers the random part of a pause.*)
(***************************************************************************)
EXTENDS Naturals, Sequences, FiniteSets

CONSTANTS
  Seats,
  Preferred,   \* seats of the task's preference list, best first
  None,        \* no seat
  Wakes,       \* times at which the queue may wake the worker, inside the window
  HighUntil,   \* RETRY_CONFIG.highFreqDurationMs
  Deadline,    \* windowMs
  FirstFire,   \* blindStartOffsetMs
  HighFreq, LowFreq, RateLimit, QuickRetry, \* pauses of the searching loop
  BlindPause, BlindRateLimit, BlindNetwork, \* pauses of the blind loop
  DegradeAfter,    \* windowNotOpenDegradeThreshold
  UnknownDegrade,  \* unknownDegradeThreshold
  NetworkLimit,    \* blindMaxConsecutiveNetworkErrors
  MaxTime,   \* bound on the clock
  MaxRounds, \* bound on rounds
  MaxFaults  \* bound on failing database calls

Pauses == {HighFreq, LowFreq, RateLimit, QuickRetry, BlindPause, BlindRateLimit, BlindNetwork}

ASSUME WorkerAssumption ==
  /\ Preferred \in Seq(Seats) /\ Len(Preferred) > 0
  /\ \A i, j \in 1..Len(Preferred) : Preferred[i] = Preferred[j] => i = j
  /\ None \notin Seats
  /\ {HighUntil, Deadline, FirstFire, DegradeAfter, UnknownDegrade, NetworkLimit, MaxTime,
      MaxRounds, MaxFaults} \cup Pauses \subseteq Nat
  /\ Wakes \subseteq Nat /\ \A w \in Wakes : w < Deadline
  /\ QuickRetry <= HighFreq /\ HighFreq <= LowFreq
  /\ BlindNetwork <= BlindPause /\ BlindPause <= LowFreq
  /\ FirstFire <= Deadline

VARIABLES
  strict,   \* strictMode, with preferences
  entry,    \* the preparsed seats the run has found for itself, none: it searches
  pc,       \* the await the run is in
  now, wakeAt, \* clock; end of the pause
  queue,    \* blind: candidates in the order they will be tried
  seat,     \* the seat being booked
  cands,    \* searching: candidates of this round that are left
  attempt, unknown, notOpen, network, \* attempt, unknownAttempts, consecutiveWindowNotOpen,
                                      \* consecutiveNetworkErrors
  gaveUp,   \* the failure reported will be "network"
  cancel,   \* isCancellationRequested
  booked, late, \* the library: seats it has booked for us; lost requests it may still accept
  known,    \* seat of the answer that confirmed a booking
  verdict,  \* the final status written
  threw,    \* a database call has thrown
  paceUntil, \* history: no round may start before
  tried,    \* history: seats tried since a seat was sent to the back
  answers,  \* history: what came of the bookings of the blind loop, in order
  faults

lib    == <<booked, late, known>>
counts == <<unknown, notOpen, network>>
fixed  == <<strict, cancel, threw, faults, answers>>
vars == <<fixed, lib, counts, entry, pc, now, wakeAt, queue, seat, cands, attempt, gaveUp, verdict,
          paceUntil, tried>>

\* classifyError.
Categories == {"seat_unavailable", "blacklist", "session_expired", "network", "rate_limit",
               "window_not_open", "business_rule", "param_invalid", "unknown"}

\* executeBlindGrab runs, not the searching loop.
Blind == entry # <<>>

IsPreferred(s) == \E i \in 1..Len(Preferred) : Preferred[i] = s

TypeOK ==
  /\ strict \in BOOLEAN /\ gaveUp \in BOOLEAN /\ cancel \in BOOLEAN /\ threw \in BOOLEAN
  /\ pc \in {"start", "preparse", "loop", "search", "pick", "book", "refresh", "confirm", "pause",
             "nap", "log", "succeed", "fail", "tell", "done"}
  /\ now \in Nat /\ wakeAt \in Nat /\ paceUntil \in Nat
  /\ attempt \in Nat /\ unknown \in Nat /\ notOpen \in Nat /\ network \in Nat /\ faults \in Nat
  /\ entry \in Seq(Seats) /\ queue \in Seq(Seats)
  /\ seat \in Seats \cup {None}
  /\ pc \in {"book", "confirm"} => seat \in Seats
  /\ cands \subseteq Seats
  /\ pc = "pick" => cands # {}
  /\ booked \subseteq Seats /\ late \subseteq Seats
  /\ known \in Seats \cup {None}
  /\ verdict \in {"none", "success", "failed"}
  /\ tried \in [Seats -> SUBSET Seats]
  /\ answers \in Seq(Categories)

Init ==
  /\ strict \in BOOLEAN /\ entry = <<>> /\ pc = "start"
  /\ now \in Wakes /\ wakeAt = 0
  /\ queue = <<>> /\ seat = None /\ cands = {}
  /\ attempt = 0 /\ unknown = 0 /\ notOpen = 0 /\ network = 0
  /\ gaveUp = FALSE /\ cancel = FALSE /\ threw = FALSE
  /\ booked = {} /\ late = {} /\ known = None /\ verdict = "none"
  /\ paceUntil = 0 /\ tried = [s \in Seats |-> Seats] /\ answers = <<>> /\ faults = 0

-----------------------------------------------------------------------------
(* What an answer means.                                                     *)

\* bookSeats reports six of the categories; the worker takes the others for unknown.
BookCategory(c) == IF c \in {"business_rule", "param_invalid"} THEN "unknown" ELSE c

Retryable == {"network", "rate_limit", "seat_unavailable", "session_expired",
              "window_not_open", "unknown"}

Phase == IF now < HighUntil THEN HighFreq ELSE LowFreq

\* The pause of the searching loop after an answer, with the counters it has updated.
SearchPause(c, n, u) ==
  IF c = "rate_limit" THEN RateLimit
  ELSE IF c = "window_not_open" /\ n < DegradeAfter THEN QuickRetry
  ELSE IF c # "window_not_open" /\ u >= UnknownDegrade THEN LowFreq
  ELSE Phase

\* No pause goes beyond the window.
Clamp(t) == IF t < Deadline THEN t ELSE Deadline
PauseFor(d) == wakeAt' = Clamp(now + d)

\* The least time from an answer to the next round: an answer that has come too often
\* slows the run down.
Often(c) ==
  \/ c = "window_not_open" /\ notOpen + 1 >= DegradeAfter
  \/ c = "unknown" /\ unknown + 1 >= UnknownDegrade

BlindLeast(c) ==
  IF c = "rate_limit" THEN BlindRateLimit
  ELSE IF c = "network" THEN BlindNetwork
  ELSE IF c = "session_expired" \/ c \notin Retryable THEN 0
  ELSE IF Often(c) THEN LowFreq ELSE BlindPause

SearchLeast(c) ==
  IF c = "rate_limit" THEN RateLimit
  ELSE IF c \notin Retryable THEN 0
  ELSE IF c = "window_not_open" /\ ~Often(c) THEN QuickRetry
  ELSE IF c = "unknown" /\ Often(c) THEN LowFreq ELSE HighFreq

LeastPause(c) == IF Blind THEN BlindLeast(c) ELSE SearchLeast(c)
Pace(c) == paceUntil' = now + LeastPause(c)

Fault == faults < MaxFaults /\ faults' = faults + 1

-----------------------------------------------------------------------------
(* runGrabTask up to the loop.                                               *)

Goto(p) == pc' = p

Start ==
  /\ pc = "start"
  /\ Goto(IF strict THEN "preparse" ELSE "loop")
  /\ UNCHANGED <<fixed, lib, counts, entry, now, wakeAt, queue, seat, cands, attempt, gaveUp,
                 verdict, paceUntil, tried>>

\* resolvePreferenceSeats: those of the preferred seats that the room has, in their order.
Entries ==
  {e \in UNION {[1..n -> Seats] : n \in 1..Len(Preferred)} :
     \E at \in [1..Len(e) -> 1..Len(Preferred)] :
       /\ \A i, j \in 1..Len(e) : i < j => at[i] < at[j]
       /\ \A i \in 1..Len(e) : e[i] = Preferred[at[i]]}

\* resolvePreparse has an entry with seats, from the precheck or resolved now; the first
\* booking waits for the start offset.
Preparsed ==
  /\ pc = "preparse"
  /\ entry' \in Entries /\ queue' = entry'
  /\ wakeAt' = IF now < FirstFire THEN FirstFire ELSE now
  /\ paceUntil' = FirstFire
  /\ Goto("pause")
  /\ UNCHANGED <<fixed, lib, counts, now, seat, cands, attempt, gaveUp, verdict, tried>>

PreparseFails ==
  /\ pc = "preparse"
  /\ Goto("loop")
  /\ UNCHANGED <<fixed, lib, counts, entry, now, wakeAt, queue, seat, cands, attempt, gaveUp,
                 verdict, paceUntil, tried>>

-----------------------------------------------------------------------------
(* The head of both loops, and the pauses.                                   *)

\* Past the deadline, or no candidate left: the blind loop reports nothing then.
LoopExits ==
  /\ pc = "loop" /\ (now >= Deadline \/ (Blind /\ queue = <<>>))
  /\ Goto(IF Blind /\ queue = <<>> THEN "done" ELSE "fail")
  /\ UNCHANGED <<fixed, lib, counts, entry, now, wakeAt, queue, seat, cands, attempt, gaveUp,
                 verdict, paceUntil, tried>>

LoopCancelled ==
  /\ pc = "loop" /\ now < Deadline /\ cancel
  /\ Goto("done")
  /\ UNCHANGED <<fixed, lib, counts, entry, now, wakeAt, queue, seat, cands, attempt, gaveUp,
                 verdict, paceUntil, tried>>

\* Mutant: a round is begun after the deadline.
RoundBegins_PastDeadline ==
  /\ pc = "loop" /\ ~cancel
  /\ attempt < MaxRounds /\ attempt' = attempt + 1

RoundBegins ==
  /\ pc = "loop" /\ now < Deadline /\ ~cancel
  /\ attempt < MaxRounds /\ attempt' = attempt + 1

BlindBooks ==
  /\ RoundBegins /\ Blind /\ queue # <<>>
  /\ seat' = Head(queue)
  /\ tried' = [s \in Seats |-> tried[s] \cup {Head(queue)}]
  /\ Goto("book")
  /\ UNCHANGED <<fixed, lib, counts, entry, now, wakeAt, queue, cands, gaveUp, verdict, paceUntil>>

Searches ==
  /\ RoundBegins /\ ~Blind
  /\ Goto("search")
  /\ UNCHANGED <<fixed, lib, counts, entry, now, wakeAt, queue, seat, cands, gaveUp, verdict,
                 paceUntil, tried>>

PauseOver ==
  /\ pc = "pause" /\ now >= wakeAt
  /\ Goto("loop")
  /\ UNCHANGED <<fixed, lib, counts, entry, now, wakeAt, queue, seat, cands, attempt, gaveUp,
                 verdict, paceUntil, tried>>

PauseCancelled ==
  /\ pc = "pause" /\ now < wakeAt /\ cancel
  /\ Goto("done")
  /\ UNCHANGED <<fixed, lib, counts, entry, now, wakeAt, queue, seat, cands, attempt, gaveUp,
                 verdict, paceUntil, tried>>

\* A pause whose result is not looked at: a cancel ends it early.
NapOver ==
  /\ pc = "nap" /\ (now >= wakeAt \/ cancel)
  /\ Goto("loop")
  /\ UNCHANGED <<fixed, lib, counts, entry, now, wakeAt, queue, seat, cands, attempt, gaveUp,
                 verdict, paceUntil, tried>>

-----------------------------------------------------------------------------
(* The library.                                                              *)

\* Mutant: the round goes on after a success.
BookAccepted_GoesOn ==
  /\ pc = "book" /\ seat \notin booked
  /\ booked' = booked \cup {seat} /\ known' = seat
  /\ Goto(IF cands = {} THEN "log" ELSE "pick")
  /\ UNCHANGED <<fixed, late, counts, entry, now, wakeAt, queue, seat, cands, attempt,
                 gaveUp, verdict, paceUntil, tried>>

\* The booking is accepted and the answer arrives.
BookAccepted ==
  /\ pc = "book" /\ seat \notin booked
  /\ booked' = booked \cup {seat} /\ known' = seat
  /\ Goto("log")
  /\ UNCHANGED <<fixed, late, counts, entry, now, wakeAt, queue, seat, cands, attempt,
                 gaveUp, verdict, paceUntil, tried>>

\* A request without an answer was refused, accepted, or is still on its way.
Lost ==
  \/ UNCHANGED lib
  \/ seat \notin booked /\ booked' = booked \cup {seat} /\ UNCHANGED <<late, known>>
  \/ seat \notin booked /\ late' = late \cup {seat} /\ UNCHANGED <<booked, known>>

\* The library's answer c to a booking, or the lack of one: bookSeats turns an exception
\* into "network" when its message is that of a timeout or of a broken connection, and into
\* "unknown", the answer to a text it cannot place, when it is anything else.
BookAnswers(c) ==
  /\ pc = "book"
  /\ c \in {BookCategory(d) : d \in Categories}
  /\ IF c \in {"network", "unknown"} THEN Lost ELSE UNCHANGED lib
  /\ Pace(c)

LateAccept(s) ==
  /\ s \in late \ booked
  /\ booked' = booked \cup {s} /\ late' = late \ {s}
  /\ UNCHANGED <<fixed, known, counts, entry, pc, now, wakeAt, queue, seat, cands, attempt, gaveUp,
                 verdict, paceUntil, tried>>

-----------------------------------------------------------------------------
(* tryGrabOnce and what the searching loop makes of it.                      *)

\* The pause before the next round; the counters decide how long it is.
SearchRetries(c) ==
  /\ notOpen' = IF c = "window_not_open" THEN notOpen + 1 ELSE 0
  /\ unknown' = IF c = "unknown" THEN unknown + 1 ELSE unknown
  /\ PauseFor(SearchPause(c, notOpen', unknown'))
  /\ Goto("pause")
  /\ UNCHANGED <<network, gaveUp>>

SearchFailed(c) ==
  \/ c = "session_expired" /\ Goto("refresh") /\ UNCHANGED <<counts, wakeAt, gaveUp>>
  \/ c \notin Retryable /\ Goto("fail") /\ UNCHANGED <<counts, wakeAt, gaveUp>>
  \/ c \in Retryable \ {"session_expired"} /\ SearchRetries(c)

\* selectCandidates: strict mode keeps preferred seats only.
Candidates(free) == {s \in free : strict => IsPreferred(s)}

\* Mutant: no test for an empty list.
SearchFinds_EmptyToo(free) ==
  /\ pc = "search"
  /\ cands' = Candidates(free)
  /\ Goto("pick")
  /\ UNCHANGED <<fixed, lib, counts, entry, now, wakeAt, queue, seat, attempt, gaveUp, verdict,
                 paceUntil, tried>>

SearchFinds(free) ==
  /\ pc = "search" /\ Candidates(free) # {}
  /\ cands' = Candidates(free)
  /\ Goto("pick")
  /\ UNCHANGED <<fixed, lib, counts, entry, now, wakeAt, queue, seat, attempt, gaveUp, verdict,
                 paceUntil, tried>>

\* No candidate; a search that throws; a message instead of seats; no user id or no such
\* room.  The log of the last two is awaited: that it may throw is left to Throws.
SearchFails(c) ==
  /\ pc = "search" /\ c \in {"seat_unavailable", "network", "business_rule", "param_invalid"}
  /\ SearchFailed(c) /\ Pace(c)
  /\ cands' = {}
  /\ UNCHANGED <<fixed, lib, entry, now, queue, seat, attempt, verdict, tried>>

\* Preferred seats first, in the order of the list; then recommended and other seats, in
\* an order left open.
Better(s, t) ==
  IsPreferred(s) /\ \/ ~IsPreferred(t)
                    \/ \E i, j \in 1..Len(Preferred) :
                         i < j /\ Preferred[i] = s /\ Preferred[j] = t

SearchBooks ==
  /\ pc = "pick"
  /\ \E s \in cands :
       /\ \A t \in cands : ~Better(t, s)
       /\ seat' = s /\ cands' = cands \ {s}
  /\ Goto("book")
  /\ UNCHANGED <<fixed, lib, counts, entry, now, wakeAt, queue, attempt, gaveUp, verdict,
                 paceUntil, tried>>

\* A taken seat is left for the next candidate; any other refusal ends the round.
SearchRefused(c) ==
  /\ ~Blind /\ BookAnswers(c)
  /\ IF c = "seat_unavailable" /\ cands # {}
     THEN Goto("pick") /\ UNCHANGED <<counts, wakeAt, gaveUp, cands>>
     ELSE SearchFailed(c) /\ cands' = {}
  /\ UNCHANGED <<fixed, entry, now, queue, seat, attempt, verdict, tried>>

-----------------------------------------------------------------------------
(* executeBlindGrab.                                                         *)

\* Mutant: the seat is dropped.
Rotate_Drops ==
  /\ queue' = Tail(queue)
  /\ tried' = [tried EXCEPT ![Head(queue)] = {}]

\* Mutant: the seat stays in front.
Rotate_Stays ==
  /\ queue' = queue
  /\ tried' = [tried EXCEPT ![Head(queue)] = {}]

\* The seat that was tried goes to the back.
Rotate ==
  /\ queue' = Append(Tail(queue), Head(queue))
  /\ tried' = [tried EXCEPT ![Head(queue)] = {}]

Keep == UNCHANGED <<queue, tried>>

\* Mutant: the count goes on when the seat is found taken.
NetworkErrors_TakenKeeps(c) ==
  IF c = "network" THEN network + 1
  ELSE IF c \in {"window_not_open", "rate_limit"} THEN 0
  ELSE network

\* consecutiveNetworkErrors: an expired session and an unknown answer leave it as it is.
NetworkErrors(c) ==
  IF c = "network" THEN network + 1
  ELSE IF c \in {"window_not_open", "rate_limit", "seat_unavailable"} THEN 0
  ELSE network

BlindRefused(c) ==
  /\ Blind /\ BookAnswers(c)
  /\ notOpen' = IF c = "window_not_open" THEN notOpen + 1 ELSE 0
  /\ network' = NetworkErrors(c)
  /\ answers' = Append(answers, c)
  /\ unknown' = IF c = "unknown" THEN unknown + 1 ELSE unknown
  /\ \/ /\ c = "window_not_open"
        /\ PauseFor(IF notOpen' < DegradeAfter THEN BlindPause ELSE LowFreq)
        /\ Goto("pause") /\ Keep
     \/ c = "rate_limit" /\ PauseFor(BlindRateLimit) /\ Goto("pause") /\ Keep
     \/ c = "seat_unavailable" /\ PauseFor(BlindPause) /\ Goto("pause") /\ Rotate
     \/ c = "session_expired" /\ Goto("refresh") /\ Keep /\ UNCHANGED wakeAt
     \/ c = "network" /\ Goto("confirm") /\ Keep /\ UNCHANGED wakeAt
     \/ c \notin Retryable /\ Goto("fail") /\ Keep /\ UNCHANGED wakeAt
     \/ /\ c = "unknown"
        /\ PauseFor(IF unknown' >= UnknownDegrade THEN LowFreq ELSE BlindPause)
        /\ Goto("nap") /\ Keep
  /\ UNCHANGED <<strict, cancel, threw, faults, entry, now, seat, cands, attempt, gaveUp, verdict>>

\* The search after a lost answer shows the seat as free.
ConfirmFree ==
  /\ pc = "confirm" /\ seat \notin booked
  /\ IF network >= NetworkLimit
     THEN Goto("fail") /\ gaveUp' = TRUE /\ UNCHANGED wakeAt
     ELSE PauseFor(BlindNetwork) /\ Goto("nap") /\ UNCHANGED gaveUp
  /\ UNCHANGED <<fixed, lib, counts, entry, now, queue, seat, cands, attempt, verdict, paceUntil,
                 tried>>

\* It does not, it fails, or the room is not in its answer.
ConfirmNotFree ==
  /\ pc = "confirm"
  /\ Rotate
  /\ PauseFor(BlindPause) /\ Goto("nap")
  /\ UNCHANGED <<fixed, lib, counts, entry, now, seat, cands, attempt, gaveUp, verdict, paceUntil>>

-----------------------------------------------------------------------------
(* The session, and the ends of a run.                                       *)

\* The blind loop tries again at once, the searching loop pauses as after any answer.
RefreshDone ==
  /\ pc = "refresh"
  /\ IF Blind THEN Goto("loop") /\ UNCHANGED <<counts, wakeAt, gaveUp>>
              ELSE SearchRetries("session_expired")
  /\ UNCHANGED <<fixed, lib, entry, now, queue, seat, cands, attempt, verdict, paceUntil, tried>>

RefreshFails ==
  /\ pc = "refresh"
  /\ Goto("fail")
  /\ UNCHANGED <<fixed, lib, counts, entry, now, wakeAt, queue, seat, cands, attempt, gaveUp,
                 verdict, paceUntil, tried>>

\* The attempt log of a successful booking is written before the status.
Logged ==
  /\ pc = "log"
  /\ Goto("succeed")
  /\ UNCHANGED <<fixed, lib, counts, entry, now, wakeAt, queue, seat, cands, attempt, gaveUp,
                 verdict, paceUntil, tried>>

\* markSuccess and markFailed write the final status before the user is told.
MarkSuccess ==
  /\ pc = "succeed"
  /\ verdict' = "success" /\ Goto("tell")
  /\ UNCHANGED <<fixed, lib, counts, entry, now, wakeAt, queue, seat, cands, attempt, gaveUp,
                 paceUntil, tried>>

MarkFailed ==
  /\ pc = "fail"
  /\ verdict' = "failed" /\ Goto("tell")
  /\ UNCHANGED <<fixed, lib, counts, entry, now, wakeAt, queue, seat, cands, attempt, gaveUp,
                 paceUntil, tried>>

Tell ==
  /\ pc = "tell"
  /\ Goto("done")
  /\ UNCHANGED <<fixed, lib, counts, entry, now, wakeAt, queue, seat, cands, attempt, gaveUp,
                 verdict, paceUntil, tried>>

\* The log, the update of the status or the notification throws.
Throws ==
  /\ pc \in {"log", "succeed", "fail", "tell"} /\ Fault
  /\ threw' = TRUE /\ Goto("done")
  /\ UNCHANGED <<strict, cancel, answers, lib, counts, entry, now, wakeAt, queue, seat, cands, attempt,
                 gaveUp, verdict, paceUntil, tried>>

-----------------------------------------------------------------------------
\* cancel() refuses a task in a terminal status.
UserCancels ==
  /\ ~cancel /\ pc # "done" /\ verdict = "none"
  /\ cancel' = TRUE
  /\ UNCHANGED <<strict, threw, faults, answers, lib, counts, entry, pc, now, wakeAt, queue, seat, cands,
                 attempt, gaveUp, verdict, paceUntil, tried>>

Tick ==
  /\ now < MaxTime /\ pc # "done"
  /\ now' = now + 1
  /\ UNCHANGED <<fixed, lib, counts, entry, pc, wakeAt, queue, seat, cands, attempt, gaveUp,
                 verdict, paceUntil, tried>>

Next ==
  \/ Start \/ Preparsed \/ PreparseFails
  \/ LoopExits \/ LoopCancelled \/ BlindBooks \/ Searches
  \/ PauseOver \/ PauseCancelled \/ NapOver
  \/ BookAccepted
  \/ \E s \in Seats : LateAccept(s)
  \/ \E free \in SUBSET Seats : SearchFinds(free)
  \/ \E c \in Categories : SearchFails(c) \/ SearchRefused(c) \/ BlindRefused(c)
  \/ SearchBooks
  \/ ConfirmFree \/ ConfirmNotFree
  \/ RefreshDone \/ RefreshFails
  \/ Logged \/ MarkSuccess \/ MarkFailed \/ Tell \/ Throws
  \/ UserCancels \/ Tick

Spec == Init /\ [][Next]_vars

-----------------------------------------------------------------------------
RoundStarts == attempt' # attempt

\* No round starts earlier after an answer than its kind, and the number of times it has
\* come, allow: the limit on the requests of one account.  It rests on the clamped pauses,
\* the deadline and the flag together: a pause cut short is never followed by a round.
PaceKept == [][RoundStarts => now >= paceUntil]_vars

\* A candidate that was taken, or may be, is not given up and not preferred: it is tried
\* again after all the others.
RotationFair ==
  [][RoundStarts /\ Blind =>
       \A i \in 1..Len(entry) : entry[i] \in tried[seat'] \cup {seat'}]_vars

\* A run ends without a verdict only if it was cancelled or a call has thrown: else the
\* task would stay running for ever.
EndHasVerdict == pc = "done" => verdict # "none" \/ cancel \/ threw

\* The requests that the library has left without an answer since it last answered as one
\* that is there and takes bookings, or turns them down.
SignsOfLife == {"window_not_open", "rate_limit", "seat_unavailable"}
Silence ==
  {i \in 1..Len(answers) :
     answers[i] = "network" /\ \A j \in i..Len(answers) : answers[j] \notin SignsOfLife}

\* The last request got no answer, and its seat was not sent to the back: it was seen free.
LostAndFree ==
  answers # <<>> /\ answers[Len(answers)] = "network" /\ seat \in tried[seat]

\* blindMaxConsecutiveNetworkErrors: a blind run gives up because of network errors only
\* after so many in one silence of the library, over whichever seats, and once there are so
\* many it sends no other request after one that is seen not to have booked its seat.
GiveUpOnSilence ==
  [][/\ gaveUp' # gaveUp => Cardinality(Silence) >= NetworkLimit
     /\ RoundStarts /\ Blind /\ LostAndFree => Cardinality(Silence) < NetworkLimit]_vars

\* What the run promises: no request after a confirmed booking, one verdict, success if
\* and only if a booking was confirmed.
Run == INSTANCE GrabRun WITH
  running <- pc \notin {"tell", "done"},
  sent <- late \cup (IF pc = "book" THEN {seat} ELSE {})
ImplementsGrabRun == Run!Spec
=============================================================================
