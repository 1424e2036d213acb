------------------------------ MODULE MessageLife ------------------------------
(***************************************************************************)
(* What the forwarding promises of the messages it has seen, each known by *)
(* its key: what an account lists at first is history, and is settled      *)
(* without being shown before the account is open; from then on a message  *)
(* without a record is shown and then recorded, one at a time.  A message  *)
(* is shown though it is history, or again, only if its record was lost.   *)
(***************************************************************************)
CONSTANTS
  Accounts, Keys,
  Owner  \* the account of each key

VARIABLES
  open,    \* accounts that have had their baseline since the last restart
  history, \* listed at a first look
  records, \* never shown from then on
  seen,    \* shown to the user
  hand,    \* the message that has been shown, or could not be, and is not recorded yet
  lost     \* settled without a record

vars == <<open, history, records, seen, hand, lost>>

Init ==
  /\ open = {} /\ history = {} /\ records = {} /\ seen = {} /\ hand = {} /\ lost = {}

\* The first look at an account; if it fails, what it would have seen is lost.
Look(a, ks, gone) ==
  /\ a \notin open
  /\ \A k \in ks : Owner[k] = a
  /\ gone \subseteq ks \ records
  /\ history' = history \cup ks /\ lost' = lost \cup gone
  /\ UNCHANGED <<open, records, seen, hand>>

Keep(k) ==
  /\ k \in history /\ Owner[k] \notin open
  /\ records' = records \cup {k}
  /\ UNCHANGED <<open, history, seen, hand, lost>>

Miss(k) ==
  /\ k \in history \ records /\ Owner[k] \notin open
  /\ lost' = lost \cup {k}
  /\ UNCHANGED <<open, history, records, seen, hand>>

Open(a) ==
  /\ \A k \in history : Owner[k] = a => k \in records \cup lost
  /\ open' = open \cup {a}
  /\ UNCHANGED <<history, records, seen, hand, lost>>

\* The failure of a push is hidden: what is at hand may not have been shown.
Show(k) ==
  /\ Owner[k] \in open /\ hand = {} /\ k \notin records
  /\ k \in seen \cup history => k \in lost
  /\ seen' \in {seen, seen \cup {k}} /\ hand' = {k}
  /\ UNCHANGED <<open, history, records, lost>>

Record ==
  /\ records' = records \cup hand /\ hand' = {}
  /\ UNCHANGED <<open, history, seen, lost>>

Drop ==
  /\ lost' = lost \cup hand /\ hand' = {}
  /\ UNCHANGED <<open, history, records, seen>>

Restart ==
  /\ open' = {}
  /\ lost' = lost \cup hand /\ hand' = {}
  /\ UNCHANGED <<history, records, seen>>

Next ==
  \/ \E a \in Accounts : Open(a) \/ \E ks, gone \in SUBSET Keys : Look(a, ks, gone)
  \/ \E k \in Keys : Keep(k) \/ Miss(k) \/ Show(k)
  \/ Record \/ Drop \/ Restart

Spec == Init /\ [][Next]_vars
=============================================================================
