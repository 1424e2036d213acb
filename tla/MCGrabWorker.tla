---------------------------- MODULE MCGrabWorker ----------------------------
(* GrabWorker with three seats, two of them preferred.                       *)
EXTENDS WorkerInLifecycle

CONSTANTS s1, s2, s3

MCSeats == {s1, s2, s3}
MCPreferred == <<s1, s2>>
MCWakes == {0, 3}

\* Of the answers a blind run has had, the properties and the steps that follow tell apart
\* no more than the length of the silence and whether the last request was lost.
View ==
  <<strict, cancel, threw, faults, lib, counts, entry, pc, now, wakeAt, queue, seat, cands,
    attempt, gaveUp, verdict, paceUntil, tried,
    Cardinality(Silence), answers # <<>> /\ answers[Len(answers)] = "network">>
=============================================================================
