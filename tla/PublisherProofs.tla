--------------------------- MODULE PublisherProofs ---------------------------
(***************************************************************************)
(* The timing promises of Publisher, for every round EVERY, retry AGAIN no *)
(* longer than a round, and length Slip of a write.  They all follow from  *)
(* PublisherInv: the thread sleeps no further than its wake, and its wake  *)
(* is bounded by what it last wrote, asked, was refused or began.          *)
(***************************************************************************)
EXTENDS Publisher, TLAPS

(* What one write does to the publisher's state, whichever way it ends.    *)
LEMMA WriteKeeps ==
    ASSUME TypeOK, Clock, audits <= 1, audits = 1 => failing.audited,
           write
    PROVE  /\ now' \in Nat /\ now <= now' /\ now' <= now + Slip
           /\ written' \in Nat /\ written' <= now' /\ written' <= tried' + Slip
           /\ tried' = now
           /\ failing' \in [is : BOOLEAN, since : Nat, audited : BOOLEAN]
           /\ audits' \in Nat /\ audits' <= 1
           /\ audits' = 1 => failing'.audited
           /\ ~failing'.is => /\ ~failing'.audited
                              /\ written' = now' /\ written' # Never
           /\ failing'.is => failing'.since >= 1 /\ failing'.since <= now'
           /\ failing'.is /\ ~failing'.audited =>
                /\ written' <= failing'.since
                /\ now' < failing'.since + EVERY
<1> USE PublisherAssumption
<1>1. CASE Written
  BY <1>1 DEF Written, NotFailing, TypeOK, Clock, Never
<1>2. CASE Refused
  <2>1. PICK r0 \in now..(now + Slip) : \E r1 \in r0..(now + Slip) :
          \E r2 \in r1..(now + Slip) : \E r3 \in r2..(now + Slip) :
              RefusedAt(r0, r1, r2, r3)
    BY <1>2 DEF Refused
  <2>2. PICK r1 \in r0..(now + Slip) : \E r2 \in r1..(now + Slip) :
          \E r3 \in r2..(now + Slip) : RefusedAt(r0, r1, r2, r3)
    BY <2>1
  <2>2a. PICK r2 \in r1..(now + Slip) :
           \E r3 \in r2..(now + Slip) : RefusedAt(r0, r1, r2, r3)
    BY <2>2
  <2>3. PICK r3 \in r2..(now + Slip) : RefusedAt(r0, r1, r2, r3)
    BY <2>2a
  <2>4. /\ r0 \in Nat /\ r1 \in Nat /\ r2 \in Nat /\ r3 \in Nat
        /\ now <= r0 /\ r0 <= r1 /\ r1 <= r2 /\ r2 <= r3 /\ r3 <= now + Slip
    BY <2>1, <2>2, <2>2a, <2>3 DEF TypeOK
  <2>5. Since(r0) \in Nat /\ Since(r0) >= 1 /\ Since(r0) <= r0
    BY <2>4 DEF TypeOK, Clock, Since
  <2>6. ~failing.audited => written <= Since(r0)
    BY <2>4 DEF Clock, Since, TypeOK
  <2>7. /\ failing'.is = TRUE /\ failing'.since = Since(r0)
        /\ failing'.audited = (failing.audited \/ r3 - Since(r0) >= EVERY)
    BY <2>3 DEF RefusedAt
  <2>7a. /\ failing'.is
         /\ failing'.audited <=> (failing.audited \/ r3 - Since(r0) >= EVERY)
    BY <2>7
  <2>8. failing' \in [is : BOOLEAN, since : Nat, audited : BOOLEAN]
    BY <2>3, <2>5 DEF RefusedAt, TypeOK
  <2>9. /\ now' = r3 /\ tried' = now
        /\ written' = IF failing.audited \/ r1 - Since(r0) >= EVERY
                      THEN r1 ELSE written
        /\ audits' = IF ~failing.audited /\ r2 - Since(r0) >= EVERY
                     THEN audits + 1 ELSE audits
    BY <2>3 DEF RefusedAt
  <2>10. /\ now \in Nat /\ written \in Nat /\ written <= now
         /\ audits \in Nat /\ failing.audited \in BOOLEAN
    BY DEF TypeOK, Clock
  <2>11. /\ written' \in Nat /\ written' <= now' /\ written' <= tried' + Slip
         /\ now' \in Nat /\ now <= now' /\ now' <= now + Slip
    BY <2>4, <2>9, <2>10
  <2>12. audits' \in Nat /\ audits' <= 1 /\ (audits' = 1 => failing'.audited)
    BY <2>4, <2>5, <2>7a, <2>9, <2>10
  <2>13. failing'.is /\ ~failing'.audited =>
           written' <= failing'.since /\ now' < failing'.since + EVERY
    <3>1. failing'.since = Since(r0)
      BY <2>7
    <3> QED
      BY <2>4, <2>5, <2>6, <2>7a, <2>9, <2>10, <3>1
  <2> QED
    BY <2>4, <2>5, <2>7, <2>8, <2>9, <2>11, <2>12, <2>13
<1> QED
  BY <1>1, <1>2 DEF write

LEMMA InitInv == Init => PublisherInv
<1> SUFFICES ASSUME Init PROVE PublisherInv
  OBVIOUS
<1>1. /\ failing.is = FALSE /\ failing.audited = FALSE /\ failing.since = 0
      /\ failing \in [is : BOOLEAN, since : Nat, audited : BOOLEAN]
  BY DEF Init, NotFailing
<1>2. TypeOK
  BY <1>1 DEF Init, TypeOK, Never
<1>3. Clock /\ Bounds
  BY <1>1, PublisherAssumption DEF Init, Clock, Bounds, Never
<1> QED
  BY <1>2, <1>3 DEF PublisherInv

LEMMA FirstInv == PublisherInv /\ First => PublisherInv'
<1> SUFFICES ASSUME PublisherInv, First PROVE PublisherInv'
  OBVIOUS
<1> USE PublisherAssumption DEF PublisherInv, First
<1>1. write /\ TypeOK /\ Clock /\ audits <= 1 /\ (audits = 1 => failing.audited)
  BY DEF Bounds
<1>2. TypeOK'
  BY <1>1, WriteKeeps DEF TypeOK
<1>3. Clock'
  BY <1>1, WriteKeeps DEF TypeOK, Clock
<1>4. Bounds'
  BY <1>1, WriteKeeps DEF TypeOK, Bounds
<1> QED
  BY <1>2, <1>3, <1>4

(* The look that publishes, and the look that only waits on.               *)
LEMMA LookInv == PublisherInv /\ Look => PublisherInv'
<1> SUFFICES ASSUME PublisherInv, Look PROVE PublisherInv'
  OBVIOUS
<1> USE PublisherAssumption DEF PublisherInv
<1>1. TypeOK /\ Clock /\ audits <= 1 /\ (audits = 1 => failing.audited)
  BY DEF Bounds
<1>2. CASE acted \/ due
  <2>1. write
    BY <1>2 DEF Look
  <2>2. /\ pc' = "wait" /\ acted' = FALSE /\ began' = began
        /\ wake' = now' + next'
    BY DEF Look
  <2>3. next' \in Nat /\ next' <= EVERY
        /\ (~failing'.is => next' = EVERY)
        /\ (failing'.is /\ ~failing'.audited => next' = AGAIN)
    BY <1>1, <2>1, WriteKeeps DEF next, due
  <2>3a. wake' \in Nat
    BY <1>1, <2>1, <2>2, <2>3, WriteKeeps
  <2>4. TypeOK'
    BY <1>1, <2>1, <2>2, <2>3a, WriteKeeps DEF TypeOK
  <2>5. Clock'
    BY <1>1, <2>1, <2>2, WriteKeeps DEF TypeOK, Clock
  <2>6. Bounds'
    BY <1>1, <2>1, <2>2, <2>3, WriteKeeps DEF TypeOK, Bounds, Clock
  <2> QED
    BY <2>4, <2>5, <2>6
<1>3. CASE ~(acted \/ due)
  <2>1. /\ UNCHANGED <<now, written, failing, tried, audits, began>>
        /\ pc' = "wait" /\ acted' = FALSE /\ wake' = now' + next'
    BY <1>3 DEF Look
  <2>2. /\ written # Never /\ now - written < EVERY
        /\ next' = IF failing.is /\ ~failing.audited THEN AGAIN
                   ELSE EVERY - (now - written)
    BY <1>3, <2>1 DEF next, due, TypeOK
  <2>2a. wake' \in Nat
    BY <1>1, <2>1, <2>2 DEF TypeOK, Clock
  <2>3. TypeOK'
    BY <1>1, <2>1, <2>2a DEF TypeOK
  <2>4. Clock'
    BY <1>1, <2>1 DEF Clock
  <2>5. Bounds'
    BY <1>1, <2>1, <2>2 DEF TypeOK, Bounds, Clock
  <2> QED
    BY <2>3, <2>4, <2>5
<1> QED
  BY <1>2, <1>3

LEMMA StoppedWriteInv == PublisherInv /\ StoppedWrite => PublisherInv'
<1> SUFFICES ASSUME PublisherInv, StoppedWrite PROVE PublisherInv'
  OBVIOUS
<1> USE PublisherAssumption DEF PublisherInv
<1>1. write /\ TypeOK /\ Clock /\ audits <= 1 /\ (audits = 1 => failing.audited)
  BY DEF Bounds, StoppedWrite, write
<1>2. /\ pc = "stopped" /\ acted' = acted /\ began' = began
      /\ \/ pc' = "done" /\ wake' = wake
         \/ pc' = "sleep" /\ wake' = now' + AGAIN /\ now' - began < EVERY
  BY DEF StoppedWrite
<1>3. TypeOK'
  BY <1>1, <1>2, WriteKeeps DEF TypeOK
<1>4. Clock'
  BY <1>1, <1>2, WriteKeeps DEF TypeOK, Clock
<1>5. Bounds'
  BY <1>1, <1>2, WriteKeeps DEF TypeOK, Bounds, Clock
<1> QED
  BY <1>3, <1>4, <1>5

(* The steps that write nothing.                                           *)
LEMMA OtherInv ==
    PublisherInv /\ (Told \/ Timeout \/ Stop \/ Drained \/ Slept \/ Tick)
        => PublisherInv'
<1> SUFFICES ASSUME PublisherInv,
                    Told \/ Timeout \/ Stop \/ Drained \/ Slept \/ Tick
             PROVE  PublisherInv'
  OBVIOUS
<1> USE PublisherAssumption DEF PublisherInv, TypeOK, Clock, Bounds
<1>1. CASE Told BY <1>1 DEF Told
<1>2. CASE Timeout BY <1>2 DEF Timeout
<1>3. CASE Stop BY <1>3 DEF Stop
<1>4. CASE Drained BY <1>4 DEF Drained
<1>5. CASE Slept BY <1>5 DEF Slept
<1>6. CASE Tick BY <1>6 DEF Tick
<1> QED
  BY <1>1, <1>2, <1>3, <1>4, <1>5, <1>6

(* PublisherInv holds in every state the publisher can reach.              *)
THEOREM PublisherInvariant == Spec => []PublisherInv
<1>1. PublisherInv /\ UNCHANGED vars => PublisherInv'
  BY DEF PublisherInv, TypeOK, Clock, Bounds, vars
<1>2. PublisherInv /\ [Next]_vars => PublisherInv'
  BY <1>1, FirstInv, LookInv, StoppedWriteInv, OtherInv DEF Next
<1> QED
  BY InitInv, <1>2, PTL DEF Spec

(* A lasting refusal to publish is audited at most once, whatever the      *)
(* clock reads between the three instants write looks at it.               *)
THEOREM PublisherAuditsOnce == Spec => []AuditedOnce
<1>1. PublisherInv => AuditedOnce
  BY DEF PublisherInv, Bounds, AuditedOnce
<1> QED
  BY <1>1, PublisherInvariant, PTL

(* The service never stops asking for its publication to be written.       *)
THEOREM PublisherKeepsAsking == Spec => []KeepsAsking
<1>1. PublisherInv => KeepsAsking
  BY PublisherAssumption DEF PublisherInv, TypeOK, Bounds, KeepsAsking
<1> QED
  BY <1>1, PublisherInvariant, PTL

(* While writes succeed, what a surface reads is at most a round old.      *)
THEOREM PublisherNeverStale == Spec => []NeverStale
<1>1. PublisherInv => NeverStale
  BY PublisherAssumption DEF PublisherInv, TypeOK, Bounds, NeverStale
<1> QED
  BY <1>1, PublisherInvariant, PTL

(* A refusal is a failure once it has lasted a round and a retry.          *)
THEOREM PublisherFailsInTime == Spec => []FailsInTime
<1>1. PublisherInv => FailsInTime
  BY PublisherAssumption DEF PublisherInv, TypeOK, Clock, Bounds, FailsInTime
<1> QED
  BY <1>1, PublisherInvariant, PTL

(* The last publication is given up within a round, a retry and a write.   *)
THEOREM PublisherStopsInTime == Spec => []StopsInTime
<1>1. PublisherInv => StopsInTime
  BY PublisherAssumption DEF PublisherInv, TypeOK, Clock, Bounds, StopsInTime
<1> QED
  BY <1>1, PublisherInvariant, PTL
==============================================================================
