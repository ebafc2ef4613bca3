------------------------------ MODULE Publisher ------------------------------
(***************************************************************************)
(* When xmip-service publishes its node (.src/service/publication.rs), on  *)
(* the clock: the round EVERY, the retry AGAIN, the refusal that becomes a *)
(* failure, and the last publication after the drain, driven by the loop   *)
(* of run.rs (served, hear).                                               *)
(*                                                                         *)
(* Time is counted in whole units from 1.  The service's thread wakes when *)
(* its wait ends; a write may take up to Slip units, and each reading of   *)
(* the clock inside it sees the time as it then is.                        *)
(***************************************************************************)
EXTENDS Integers

CONSTANTS
    EVERY,    \* the round
    AGAIN,    \* how soon a refused write is asked again
    Slip,     \* the longest the clock moves during one write
    MaxTime   \* the bound on the clock

ASSUME PublisherAssumption ==
    /\ EVERY \in Nat \ {0} /\ AGAIN \in Nat \ {0} /\ AGAIN <= EVERY
    /\ Slip \in Nat /\ MaxTime \in Nat

VARIABLES
    now,      \* the clock
    pc,       \* "first", "look", "wait", "drain", "stopped", "sleep", "done"
    wake,     \* when the wait or the sleep ends
    acted,    \* an order was applied or an act heard since the last look
    written,  \* Publisher::written, Never where it is None
    failing,  \* Publisher::failing: [is, since, audited]
    began,    \* when Publisher::stopped began
    tried,    \* when a write was last asked (history)
    audits    \* failures to publish audited since a write succeeded (history)

vars == <<now, pc, wake, acted, written, failing, began, tried, audits>>

Never == 0
NotFailing == [is |-> FALSE, since |-> 0, audited |-> FALSE]

(* Whether EVERY has passed since the last publication.                    *)
due == written = Never \/ now - written >= EVERY

(* Mutant of next: a failure is asked again only every other round.        *)
next_BacksOff ==
    IF failing.is THEN IF failing.audited THEN 2 * EVERY ELSE AGAIN
    ELSE IF due THEN 0
    ELSE EVERY - (now - written)

(* Mutant of next: a whole round from any wake-up.                         *)
next_WholeRound == IF failing.is /\ ~failing.audited THEN AGAIN ELSE EVERY

(* How long until a publication is due: AGAIN while a reader refuses the   *)
(* write, else what is left of EVERY, never less than nothing.             *)
next ==
    IF failing.is /\ ~failing.audited THEN AGAIN
    ELSE IF due THEN 0
    ELSE EVERY - (now - written)

Init ==
    /\ now = 1 /\ pc = "first" /\ wake = 1 /\ acted = FALSE
    /\ written = Never /\ failing = NotFailing /\ began = Never
    /\ tried = 1 /\ audits = 0

(* A write that succeeds: the refusal, if one lasted, is over.             *)
Written ==
    /\ now' \in now..(now + Slip)
    /\ written' = now' /\ failing' = NotFailing
    /\ tried' = now /\ audits' = 0

(* Mutant of Refused: the refusal is never a failure.                      *)
Refused_NeverFails ==
    \E r0 \in now..(now + Slip) :
        /\ now' = r0 /\ tried' = now
        /\ failing' = [is |-> TRUE, audited |-> FALSE,
                       since |-> IF failing.is THEN failing.since ELSE r0]
        /\ UNCHANGED <<written, audits>>

(* Mutant of Refused: the failure is audited at every round.               *)
Refused_AuditsEach ==
    \E r0 \in now..(now + Slip) :
        LET since == IF failing.is THEN failing.since ELSE r0
            over == r0 - since >= EVERY
        IN  /\ now' = r0 /\ tried' = now
            /\ written' = IF over THEN r0 ELSE written
            /\ audits' = IF over THEN audits + 1 ELSE audits
            /\ failing' = [is |-> TRUE, since |-> since, audited |-> over]

(* Since when the write is refused, where the clock reads r0 now.          *)
Since(r0) == IF failing.is THEN failing.since ELSE r0

(* A write refused, at the instants the clock is read: when the refusal    *)
(* begins (r0), for the round (r1), for the audit (r2) and for what is     *)
(* kept (r3).                                                              *)
RefusedAt(r0, r1, r2, r3) ==
    /\ now' = r3 /\ tried' = now
    /\ written' = IF failing.audited \/ r1 - Since(r0) >= EVERY
                  THEN r1 ELSE written
    /\ audits' = IF ~failing.audited /\ r2 - Since(r0) >= EVERY
                 THEN audits + 1 ELSE audits
    /\ failing' = [is |-> TRUE, since |-> Since(r0),
                   audited |-> failing.audited \/ r3 - Since(r0) >= EVERY]

(* Each reading is later than the one before it or at the same instant.    *)
Refused ==
    \E r0 \in now..(now + Slip) : \E r1 \in r0..(now + Slip) :
    \E r2 \in r1..(now + Slip) : \E r3 \in r2..(now + Slip) :
        RefusedAt(r0, r1, r2, r3)

write == Written \/ Refused

(* The publication as the node starts to accept work; the loop then looks  *)
(* at once.                                                                *)
First ==
    /\ pc = "first"
    /\ write
    /\ pc' = "look"
    /\ UNCHANGED <<wake, acted, began>>

(* One look of the loop: publish after an order or an act, or when the     *)
(* round is due, and then wait for what is left.                           *)
Look ==
    /\ pc = "look"
    /\ IF acted \/ due THEN write
       ELSE UNCHANGED <<now, written, failing, tried, audits>>
    /\ pc' = "wait" /\ wake' = now' + next' /\ acted' = FALSE
    /\ UNCHANGED began

(* A message ends the wait: an act or an applied order asks for a          *)
(* publication, an order that is refused for none.                         *)
Told ==
    /\ pc = "wait" /\ now < MaxTime
    /\ pc' = "look" /\ acted' \in BOOLEAN
    /\ UNCHANGED <<now, wake, written, failing, began, tried, audits>>

(* Nothing was told within the wait.                                       *)
Timeout ==
    /\ pc = "wait" /\ now >= wake
    /\ pc' = "look"
    /\ UNCHANGED <<now, wake, acted, written, failing, began, tried, audits>>

(* A stop ends the wait; the node drains for as long as it takes.          *)
Stop ==
    /\ pc = "wait"
    /\ pc' = "drain"
    /\ UNCHANGED <<now, wake, acted, written, failing, began, tried, audits>>

(* The node has drained: Publisher::stopped begins.                        *)
Drained ==
    /\ pc = "drain"
    /\ pc' = "stopped" /\ began' = now
    /\ UNCHANGED <<now, wake, acted, written, failing, tried, audits>>

(* Mutant of StoppedWrite: asked until it is written.                      *)
StoppedWrite_NoBound ==
    /\ pc = "stopped"
    /\ \/ Written /\ pc' = "done" /\ wake' = wake
       \/ Refused /\ pc' = "sleep" /\ wake' = now' + AGAIN
    /\ UNCHANGED <<acted, began>>

(* One ask of Publisher::stopped: written, or asked again AGAIN later      *)
(* while less than a round has passed.                                     *)
StoppedWrite ==
    /\ pc = "stopped"
    /\ \/ Written /\ pc' = "done" /\ wake' = wake
       \/ /\ Refused
          /\ IF now' - began < EVERY
             THEN pc' = "sleep" /\ wake' = now' + AGAIN
             ELSE pc' = "done" /\ wake' = wake
    /\ UNCHANGED <<acted, began>>

(* The sleep between two asks ends.                                        *)
Slept ==
    /\ pc = "sleep" /\ now >= wake
    /\ pc' = "stopped"
    /\ UNCHANGED <<now, wake, acted, written, failing, began, tried, audits>>

(* The clock moves while the thread waits, no further than the wait, or    *)
(* while the node drains.                                                  *)
Tick ==
    /\ now < MaxTime
    /\ \/ pc \in {"wait", "sleep"} /\ now < wake
       \/ pc = "drain"
    /\ now' = now + 1
    /\ UNCHANGED <<pc, wake, acted, written, failing, began, tried, audits>>

Next ==
    \/ First \/ Look \/ Told \/ Timeout \/ Stop \/ Drained \/ StoppedWrite
    \/ Slept \/ Tick

Spec == Init /\ [][Next]_vars

------------------------------------------------------------------------------
(* Type invariant.                                                         *)
TypeOK ==
    /\ now \in Nat /\ wake \in Nat /\ written \in Nat /\ began \in Nat
    /\ pc \in {"first", "look", "wait", "drain", "stopped", "sleep", "done"}
    /\ acted \in BOOLEAN
    /\ failing \in [is : BOOLEAN, since : Nat, audited : BOOLEAN]
    /\ tried \in Nat /\ audits \in Nat

(* A lasting refusal is audited at most once, not at every round           *)
(* (publication.rs write, `audited`).                                      *)
AuditedOnce == audits <= 1

(* The service never stops asking: while it waits, a write was asked no    *)
(* longer ago than a round, a retry and a write, whether writes succeed,   *)
(* are refused or have failed, and however acts interleave                 *)
(* (publication.rs due, next).                                             *)
KeepsAsking == pc = "wait" => now - tried <= EVERY + AGAIN + Slip

(* The file a surface reads is never more than a round old while writes    *)
(* succeed (publication.rs EVERY).                                         *)
NeverStale ==
    (pc = "wait" /\ ~failing.is) => written # Never /\ now - written <= EVERY

(* A refusal is a failure, and asked only every round, once it has lasted  *)
(* a round: no refusal stays a reader's instant for longer than a round    *)
(* and one retry (publication.rs write).                                   *)
FailsInTime ==
    (pc = "wait" /\ failing.is /\ ~failing.audited) =>
        now - failing.since <= EVERY + AGAIN

(* A node a reader's lock outlives still ends: the last publication is     *)
(* given up within a round, a retry and a write (publication.rs stopped).  *)
StopsInTime ==
    pc \in {"stopped", "sleep", "done"} =>
        now - began <= EVERY + AGAIN + Slip

(* The documentation's "asked again AGAIN later": while a refusal is a     *)
(* reader's instant, the last ask is no older than one retry.              *)
AskedAgain ==
    (pc = "wait" /\ failing.is /\ ~failing.audited) =>
        now - tried <= AGAIN + Slip

(* The documentation's "audited once": a refusal kept as audited was.      *)
FailureAudited == failing.audited => audits >= 1

------------------------------------------------------------------------------
(* The strengthening the five rest on: the thread never waits beyond its   *)
(* wake, and its wake is bounded by what was last written, asked, refused  *)
(* or begun.                                                               *)
Clock ==
    /\ now >= 1 /\ written <= now /\ tried <= now /\ began <= now
    /\ written <= tried + Slip
    /\ ~failing.is => ~failing.audited
    /\ failing.is => failing.since >= 1 /\ failing.since <= now
    /\ failing.is /\ ~failing.audited => written <= failing.since

Bounds ==
    /\ audits <= 1 /\ (audits = 1 => failing.audited)
    /\ pc # "first" => failing.is \/ written # Never
    /\ pc \in {"wait", "sleep"} => now <= wake
    /\ pc = "wait" =>
         /\ wake <= tried + EVERY + AGAIN + Slip
         /\ ~failing.is => wake = written + EVERY
         /\ failing.is /\ ~failing.audited =>
              wake <= failing.since + EVERY + AGAIN
    /\ pc = "sleep" => wake <= began + EVERY + AGAIN
    /\ pc = "stopped" => now <= began + EVERY + AGAIN
    /\ pc = "done" => now <= began + EVERY + AGAIN + Slip

PublisherInv == TypeOK /\ Clock /\ Bounds
==============================================================================
