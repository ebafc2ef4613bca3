---------------------------- MODULE ServicePromise ----------------------------
(***************************************************************************)
(* What xmip-service promises whoever starts, stops and operates it, with  *)
(* nothing said of threads, channels or files: it accepts work or turns    *)
(* the start away; while it serves, the orders left for it are answered    *)
(* one by one, oldest first; a stop drains it; an order it did not answer  *)
(* waits for the next run (.src/service/run.rs, main.rs).                  *)
(***************************************************************************)
EXTENDS Sequences, Naturals

CONSTANT Order

VARIABLES
    life,   \* "starting", "serving", "draining", "stopped" or "refused"
    queue,  \* the orders left and not yet answered, oldest first
    done    \* the orders answered, in that order

promiseVars == <<life, queue, done>>

Init == life = "starting" /\ queue = <<>> /\ done = <<>>

(* The start is accepted or turned away.                                   *)
Settle ==
    /\ life = "starting" /\ life' \in {"serving", "refused"}
    /\ UNCHANGED <<queue, done>>

Leave(o) ==
    /\ queue' = Append(queue, o)
    /\ UNCHANGED <<life, done>>

Answer ==
    /\ life = "serving" /\ queue # <<>>
    /\ done' = Append(done, Head(queue)) /\ queue' = Tail(queue)
    /\ UNCHANGED life

Stop == life = "serving" /\ life' = "draining" /\ UNCHANGED <<queue, done>>

Drained == life = "draining" /\ life' = "stopped" /\ UNCHANGED <<queue, done>>

Again ==
    /\ life \in {"stopped", "refused"} /\ life' = "starting"
    /\ UNCHANGED <<queue, done>>

Next ==
    \/ Settle \/ Answer \/ Stop \/ Drained \/ Again
    \/ \E o \in Order : Leave(o)

Spec == Init /\ [][Next]_promiseVars

(* A start is settled, a stop drains, and a serving node answers.          *)
FairSpec ==
    /\ Spec
    /\ WF_promiseVars(Settle)
    /\ WF_promiseVars(Drained)
    /\ WF_promiseVars(Answer)
==============================================================================
