------------------------------- MODULE Service -------------------------------
(***************************************************************************)
(* The one way xmip-service runs a node (.src/service/run.rs), with the    *)
(* stops that reach it (console.rs, control_manager.rs), the orders it     *)
(* takes (orders.rs), the acts its operate listener takes and what it      *)
(* publishes (publication.rs).                                             *)
(*                                                                         *)
(* Threads: the service's own (pc), the signal or control handler (Stop),  *)
(* the directory watch (Notify), the operate listener (Act, TellAct) and   *)
(* whoever leaves an order in the directory (Leave).  They meet in one     *)
(* mpsc channel (told) and in the node's state (version).                  *)
(*                                                                         *)
(* Time is abstracted here: the publication's round may be due at any look *)
(* and a wait may end at any instant; module Publisher keeps the clock.    *)
(***************************************************************************)
EXTENDS Naturals, Sequences, FiniteSets

CONSTANTS
    Order,      \* the orders an operator may leave, each left at most once
    Stopper,    \* who may stop the node, as the stop record says it
    Manager,    \* "signal" (systemd, launchd, a console) or "scm" (Windows)
    MaxStops,   \* stops sent in one run
    MaxActs,    \* acts taken over the operate listener, all runs together
    MaxRuns     \* times the process is started

ASSUME ServiceAssumption ==
    /\ Manager \in {"signal", "scm"}
    /\ {"Orders", "Acted"} \cap Stopper = {}
    /\ "nobody" \notin Stopper
    /\ MaxStops \in Nat /\ MaxActs \in Nat /\ MaxRuns \in Nat

VARIABLES
    pc,         \* where the service's thread is in run::serve
    runs,       \* processes started so far
    ended,      \* run::Ended of this run: "no", "Stopped" or "Refused"
    running,    \* the node: "none", "up", "draining" or "stopped"
    operate,    \* its operate listeners are held
    watching,   \* the directory watch is held
    declared,   \* its ADR-0053 declaration is on disk
    reported,   \* what the service manager was told last
    told,       \* the channel, oldest first
    stops,      \* the stops sent in this run, oldest first (history)
    by,         \* who the run says stopped it
    left,       \* every order ever left, oldest first (history)
    dir,        \* the orders lying in <data>/orders
    batch,      \* the orders taken and not yet applied
    handled,    \* every order applied or refused, in that order (history)
    notices,    \* changes the watch has seen and not yet told
    acts,       \* acts taken so far
    telling,    \* acts applied that the listener has not yet told
    version,    \* the node's state: the orders and acts applied to it
    taking,     \* served's `taking`
    acted,      \* served's `acted`
    applied,    \* served's `applied > 0`
    text,       \* the publication being written
    last,       \* Publisher::last
    board,      \* what the operate listener answers: [shows, stopped]
    file,       \* <data>/snapshot.xmip, as board
    failing     \* Publisher::failing is Some

orderVars == <<left, dir, batch, handled, notices>>
nodeVars == <<acts, telling, version>>
loopVars == <<taking, acted, applied>>
shownVars == <<text, last, board, file, failing>>
channelVars == <<told, stops, by>>
lifeVars == <<runs, ended, running, operate, watching, declared, reported>>

vars == <<pc, runs, ended, running, operate, watching, declared, reported,
          told, stops, by, left, dir, batch, handled, notices, acts, telling,
          version, taking, acted, applied, text, last, board, file, failing>>

(* What the service is told: a stop, by whom; that the place it takes      *)
(* orders changed; that an act was taken.                                  *)
Told == {"Orders", "Acted"} \cup Stopper

(* No publication yet.  A publication is what it shows of the node's state *)
(* and whether it says the node stopped.                                   *)
Unpublished == [shows |-> 0, stopped |-> FALSE, there |-> FALSE]
Publication == [shows : Nat, stopped : BOOLEAN, there : BOOLEAN]

Serving == {"take", "apply", "due", "write", "hear", "heard"}

Elements(s) == {s[i] : i \in DOMAIN s}

------------------------------------------------------------------------------
Init ==
    /\ pc = "handler" /\ runs = 1 /\ ended = "no" /\ running = "none"
    /\ operate = FALSE /\ watching = FALSE /\ declared = FALSE
    /\ reported = "nothing"
    /\ told = <<>> /\ stops = <<>> /\ by = "nobody"
    /\ left = <<>> /\ dir = <<>> /\ batch = <<>> /\ handled = <<>>
    /\ notices = 0 /\ acts = 0 /\ telling = 0 /\ version = 0
    /\ taking = FALSE /\ acted = FALSE /\ applied = FALSE
    /\ text = 0 /\ last = 0 /\ board = Unpublished /\ file = Unpublished
    /\ failing = FALSE

(* The run is over: run::serve returns, dropping its listeners, its watch  *)
(* and its declaration; the control manager is told the exit code.         *)
Return(how) ==
    /\ pc' = "ended" /\ ended' = how
    /\ operate' = FALSE /\ watching' = FALSE /\ declared' = FALSE
    /\ notices' = 0 /\ telling' = 0
    /\ reported' = IF Manager = "scm" /\ reported # "nothing"
                   THEN "Stopped" ELSE reported

(* Mutant of Refuse: the early return forgets running.stop().              *)
Refuse_LeavesNode ==
    /\ Return("Refused")
    /\ UNCHANGED <<runs, running, channelVars, left, dir, batch, handled, acts,
                   version, loopVars, shownVars>>

(* A refusal before anything serves: the node, where it started, is stopped *)
(* and the run ends Refused.                                                *)
Refuse ==
    /\ Return("Refused")
    /\ running' = IF running = "up" THEN "stopped" ELSE running
    /\ UNCHANGED <<runs, channelVars, left, dir, batch, handled, acts,
                   version, loopVars, shownVars>>

(* The stop handler is taken before the node starts; Windows is told the   *)
(* start is pending once its control handler is registered.                *)
TakeStopHandler ==
    /\ pc = "handler"
    /\ \/ /\ pc' = "start"
          /\ reported' = IF Manager = "scm" THEN "StartPending" ELSE reported
          /\ UNCHANGED <<runs, ended, running, operate, watching, declared,
                         channelVars, orderVars, nodeVars, loopVars, shownVars>>
       \/ Refuse

(* Running::start, which reads the configuration and starts its phases.    *)
Start ==
    /\ pc = "start"
    /\ \/ /\ pc' = "operate" /\ running' = "up"
          /\ UNCHANGED <<runs, ended, operate, watching, declared, reported,
                         channelVars, orderVars, nodeVars, loopVars, shownVars>>
       \/ Refuse

(* The operate listeners, over the board.                                  *)
Operate ==
    /\ pc = "operate"
    /\ \/ /\ pc' = "authorize" /\ operate' = TRUE
          /\ UNCHANGED <<runs, ended, running, watching, declared, reported,
                         channelVars, orderVars, nodeVars, loopVars, shownVars>>
       \/ Refuse

(* The cluster's authority, where the configuration serves one.            *)
Authorize ==
    /\ pc = "authorize"
    /\ \/ /\ pc' = "watch"
          /\ UNCHANGED <<lifeVars, channelVars, orderVars, nodeVars, loopVars,
                         shownVars>>
       \/ Refuse

(* The watch over the orders' place.  An order already lying there is not  *)
(* told: only what changes from here on is.                                *)
Watch ==
    /\ pc = "watch"
    /\ \/ /\ pc' = "declare" /\ watching' = TRUE
          /\ UNCHANGED <<runs, ended, running, operate, declared, reported,
                         channelVars, orderVars, nodeVars, loopVars, shownVars>>
       \/ Refuse

(* Mutant of Declare: the first publication is of a node not yet restored. *)
Declare_Unrestored ==
    /\ pc = "declare"
    /\ pc' = "write" /\ declared' \in BOOLEAN /\ text' = 0
    /\ UNCHANGED <<runs, ended, running, operate, watching, reported,
                   channelVars, orderVars, nodeVars, loopVars, last, board,
                   file, failing>>

(* Declare itself - a failure is audited and the node goes on - and read   *)
(* what the first publication says.                                        *)
Declare ==
    /\ pc = "declare"
    /\ pc' = "write" /\ declared' \in BOOLEAN /\ text' = version
    /\ UNCHANGED <<runs, ended, running, operate, watching, reported,
                   channelVars, orderVars, nodeVars, loopVars, last, board,
                   file, failing>>

(* Publisher::write: the file is replaced whole or, refused, left as it    *)
(* was; the board is posted either way.  The first write is followed by    *)
(* `ready`, every other by the wait.                                       *)
Write ==
    /\ pc = "write"
    /\ board' = [shows |-> text, stopped |-> FALSE, there |-> TRUE]
    /\ \/ file' = board' /\ failing' = FALSE
       \/ file' = file /\ failing' = TRUE
    /\ last' = text
    /\ pc' = IF board.there THEN "hear" ELSE "ready"
    /\ UNCHANGED <<lifeVars, channelVars, orderVars, nodeVars, loopVars, text>>

(* Mutant of Ready: the loop waits for the watch before its first look.    *)
Ready_NoFirstLook ==
    /\ pc = "ready"
    /\ reported' = "Running"
    /\ pc' = "take" /\ taking' = FALSE /\ acted' = FALSE
    /\ UNCHANGED <<runs, ended, running, operate, watching, declared,
                   channelVars, orderVars, nodeVars, applied, shownVars>>

(* The node accepts work, which the manager is told; the loop begins by    *)
(* taking the orders left before the watch began.                          *)
Ready ==
    /\ pc = "ready"
    /\ reported' = "Running"
    /\ pc' = "take" /\ taking' = TRUE /\ acted' = FALSE
    /\ UNCHANGED <<runs, ended, running, operate, watching, declared,
                   channelVars, orderVars, nodeVars, applied, shownVars>>

(* Mutant of Take: the orders lying there are taken newest first, as a     *)
(* directory may list them.                                                *)
Take_AsListed ==
    /\ pc = "take"
    /\ applied' = FALSE
    /\ IF taking
       THEN /\ pc' = "apply" /\ dir' = <<>>
            /\ batch' = [i \in DOMAIN dir |-> dir[1 + Len(dir) - i]]
            /\ notices' = IF Manager = "scm" /\ dir # <<>>
                          THEN notices + 1 ELSE notices
       ELSE pc' = "due" /\ UNCHANGED <<batch, dir, notices>>
    /\ UNCHANGED <<lifeVars, channelVars, left, handled, nodeVars, taking,
                   acted, shownVars>>

(* orders::take: every order lying there is taken, oldest first.  Windows  *)
(* tells the watch of a name that goes as of one that comes.               *)
Take ==
    /\ pc = "take"
    /\ applied' = FALSE
    /\ IF taking
       THEN /\ pc' = "apply" /\ batch' = dir /\ dir' = <<>>
            /\ notices' = IF Manager = "scm" /\ dir # <<>>
                          THEN notices + 1 ELSE notices
       ELSE pc' = "due" /\ UNCHANGED <<batch, dir, notices>>
    /\ UNCHANGED <<lifeVars, channelVars, left, handled, nodeVars, taking,
                   acted, shownVars>>

(* One taken order is applied, or refused and audited.                     *)
Apply ==
    /\ pc = "apply" /\ batch # <<>>
    /\ batch' = Tail(batch) /\ handled' = Append(handled, Head(batch))
    /\ \/ version' = version + 1 /\ applied' = TRUE
       \/ version' = version /\ applied' = applied
    /\ UNCHANGED <<pc, lifeVars, channelVars, left, dir, notices, acts,
                   telling, taking, acted, shownVars>>

(* Every order of the look was applied.                                    *)
AllApplied ==
    /\ pc = "apply" /\ batch = <<>>
    /\ pc' = "due"
    /\ UNCHANGED <<lifeVars, channelVars, orderVars, nodeVars, loopVars,
                   shownVars>>

(* Publish at once after an order or an act, otherwise when the round is   *)
(* due: the publication says what the node is now and is then written.     *)
Due ==
    /\ pc = "due"
    /\ \/ pc' = "write" /\ text' = version
       \/ ~applied /\ ~acted /\ pc' = "hear" /\ text' = text
    /\ UNCHANGED <<lifeVars, channelVars, orderVars, nodeVars, loopVars, last,
                   board, file, failing>>

(* Mutant of Heard: the last message of a burst is the one that counts.    *)
Heard_LastCounts(m, orders, act) ==
    /\ told' = Tail(told)
    /\ IF m \in Stopper
       THEN pc' = "stopping" /\ by' = m /\ taking' = orders /\ acted' = act
       ELSE /\ pc' = "heard" /\ by' = by
            /\ taking' = (m = "Orders") /\ acted' = (m = "Acted")
    /\ UNCHANGED <<lifeVars, stops, orderVars, nodeVars, applied, shownVars>>

(* Mutant of Heard: a stop within a burst is passed over.                  *)
Heard_StopPassedOver(m, orders, act) ==
    /\ told' = Tail(told)
    /\ IF m \in Stopper /\ pc = "hear"
       THEN pc' = "stopping" /\ by' = m /\ taking' = orders /\ acted' = act
       ELSE /\ pc' = "heard" /\ by' = by
            /\ taking' = (orders \/ m = "Orders")
            /\ acted' = (act \/ m = "Acted")
    /\ UNCHANGED <<lifeVars, stops, orderVars, nodeVars, applied, shownVars>>

(* hear: the oldest message waiting; a stop ends the wait at once, the     *)
(* messages behind it left where they are.                                 *)
Heard(m, orders, act) ==
    /\ told' = Tail(told)
    /\ IF m \in Stopper
       THEN pc' = "stopping" /\ by' = m /\ taking' = orders /\ acted' = act
       ELSE /\ pc' = "heard" /\ by' = by
            /\ taking' = (orders \/ m = "Orders")
            /\ acted' = (act \/ m = "Acted")
    /\ UNCHANGED <<lifeVars, stops, orderVars, nodeVars, applied, shownVars>>

(* recv_timeout hears the first message, or nothing within the wait.       *)
Hear ==
    /\ pc = "hear"
    /\ \/ told # <<>> /\ Heard(Head(told), FALSE, FALSE)
       \/ /\ told = <<>>
          /\ pc' = "take" /\ taking' = FALSE /\ acted' = FALSE
          /\ UNCHANGED <<lifeVars, channelVars, orderVars, nodeVars, applied,
                         shownVars>>

(* try_iter hears every message that is there, one by one.                 *)
HearMore ==
    /\ pc = "heard"
    /\ \/ told # <<>> /\ Heard(Head(told), taking, acted)
       \/ /\ told = <<>> /\ pc' = "take"
          /\ UNCHANGED <<lifeVars, channelVars, orderVars, nodeVars, loopVars,
                         shownVars>>

(* The watch is dropped and the manager told the node stops, before the    *)
(* drain begins.                                                           *)
Stopping ==
    /\ pc = "stopping"
    /\ pc' = "drain" /\ watching' = FALSE /\ notices' = 0
    /\ reported' = "StopPending" /\ running' = "draining"
    /\ UNCHANGED <<runs, ended, operate, declared, channelVars, left, dir,
                   batch, handled, nodeVars, loopVars, shownVars>>

(* running.stop() returns its outcomes.                                    *)
Drain ==
    /\ pc = "drain"
    /\ pc' = "stopped" /\ running' = "stopped"
    /\ UNCHANGED <<runs, ended, operate, watching, declared, reported,
                   channelVars, orderVars, nodeVars, loopVars, shownVars>>

(* Publisher::stopped: what was published last, saying the node stopped,   *)
(* asked again for a round where a reader held the file; then run::serve   *)
(* returns.                                                                *)
Stopped ==
    /\ pc = "stopped"
    /\ board' = [shows |-> last, stopped |-> TRUE, there |-> TRUE]
    /\ \/ file' = board' /\ failing' = FALSE
       \/ file' = file /\ failing' = TRUE
    /\ Return("Stopped")
    /\ UNCHANGED <<runs, running, channelVars, left, dir, batch, handled, acts,
                   version, loopVars, text, last>>

(* A process started again, by an operator or the service manager: what it *)
(* keeps on disk and the node's state in Xmip Storage are what it left.    *)
StartAgain ==
    /\ pc = "ended" /\ runs < MaxRuns
    /\ pc' = "handler" /\ runs' = runs + 1 /\ ended' = "no"
    /\ running' = "none" /\ reported' = "nothing"
    /\ told' = <<>> /\ stops' = <<>> /\ by' = "nobody"
    /\ taking' = FALSE /\ acted' = FALSE /\ applied' = FALSE
    /\ text' = 0 /\ last' = 0 /\ board' = Unpublished /\ failing' = FALSE
    /\ UNCHANGED <<operate, watching, declared, orderVars, nodeVars, file>>

------------------------------------------------------------------------------
(* A stop: a signal, or for a test's node the end of its input, from the   *)
(* moment the handler is taken; a control only where the manager was told  *)
(* it is accepted, while the node is reported running.                     *)
Stop(s) ==
    /\ ended = "no" /\ Len(stops) < MaxStops
    /\ IF Manager = "scm" THEN reported = "Running" ELSE pc # "handler"
    /\ told' = Append(told, s) /\ stops' = Append(stops, s)
    /\ UNCHANGED <<pc, lifeVars, by, orderVars, nodeVars, loopVars, shownVars>>

(* An operator leaves an order, whether or not the node runs; a held watch *)
(* sees it renamed in.                                                     *)
Leave(o) ==
    /\ o \notin Elements(left)
    /\ left' = Append(left, o) /\ dir' = Append(dir, o)
    /\ notices' = IF watching THEN notices + 1 ELSE notices
    /\ UNCHANGED <<pc, lifeVars, channelVars, batch, handled, nodeVars,
                   loopVars, shownVars>>

(* The watch's thread tells the service of a change.                       *)
Notify ==
    /\ notices > 0
    /\ notices' = notices - 1 /\ told' = Append(told, "Orders")
    /\ UNCHANGED <<pc, lifeVars, stops, by, left, dir, batch, handled,
                   nodeVars, loopVars, shownVars>>

(* The operate listener applies an act to the node ...                     *)
Act ==
    /\ operate /\ running \in {"up", "draining"} /\ acts < MaxActs
    /\ acts' = acts + 1 /\ version' = version + 1 /\ telling' = telling + 1
    /\ UNCHANGED <<pc, lifeVars, channelVars, orderVars, loopVars, shownVars>>

(* Mutant of TellAct: the act is applied and nobody is told.               *)
TellAct_Silent ==
    /\ telling > 0 /\ telling' = telling - 1
    /\ UNCHANGED <<pc, lifeVars, told, stops, by, orderVars, acts, version,
                   loopVars, shownVars>>

(* ... and then tells the service of it (Published::acted).                *)
TellAct ==
    /\ telling > 0
    /\ telling' = telling - 1 /\ told' = Append(told, "Acted")
    /\ UNCHANGED <<pc, lifeVars, stops, by, orderVars, acts, version, loopVars,
                   shownVars>>

Thread ==
    \/ TakeStopHandler \/ Start \/ Operate \/ Authorize \/ Watch \/ Declare
    \/ Write \/ Ready \/ Take \/ Apply \/ AllApplied \/ Due \/ Hear \/ HearMore
    \/ Stopping \/ Drain \/ Stopped

Next ==
    \/ Thread
    \/ StartAgain
    \/ \E s \in Stopper : Stop(s)
    \/ \E o \in Order : Leave(o)
    \/ Notify \/ Act \/ TellAct

Spec == Init /\ [][Next]_vars

(* The service's thread, the watch's and the listener's are scheduled by   *)
(* the operating system; nobody is obliged to stop the node, to leave an   *)
(* order, to act or to start it again.                                     *)
FairSpec == Spec /\ WF_vars(Thread) /\ WF_vars(Notify) /\ WF_vars(TellAct)

------------------------------------------------------------------------------
LifeTypes ==
    /\ pc \in {"handler", "start", "operate", "authorize", "watch", "declare",
               "ready", "stopping", "drain", "stopped", "ended"} \cup Serving
    /\ runs \in Nat /\ ended \in {"no", "Stopped", "Refused"}
    /\ running \in {"none", "up", "draining", "stopped"}
    /\ operate \in BOOLEAN /\ watching \in BOOLEAN /\ declared \in BOOLEAN
    /\ reported \in {"nothing", "StartPending", "Running", "StopPending",
                     "Stopped"}

ChannelTypes ==
    /\ told \in Seq(Told) /\ stops \in Seq(Stopper)
    /\ by \in Stopper \cup {"nobody"}

OrderTypes ==
    /\ left \in Seq(Order) /\ dir \in Seq(Order) /\ batch \in Seq(Order)
    /\ handled \in Seq(Order) /\ notices \in Nat

NodeTypes ==
    /\ acts \in Nat /\ telling \in Nat /\ version \in Nat
    /\ taking \in BOOLEAN /\ acted \in BOOLEAN /\ applied \in BOOLEAN

ShownTypes ==
    /\ text \in Nat /\ last \in Nat
    /\ board \in Publication /\ file \in Publication /\ failing \in BOOLEAN

(* Type invariant.                                                         *)
TypeOK == LifeTypes /\ ChannelTypes /\ OrderTypes /\ NodeTypes /\ ShownTypes

(* No order is forgotten: while the node is reported running, an order     *)
(* lying in the directory is about to be taken, or a wake-up for it is on  *)
(* its way - from the watch, or in the channel.  The loop never waits over *)
(* an order nobody will tell it of, the ones left before the watch began   *)
(* and the ones left during a look included (run.rs served, hear).         *)
NoLostOrder ==
    (reported = "Running" /\ pc \in Serving /\ dir # <<>>) =>
        \/ pc \in {"take", "heard"} /\ taking
        \/ notices > 0
        \/ "Orders" \in Elements(told)

(* What the publication in hand, or else the last one, shows.              *)
Showing == IF pc = "write" THEN text ELSE board.shows

(* No act and no applied order goes unpublished: while the node is         *)
(* reported running and its state is not what the board shows, the loop is *)
(* about to publish or a wake-up is on its way (run.rs served, hear;       *)
(* publication.rs Telling::acted).                                         *)
NoLostAct ==
    (reported = "Running" /\ pc \in Serving /\ Showing # version) =>
        \/ pc \in {"take", "apply", "due", "heard"} /\ acted
        \/ pc \in {"apply", "due"} /\ applied
        \/ telling > 0
        \/ "Acted" \in Elements(told)

(* The manager is told the node runs only while the node is up, watched,   *)
(* operated and published, and not yet said to have stopped (run.rs serve: *)
(* `ready` after the first publication, `stopping` before the drain).      *)
ReadyIsTrue ==
    reported = "Running" =>
        /\ running = "up" /\ operate /\ watching
        /\ board.there /\ ~board.stopped

(* Whichever way a run ends - drained, or refused at any of its steps - no *)
(* node is left running, no listener, watch or declaration held            *)
(* (run.rs serve, every early return).                                     *)
EndsClean ==
    ended # "no" =>
        /\ running \in {"none", "stopped"}
        /\ ~operate /\ ~watching /\ ~declared /\ notices = 0

(* The stop record names the stop that was sent first, however many race   *)
(* (run.rs hear, console.rs, control_manager.rs answer).                   *)
FirstStopNamed ==
    by # "nobody" => stops # <<>> /\ by = stops[1]

(* Every order is answered exactly once and oldest first, across restarts: *)
(* what was answered, what is in hand and what lies in the directory are,  *)
(* in that order, what was left (orders.rs take).                          *)
OldestFirst == handled \o batch \o dir = left

(* A drained node's board says it stopped, and its file too unless the     *)
(* write was refused for the whole round (publication.rs stopped).         *)
StopShown ==
    ended = "Stopped" => board.stopped /\ (file = board \/ failing)

(* What a surface reads never goes back: the file never shows less of the  *)
(* node's state than it already did, over restarts too.                    *)
FileNeverBack == [][file'.shows >= file.shows]_vars

(* A stop told is a run ended: whatever the thread is doing.               *)
StopEnds ==
    \A s \in Stopper :
        (s \in Elements(told) /\ ended = "no") ~> (ended # "no")

(* An order lying in the directory of a running node is answered unless    *)
(* the node is stopped.                                                    *)
OrderAnswered ==
    \A o \in Order :
        (reported = "Running" /\ o \in Elements(dir)) ~>
            (o \in Elements(handled) \/ reported # "Running")

(* What changed the node is shown on the board unless the node is stopped. *)
ChangeShown ==
    \A v \in 1..(Cardinality(Order) + MaxActs) :
        (reported = "Running" /\ version >= v) ~>
            (board.shows >= v \/ reported # "Running")

(* The documentation's claim that an act shows in the next publication:    *)
(* one the service heard of is never followed by a publication without it. *)
HeardActShown ==
    (ended = "Stopped" /\ acted) => board.shows = version

------------------------------------------------------------------------------
(* Where the run is, as the promise tells it.                              *)
Life ==
    CASE reported = "Running" -> "serving"
      [] pc \in {"drain", "stopped"} -> "draining"
      [] ended = "Stopped" -> "stopped"
      [] ended = "Refused" -> "refused"
      [] OTHER -> "starting"

Promise == INSTANCE ServicePromise
               WITH life <- Life, queue <- batch \o dir, done <- handled

(* The service keeps its promise: every step of its threads is a step of   *)
(* ServicePromise or none, a start settles, a stop drains and a serving    *)
(* node answers the orders left for it (run.rs serve).                     *)
PromiseKept == Promise!FairSpec

(* The same, without what must eventually happen.                          *)
PromiseSteps == Promise!Spec

------------------------------------------------------------------------------
(* The strengthening the invariants above rest on.                         *)

Started == {"operate", "authorize", "watch", "declare", "ready", "stopping"}
               \cup Serving
Operated == (Started \cup {"drain", "stopped"}) \ {"operate"}
Watched == {"declare", "ready", "stopping"} \cup Serving
Before == {"handler", "start", "operate", "authorize", "watch", "declare"}

(* What is held, reported and published where the thread is.               *)
LifeInv ==
    /\ pc = "ended" <=> ended # "no"
    /\ pc \in {"handler", "start"} => running = "none"
    /\ pc \in Started => running = "up"
    /\ pc = "drain" => running = "draining"
    /\ pc = "stopped" => running = "stopped"
    /\ pc = "ended" => running \in {"none", "stopped"} /\ ~declared
    /\ operate <=> pc \in Operated
    /\ watching <=> pc \in Watched
    /\ notices > 0 => watching
    /\ reported = "Running" <=>
         \/ pc \in (Serving \cup {"stopping"}) \ {"write"}
         \/ pc = "write" /\ board.there
    /\ pc \in Before => ~board.there
    /\ pc \in {"ready", "stopping"} \cup (Serving \ {"write"}) => board.there
    /\ board.stopped => pc = "ended"
    /\ pc # "apply" => batch = <<>>

(* NoLostAct, from the first publication on.                               *)
ActInv ==
    (pc \in Serving \cup {"ready"} /\ Showing # version) =>
        \/ pc \in {"take", "apply", "due", "heard"} /\ acted
        \/ pc \in {"apply", "due"} /\ applied
        \/ telling > 0
        \/ "Acted" \in Elements(told)

(* The stop sent first is the first stop in the channel until it is heard. *)
StopInv ==
    /\ by # "nobody" => pc \in {"stopping", "drain", "stopped", "ended"}
    /\ by = "nobody" /\ stops = <<>> =>
         \A i \in DOMAIN told : told[i] \notin Stopper
    /\ by = "nobody" /\ stops # <<>> =>
         \E i \in DOMAIN told :
            /\ told[i] = stops[1]
            /\ \A j \in 1..(i - 1) : told[j] \notin Stopper

(* The file shows no more than what is about to replace it.                *)
ShownInv ==
    /\ text <= version /\ last <= version /\ file.shows <= version
    /\ pc = "write" => file.shows <= text
    /\ pc \in {"ready", "drain", "stopped", "stopping"} \cup (Serving \ {"write"})
         => file.shows <= last

ServiceInv ==
    /\ TypeOK /\ LifeInv /\ NoLostOrder /\ ActInv /\ StopInv
    /\ FirstStopNamed /\ OldestFirst /\ ShownInv /\ StopShown
==============================================================================
