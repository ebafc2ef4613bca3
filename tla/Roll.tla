-------------------------------- MODULE Roll --------------------------------
(***************************************************************************)
(* An Essentials roll from Start-XmipTest to Stop-XmipTest: a detached     *)
(* pwsh builds it, asks again whether its cluster already rolls, spawns    *)
(* the roll and records it; the roll spawns a cluster process, which       *)
(* spawns and respawns nodes; any console lists the runs and stops them    *)
(* (Xmip/Start-XmipEssentialsRoll.ps1, Start-XmipEssentialsBuild.ps1,      *)
(* Start-XmipEssentialsRollProcess.ps1, Get-XmipEssentialsBuild.ps1,       *)
(* Get-XmipTestStatus.ps1, Stop-XmipTest.ps1, Stop-XmipTestCluster.ps1,    *)
(* Stop-XmipTestNode.ps1).                                                 *)
(*                                                                         *)
(* Two records stand for a run and nothing locks either: the build record, *)
(* until the roll has its own, and the run record after that.  Every roll  *)
(* here is of one cluster, which is what the refusals are about.  A start  *)
(* is named by the attempt that made it; its build, roll, cluster process  *)
(* and nodes are that attempt's.                                           *)
(***************************************************************************)
EXTENDS Naturals, FiniteSets

CONSTANTS
    Starter,    \* the consoles that start rolls
    Stopper,    \* the consoles that list and stop them
    Attempt,    \* the starts there may be
    Node,       \* the places a cluster keeps a node in
    None,       \* no attempt
    MaxFaults   \* how often a start or stop is cut off, a build dies or a write fails

ASSUME RollAssumption ==
    /\ None \notin Attempt
    /\ MaxFaults \in Nat

VARIABLES
    build,      \* build[a]: where the detached build of a is
    brec,       \* brec[a]: what its build record says, "none" if no file
    roll,       \* roll[a]: its roll process: "none", "up" or "gone"
    rrec,       \* rrec[a]: whether its run record is there
    clus,       \* clus[a]: its cluster process: "none", "up" or "gone"
    node,       \* node[a][n]: "none", "up", or "declared" (ADR-0053)
    con,        \* con[c]: what console c is doing
    whole,      \* the rolls a Stop-XmipTest reported stopped that it found with
                \* a run record and a cluster process, as history
    missed,     \* missed[a]: the nodes up and undeclared at its sweep, as history
    faults,     \* the faults there have been
    image,      \* the cluster's images: "linked" by a start, "taken" by a stop
    raced       \* the starts of which one asked before the other recorded, in pairs

imageVars == <<image, raced>>
vars == <<build, brec, roll, rrec, clus, node, con, whole, missed, faults,
          imageVars>>

Console == Starter \cup Stopper

\* What a console may be doing: the step, the run it deals with, the rolls
\* and builds it listed, the nodes it is to end, the rolls whose record it
\* saw, and whether it found the run's cluster.
Session ==
    [at : {"idle", "ended", "rolling", "building", "launch", "write", "list", "pick",
           "nodes", "cluster", "sweep", "roll", "take", "images"},
     run : Attempt \cup {None}, rolls : SUBSET Attempt, builds : SUBSET Attempt,
     nodes : SUBSET (Attempt \X Node), known : SUBSET Attempt, whole : BOOLEAN]

Idle == [at |-> "idle", run |-> None, rolls |-> {}, builds |-> {}, nodes |-> {}, known |-> {}, whole |-> FALSE]

NoNodes == [n \in Node |-> "none"]

\* Test-XmipDetachedAlive of a build's pwsh.
Alive(a) == build[a] \notin {"unborn", "gone"}

\* Get-XmipEssentialsBuild: the builds listed as building.
Building == {a \in Attempt : brec[a] = "start" /\ Alive(a)}

\* Those listed as FAILED: the build wrote why, or is gone and wrote nothing.
Failed == {a \in Attempt : brec[a] = "FAILED" \/ (brec[a] = "start" /\ ~Alive(a))}

\* Get-XmipEssentialsRolling: the run records, whose rolls are not asked after.
Rolling == {a \in Attempt : rrec[a]}

Init ==
    /\ build = [a \in Attempt |-> "unborn"]
    /\ brec = [a \in Attempt |-> "none"]
    /\ roll = [a \in Attempt |-> "none"]
    /\ rrec = [a \in Attempt |-> FALSE]
    /\ clus = [a \in Attempt |-> "none"]
    /\ node = [a \in Attempt |-> NoNodes]
    /\ con = [c \in Console |-> Idle]
    /\ whole = {}
    /\ faults = 0
    /\ missed = [a \in Attempt |-> {}]
    /\ image = "none" /\ raced = {}

-----------------------------------------------------------------------------
(* Start-XmipEssentialsRoll, in a console.                                 *)

\* Attempt bounds the starts: a console begins one while more are left than
\* consoles have begun.
StartsLeft ==
    Cardinality({c \in Console : con[c].at \in {"ended", "rolling", "building", "launch"}})
        < Cardinality({a \in Attempt : build[a] = "unborn"})

\* Mutant of RemoveStale: every roll's record goes, running or not.
RemoveStale_Rebuilt(c) ==
    /\ c \in Starter /\ con[c].at = "idle" /\ StartsLeft
    /\ rrec' = [a \in Attempt |-> FALSE]
    /\ con' = [con EXCEPT ![c].at = "ended"]
    /\ UNCHANGED <<build, brec, roll, clus, node, whole, missed, faults, imageVars>>

\* What ended runs left is deleted first: the run records whose roll is no
\* longer running ...
RemoveStale(c) ==
    /\ c \in Starter /\ con[c].at = "idle" /\ StartsLeft
    /\ rrec' = [a \in Attempt |-> rrec[a] /\ roll[a] = "up"]
    /\ con' = [con EXCEPT ![c].at = "ended"]
    /\ UNCHANGED <<build, brec, roll, clus, node, whole, missed, faults, imageVars>>

\* ... then the records of the cluster's ended builds.  A process that has
\* ended never comes back, so each is one step.
RemoveEnded(c) ==
    /\ con[c].at = "ended"
    /\ brec' = [a \in Attempt |-> IF a \in Failed THEN "none" ELSE brec[a]]
    /\ con' = [con EXCEPT ![c].at = "rolling"]
    /\ UNCHANGED <<build, roll, rrec, clus, node, whole, missed, faults, imageVars>>

\* REFUSED where the cluster already rolls ...
AskRolling(c) ==
    /\ con[c].at = "rolling"
    /\ con' = [con EXCEPT ![c] = IF Rolling = {} THEN [Idle EXCEPT !.at = "building"] ELSE Idle]
    /\ UNCHANGED <<build, brec, roll, rrec, clus, node, whole, missed, faults, imageVars>>

\* ... or builds, which is asked next.
AskBuilding(c) ==
    /\ con[c].at = "building"
    /\ con' = [con EXCEPT ![c] = IF Building = {} THEN [Idle EXCEPT !.at = "launch"] ELSE Idle]
    /\ UNCHANGED <<build, brec, roll, rrec, clus, node, whole, missed, faults, imageVars>>

\* The run's cluster file is written and read back; roles its nodes do not
\* cover are REFUSED before anything starts.
RefuseRoles(c) ==
    /\ con[c].at = "launch"
    /\ con' = [con EXCEPT ![c] = Idle]
    /\ UNCHANGED <<build, brec, roll, rrec, clus, node, whole, missed, faults, imageVars>>

\* Start-XmipEssentialsBuild: the start is handed over as a file and the
\* build's pwsh begins.
Launch(c, a) ==
    /\ con[c].at = "launch"
    /\ build[a] = "unborn"
    /\ build' = [build EXCEPT ![a] = "building"]
    /\ con' = [con EXCEPT ![c] = [Idle EXCEPT !.at = "write", !.run = a]]
    /\ UNCHANGED <<brec, roll, rrec, clus, node, whole, missed, faults, imageVars>>

\* The build record, written only where no file is.
WriteStart(c) ==
    /\ con[c].at = "write"
    /\ brec' = [brec EXCEPT ![con[c].run] = IF @ = "none" THEN "start" ELSE @]
    /\ con' = [con EXCEPT ![c] = Idle]
    /\ UNCHANGED <<build, roll, rrec, clus, node, whole, missed, faults, imageVars>>

-----------------------------------------------------------------------------
(* Complete-XmipEssentialsBuild, in the build's own pwsh.                  *)

BuildAt(a, from, to) ==
    /\ build[a] = from
    /\ build' = [build EXCEPT ![a] = to]

\* cargo builds the roll and the service, or fails.
Cargo(a) ==
    /\ BuildAt(a, "building", "asking") \/ BuildAt(a, "building", "failing")
    /\ UNCHANGED <<brec, roll, rrec, clus, node, con, whole, missed, faults, imageVars>>

\* The starts that have asked and not recorded their roll yet.
Unrecorded == {b \in Attempt : build[b] \in {"spawning", "linked", "spawned"}}

\* a goes on to spawn its roll.
GoesOn(a) ==
    /\ BuildAt(a, "asking", "spawning")
    /\ raced' = raced \cup {{a, b} : b \in Unrecorded}

\* Mutant of AskAgain: what the console asked before the build is trusted.
AskAgain_Trusts(a) ==
    /\ GoesOn(a)
    /\ UNCHANGED <<brec, roll, rrec, clus, node, con, whole, missed, faults, image>>

\* Start-XmipEssentialsRollProcess: a cluster that began rolling while this
\* one built is refused, by throwing.
AskAgain(a) ==
    /\ \/ Rolling = {} /\ GoesOn(a)
       \/ Rolling # {} /\ BuildAt(a, "asking", "failing") /\ UNCHANGED raced
    /\ UNCHANGED <<brec, roll, rrec, clus, node, con, whole, missed, faults, image>>

\* New-XmipEssentialsRollLaunch: the publication and the authority are
\* prepared and the cluster's images linked anew; or one of them throws.
Link(a) ==
    /\ \/ BuildAt(a, "spawning", "linked") /\ image' = "linked"
       \/ BuildAt(a, "spawning", "failing") /\ image' \in {image, "none"}
    /\ UNCHANGED <<brec, roll, rrec, clus, node, con, whole, missed, faults, raced>>

\* The roll's process begins under its image; or it does not.
Spawn(a) ==
    /\ \/ image = "linked" /\ BuildAt(a, "linked", "spawned") /\ roll' = [roll EXCEPT ![a] = "up"]
       \/ BuildAt(a, "linked", "failing") /\ UNCHANGED roll
    /\ UNCHANGED <<brec, rrec, clus, node, con, whole, missed, faults, imageVars>>

\* One more of the faults a run may meet.
Fault ==
    /\ faults < MaxFaults
    /\ faults' = faults + 1

\* The run record is written; or that throws, and the roll runs on.
RecordRoll(a) ==
    /\ \/ /\ BuildAt(a, "spawned", "recorded")
          /\ rrec' = [rrec EXCEPT ![a] = TRUE]
          /\ UNCHANGED faults
       \/ BuildAt(a, "spawned", "failing") /\ Fault /\ UNCHANGED rrec
    /\ UNCHANGED <<brec, roll, clus, node, con, whole, missed, imageVars>>

\* The build record goes, now that the roll has its own, and the pwsh ends.
RemoveBuild(a) ==
    /\ BuildAt(a, "recorded", "gone")
    /\ brec' = [brec EXCEPT ![a] = "none"]
    /\ UNCHANGED <<roll, rrec, clus, node, con, whole, missed, faults, imageVars>>

\* The build's pwsh dies on the way, and says nothing.
Dies(a) ==
    /\ Alive(a) /\ Fault
    /\ build' = [build EXCEPT ![a] = "gone"]
    /\ UNCHANGED <<brec, roll, rrec, clus, node, con, whole, missed, imageVars>>

\* The build writes why it FAILED over its record, and its pwsh ends.
Fail(a) ==
    /\ BuildAt(a, "failing", "gone")
    /\ brec' = [brec EXCEPT ![a] = "FAILED"]
    /\ UNCHANGED <<roll, rrec, clus, node, con, whole, missed, faults, imageVars>>

-----------------------------------------------------------------------------
(* The roll's tree.                                                        *)

\* The roll spawns its cluster, from the image beside its own.
SpawnCluster(a) ==
    /\ roll[a] = "up" /\ clus[a] = "none" /\ image = "linked"
    /\ clus' = [clus EXCEPT ![a] = "up"]
    /\ UNCHANGED <<build, brec, roll, rrec, node, con, whole, missed, faults, imageVars>>

\* The cluster spawns a node, and again when that one ends.
SpawnNode(a, n) ==
    /\ clus[a] = "up" /\ node[a][n] = "none"
    /\ node' = [node EXCEPT ![a][n] = "up"]
    /\ UNCHANGED <<build, brec, roll, rrec, clus, con, whole, missed, faults, imageVars>>

\* A node declares its location once it has started.
Declare(a, n) ==
    /\ node[a][n] = "up"
    /\ node' = [node EXCEPT ![a][n] = "declared"]
    /\ UNCHANGED <<build, brec, roll, rrec, clus, con, whole, missed, faults, imageVars>>

NodeEnds(a, n) ==
    /\ node[a][n] # "none"
    /\ node' = [node EXCEPT ![a][n] = "none"]
    /\ UNCHANGED <<build, brec, roll, rrec, clus, con, whole, missed, faults, imageVars>>

\* The roll reaches its rounds, stops what it spawned, takes the images it
\* can and ends.
RollEnds(a) ==
    /\ roll[a] = "up"
    /\ roll' = [roll EXCEPT ![a] = "gone"]
    /\ clus' = [clus EXCEPT ![a] = "gone"]
    /\ node' = [node EXCEPT ![a] = NoNodes]
    /\ image' = IF image = "linked" THEN "none" ELSE image
    /\ UNCHANGED <<build, brec, rrec, con, whole, missed, faults, raced>>

-----------------------------------------------------------------------------
(* Stop-XmipTest, in a console: list, then end each run picked.            *)

\* The next run of the list is picked, or there is none and the command ends.
NextOf(s) ==
    IF s.rolls = {} /\ s.builds = {} THEN Idle
    ELSE [s EXCEPT !.at = "pick", !.run = None, !.whole = FALSE, !.known = @ \cap s.rolls]

\* Get-XmipTestStatus: the live rolls first...
ListRolls(c) ==
    /\ c \in Stopper /\ con[c].at = "idle"
    /\ con' = [con EXCEPT ![c] = [Idle EXCEPT !.at = "list", !.rolls = {a \in Attempt : roll[a] = "up"}]]
    /\ UNCHANGED <<build, brec, roll, rrec, clus, node, whole, missed, faults, imageVars>>

\* ... then the builds, and the run record of each roll, which says its
\* cluster; a roll with none yet is listed with what a process can tell.
ListBuilds(c) ==
    /\ con[c].at = "list"
    /\ con' = [con EXCEPT ![c] = NextOf([@ EXCEPT !.builds = Building, !.known = Rolling])]
    /\ UNCHANGED <<build, brec, roll, rrec, clus, node, whole, missed, faults, imageVars>>

\* No more of them is to be stopped: Get-XmipTestStatus ends here too.
Listed(c) ==
    /\ con[c].at = "pick"
    /\ con' = [con EXCEPT ![c] = Idle]
    /\ UNCHANGED <<build, brec, roll, rrec, clus, node, whole, missed, faults, imageVars>>

\* Everything under the roll of a build ends with it.
TreeEnds(a) ==
    /\ roll' = [roll EXCEPT ![a] = IF @ = "up" THEN "gone" ELSE @]
    /\ clus' = [clus EXCEPT ![a] = IF @ = "up" /\ roll[a] = "up" THEN "gone" ELSE @]
    /\ node' = [node EXCEPT ![a] = IF clus[a] = "up" /\ roll[a] = "up" THEN NoNodes ELSE @]

\* Stop-XmipDetachedRun of a build: its pwsh and everything under it, then
\* its record.  A build that ended since it was listed is REFUSED, which
\* ends the command.
StopBuild(c, a) ==
    /\ con[c].at = "pick" /\ a \in con[c].builds
    /\ IF Alive(a)
       THEN /\ build' = [build EXCEPT ![a] = "gone"]
            /\ brec' = [brec EXCEPT ![a] = "none"]
            /\ TreeEnds(a)
            /\ con' = [con EXCEPT ![c] = NextOf([con[c] EXCEPT !.builds = @ \ {a}])]
       ELSE /\ con' = [con EXCEPT ![c] = Idle]
            /\ UNCHANGED <<build, brec, roll, clus, node, imageVars>>
    /\ UNCHANGED <<rrec, whole, missed, faults, imageVars>>

\* Get-XmipTestNode and Test-XmipTestNodeOfRoll: the nodes of the roll
\* picked: under its cluster process, or declared in its cluster where the
\* roll's record named one.
ListNodes(c, a) ==
    /\ con[c].at = "pick" /\ a \in con[c].rolls
    /\ con' = [con EXCEPT ![c] = [@ EXCEPT !.at = "nodes", !.run = a, !.rolls = con[c].rolls \ {a},
                 !.nodes = {x \in Attempt \X Node :
                             \/ a \in con[c].known /\ node[x[1]][x[2]] = "declared"
                             \/ /\ x[1] = a /\ node[a][x[2]] = "up"
                                /\ clus[a] = "up" /\ roll[a] = "up"}]]
    /\ UNCHANGED <<build, brec, roll, rrec, clus, node, whole, missed, faults, imageVars>>

\* Stop-XmipTestNode: the nodes listed are asked to leave through the stop
\* file, given five seconds and ended; ones spawned since are not.
StopNodes(c) ==
    /\ con[c].at = "nodes"
    /\ node' = [b \in Attempt |-> [n \in Node |->
                 IF <<b, n>> \in con[c].nodes THEN "none" ELSE node[b][n]]]
    /\ con' = [con EXCEPT ![c].at = "cluster", ![c].nodes = {}]
    /\ UNCHANGED <<build, brec, roll, rrec, clus, whole, missed, faults, imageVars>>

\* Stop-XmipTestCluster: the cluster process whose parent is the roll ends...
StopCluster(c) ==
    /\ con[c].at = "cluster"
    /\ clus' = [clus EXCEPT ![con[c].run] = IF @ = "up" /\ roll[con[c].run] = "up" THEN "gone" ELSE @]
    /\ con' = [con EXCEPT ![c].at = "sweep",
                          ![c].whole = con[c].run \in con[c].known /\ clus[con[c].run] # "none"]
    /\ UNCHANGED <<build, brec, roll, rrec, node, whole, missed, faults, imageVars>>

\* Mutant of Sweep: as it was until 2026-09-25, the process tree alone is
\* followed.
Sweep_TreeOnly(c) ==
    /\ con[c].at = "sweep"
    /\ con' = [con EXCEPT ![c].at = "roll"]
    /\ UNCHANGED <<build, brec, roll, rrec, clus, node, whole, missed, faults, imageVars>>

\* ... and then, where the record named the cluster, every process that has
\* declared a location in it.
Sweep(c) ==
    /\ con[c].at = "sweep"
    /\ IF con[c].run \notin con[c].known
       THEN UNCHANGED <<node, clus, missed, imageVars>>
       ELSE /\ node' = [b \in Attempt |-> [n \in Node |->
                          IF node[b][n] = "declared" THEN "none" ELSE node[b][n]]]
            /\ clus' = [b \in Attempt |-> IF clus[b] = "up" THEN "gone" ELSE clus[b]]
            /\ missed' = [missed EXCEPT ![con[c].run] =
                            IF con[c].whole THEN {n \in Node : node[con[c].run][n] = "up"} ELSE @]
    /\ con' = [con EXCEPT ![c].at = "roll"]
    /\ UNCHANGED <<build, brec, roll, rrec, whole, faults, imageVars>>

\* Stop-XmipProcess of the roll itself, which alone ends here; or that is
\* REFUSED, its record and images stay, and the next run picked is stopped.
StopRoll(c) ==
    /\ con[c].at = "roll"
    /\ \/ /\ roll' = [roll EXCEPT ![con[c].run] = "gone"]
          /\ con' = [con EXCEPT ![c].at = "take"]
       \/ /\ con' = [con EXCEPT ![c] = NextOf(@)]
          /\ UNCHANGED roll
    /\ UNCHANGED <<build, brec, rrec, clus, node, whole, missed, faults, imageVars>>

\* The run record the roll was listed with goes ...
TakeRecord(c) ==
    /\ con[c].at = "take"
    /\ rrec' = [rrec EXCEPT ![con[c].run] = @ /\ con[c].run \notin con[c].known]
    /\ con' = [con EXCEPT ![c].at = "images"]
    /\ UNCHANGED <<build, brec, roll, clus, node, whole, missed, faults, imageVars>>

\* ... then, where it named the cluster, the cluster's images, but for those
\* a process holds open; the next run picked from the list is stopped.
RemoveImages(c) ==
    /\ con[c].at = "images"
    /\ IF con[c].run \notin con[c].known THEN UNCHANGED image
       ELSE \/ image' = "taken"
            \/ (\E b \in Attempt : roll[b] = "up") /\ UNCHANGED image
    /\ whole' = IF con[c].whole THEN whole \cup {con[c].run} ELSE whole
    /\ con' = [con EXCEPT ![c] = NextOf(@)]
    /\ UNCHANGED <<build, brec, roll, rrec, clus, node, missed, faults, raced>>

\* The console is closed, or the command interrupted, between two steps; a
\* fault where that leaves a start or a stop half done.
Closed(c) ==
    /\ con[c].at # "idle"
    /\ IF con[c].at \in {"write", "cluster", "sweep", "roll", "take", "images"}
       THEN Fault ELSE UNCHANGED faults
    /\ con' = [con EXCEPT ![c] = Idle]
    /\ UNCHANGED <<build, brec, roll, rrec, clus, node, whole, missed, imageVars>>

-----------------------------------------------------------------------------
Next ==
    \/ \E c \in Console :
         \/ RemoveStale(c) \/ RemoveEnded(c) \/ AskRolling(c) \/ AskBuilding(c)
         \/ RefuseRoles(c) \/ WriteStart(c) \/ Closed(c)
         \/ ListRolls(c) \/ ListBuilds(c) \/ Listed(c)
         \/ StopNodes(c) \/ StopCluster(c) \/ Sweep(c) \/ StopRoll(c)
         \/ TakeRecord(c) \/ RemoveImages(c)
         \/ \E a \in Attempt : Launch(c, a) \/ StopBuild(c, a) \/ ListNodes(c, a)
    \/ \E a \in Attempt :
         \/ Cargo(a) \/ AskAgain(a) \/ Link(a) \/ Spawn(a) \/ RecordRoll(a)
         \/ RemoveBuild(a) \/ Fail(a) \/ Dies(a)
         \/ SpawnCluster(a) \/ RollEnds(a)
         \/ \E n \in Node : SpawnNode(a, n) \/ Declare(a, n) \/ NodeEnds(a, n)

Spec == Init /\ [][Next]_vars

-----------------------------------------------------------------------------
(* What the tooling promises.                                              *)

\* The variables keep their types.
TypeOK ==
    /\ build \in [Attempt -> {"unborn", "building", "asking", "failing", "spawning",
                              "linked", "spawned", "recorded", "gone"}]
    /\ brec \in [Attempt -> {"none", "start", "FAILED"}]
    /\ roll \in [Attempt -> {"none", "up", "gone"}]
    /\ rrec \in [Attempt -> BOOLEAN]
    /\ clus \in [Attempt -> {"none", "up", "gone"}]
    /\ node \in [Attempt -> [Node -> {"none", "up", "declared"}]]
    /\ whole \subseteq Attempt
    /\ missed \in [Attempt -> SUBSET Node]
    /\ faults \in 0..MaxFaults /\ image \in {"none", "linked", "taken"}
    /\ raced \subseteq SUBSET Attempt /\ con \in [Console -> Session]

\* One of a and b asked whether the cluster rolls while the other had asked
\* already and not yet recorded its roll.
Raced(a, b) == {a, b} \in raced

\* The rolls no record will ever be written of: the write failed, or the
\* build died before it.
Lost == {a \in Attempt : roll[a] = "up" /\ ~rrec[a] /\ build[a] # "spawned"}

\* A roll is a cluster: two rolls of one cluster, which would publish to one
\* file, each over the other, run at once only where their starts raced -
\* the one asked between the other's asking and its record - or where one
\* of them has no record and never will (Start-XmipEssentialsRollProcess).
OneRollPerCluster ==
    \A a, b \in Attempt :
        roll[a] = "up" /\ roll[b] = "up" /\ a # b =>
            Raced(a, b) \/ a \in Lost \/ b \in Lost

\* A live roll is known by a record wherever one is looked for: its run
\* record stands, or the build that spawned it is about to write it - until
\* a fault leaves the record unwritten.
RollKnown == faults = 0 => Lost = {}

\* A roll about to begin, or about to begin its cluster, has the images it
\* was linked, unless it was a stop of a roll of the cluster that took them
\* or its start raced another (New-XmipEssentialsImage,
\* Stop-XmipTest).
ImagesStand ==
    faults = 0 =>
        \A a \in Attempt :
            /\ build[a] = "linked" \/ (roll[a] = "up" /\ clus[a] = "none")
            /\ \A b \in Attempt : ~Raced(a, b)
            => image # "none"

\* The types, a roll only ever spawned by its own build, RollKnown and
\* ImagesStand.
RollInv ==
    /\ TypeOK
    /\ \A a \in Attempt :
          roll[a] # "none" => build[a] \in {"spawned", "recorded", "failing", "gone"}
    /\ RollKnown
    /\ ImagesStand

\* Of a roll that Stop-XmipTest found recorded and with its cluster up, and
\* reported stopped, nothing is left but, at most, a node that had not
\* declared itself when the cluster was swept: the roll and the cluster have
\* ended and no node of it is started again, however often they were before.
StoppedTree ==
    \A a \in whole :
        /\ roll[a] = "gone" /\ clus[a] # "up" /\ ~rrec[a]
        /\ \A n \in Node : node[a][n] # "none" => n \in missed[a]

\* Stop-XmipTest: nothing is orphaned.
NothingOrphaned ==
    \A a \in whole, n \in Node : node[a][n] = "none"

\* Remove-XmipEssentialsImage: called once a roll's tree has stopped and
\* before the next one starts.
ImagesNeverTaken ==
    \A a \in Attempt : build[a] = "linked" => image # "taken"

\* Get-XmipEssentialsBuild: a build listed as FAILED started no roll.
FailedBuildHasNoRoll ==
    \A a \in Failed : roll[a] = "none"

\* Get-XmipEssentialsRolling: a record there is a roll that runs, so a build
\* is refused only for a roll of its cluster that runs.
RefusedForARoll ==
    [][\A a \in Attempt :
          build[a] = "asking" /\ build'[a] = "failing" => \E b \in Attempt : roll[b] = "up"]_vars
=============================================================================
