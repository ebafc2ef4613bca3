------------------------------ MODULE RollProofs ------------------------------
(***************************************************************************)
(* Proofs about Roll, for any number of consoles, starts, nodes and        *)
(* faults: what is left of a stopped roll, that a live roll is known, that *)
(* two rolls of a cluster run at once only where their starts raced or one *)
(* of them lost its record, and that the images of a roll about to begin   *)
(* stand.                                                                  *)
(***************************************************************************)
EXTENDS Roll, TLAPS

(* One attempt: its roll begins once, under its own build, which alone     *)
(* records it, once; and its cluster under its roll.                       *)
Attempts ==
    \A a \in Attempt :
        /\ roll[a] # "none" => build[a] \in {"spawned", "recorded", "failing", "gone"}
        /\ build[a] \in {"spawned", "recorded"} => roll[a] # "none"
        /\ rrec[a] => build[a] \in {"recorded", "gone"} /\ roll[a] # "none"
        /\ clus[a] # "none" => roll[a] # "none"
        /\ brec[a] = "FAILED" => build[a] = "gone"

(* A console: what it starts or stops has begun, and what it found of the  *)
(* run it is stopping has not come back.                                   *)
Stopping == {"nodes", "cluster", "sweep", "roll", "take", "images"}

Swept(a) ==
    clus[a] = "gone" /\ \A n \in Node : node[a][n] # "none" => n \in missed[a]

Seen(c) ==
    /\ con[c].at \in {"ended", "rolling", "building", "launch", "write"} => c \in Starter
    /\ con[c].at \in Stopping \cup {"write"} => con[c].run \in Attempt
    /\ \A a \in con[c].rolls : roll[a] # "none"
    /\ \A a \in con[c].known : build[a] \in {"recorded", "gone"} /\ roll[a] # "none"

Stops(c) ==
    /\ con[c].at \in Stopping => roll[con[c].run] # "none"
    /\ con[c].at \in {"take", "images"} => roll[con[c].run] = "gone"
    /\ con[c].at = "images" /\ con[c].run \in con[c].known => ~rrec[con[c].run]
    /\ con[c].whole => /\ con[c].at \in {"sweep", "roll", "take", "images"}
                       /\ con[c].run \in con[c].known /\ clus[con[c].run] # "none"
    /\ con[c].whole /\ con[c].at # "sweep" => Swept(con[c].run)

Consoles == \A c \in Console : Seen(c) /\ Stops(c)

(* What was stopped whole stays so.                                        *)
Stopped ==
    \A a \in whole : /\ roll[a] = "gone" /\ ~rrec[a] /\ build[a] \in {"recorded", "gone"}
                     /\ Swept(a)

(* A start that has asked and not recorded its roll, or whose roll runs,   *)
(* has raced with every other there is, but for the rolls without a record.*)
Live(a) == a \in Unrecorded \/ roll[a] = "up"

Races ==
    \A a, b \in Attempt :
        Live(a) /\ Live(b) /\ a # b => Raced(a, b) \/ a \in Lost \/ b \in Lost

RollIInv == TypeOK /\ Attempts /\ RollKnown /\ Consoles /\ Stopped /\ Races /\ ImagesStand

------------------------------------------------------------------------------
(* What a step makes of the console that takes it.                         *)

(* A console that took the records of ended rolls takes those of ended     *)
(* builds next.                                                            *)
LEMMA RemoveStaleMakes ==
    ASSUME TypeOK, NEW c \in Console, RemoveStale(c)
    PROVE  /\ con'[c].at = "ended"
           /\ con'[c].run = con[c].run
           /\ con'[c].rolls = con[c].rolls
           /\ con'[c].builds = con[c].builds
           /\ con'[c].nodes = con[c].nodes
           /\ con'[c].known = con[c].known
           /\ con'[c].whole = con[c].whole
           /\ con' \in [Console -> Session]
           /\ \A d \in Console : d # c => con'[d] = con[d]
<1>1. con[c] \in Session
  BY DEF TypeOK
<1>2. con'[c] = [at |-> "ended", run |-> con[c].run, rolls |-> con[c].rolls, builds
                 |-> con[c].builds, nodes |-> con[c].nodes, known |-> con[c].known,
                 whole |-> con[c].whole]
  BY <1>1 DEF TypeOK, Session, RemoveStale
<1>3. con'[c] \in Session
  BY <1>1, <1>2 DEF TypeOK, Session
<1>4. con' \in [Console -> Session] /\ \A d \in Console : d # c => con'[d] = con[d]
  BY <1>3 DEF TypeOK, RemoveStale
<1> QED
  BY <1>2, <1>4

(* A console that swept what ended asks next what rolls.                   *)
LEMMA RemoveEndedMakes ==
    ASSUME TypeOK, NEW c \in Console, RemoveEnded(c)
    PROVE  /\ con'[c].at = "rolling"
           /\ con'[c].run = con[c].run
           /\ con'[c].rolls = con[c].rolls
           /\ con'[c].builds = con[c].builds
           /\ con'[c].nodes = con[c].nodes
           /\ con'[c].known = con[c].known
           /\ con'[c].whole = con[c].whole
           /\ con' \in [Console -> Session]
           /\ \A d \in Console : d # c => con'[d] = con[d]
<1>1. con[c] \in Session
  BY DEF TypeOK
<1>2. con'[c] = [at |-> "rolling", run |-> con[c].run, rolls |-> con[c].rolls, builds
                 |-> con[c].builds, nodes |-> con[c].nodes, known |-> con[c].known,
                 whole |-> con[c].whole]
  BY <1>1 DEF TypeOK, Session, RemoveEnded
<1>3. con'[c] \in Session
  BY <1>1, <1>2 DEF TypeOK, Session
<1>4. con' \in [Console -> Session] /\ \A d \in Console : d # c => con'[d] = con[d]
  BY <1>3 DEF TypeOK, RemoveEnded
<1> QED
  BY <1>2, <1>4

(* A console that ended the nodes it listed goes on to the cluster.        *)
LEMMA StopNodesMakes ==
    ASSUME TypeOK, NEW c \in Console, StopNodes(c)
    PROVE  /\ con'[c].at = "cluster"
           /\ con'[c].run = con[c].run
           /\ con'[c].rolls = con[c].rolls
           /\ con'[c].builds = con[c].builds
           /\ con'[c].nodes = {}
           /\ con'[c].known = con[c].known
           /\ con'[c].whole = con[c].whole
           /\ con' \in [Console -> Session]
           /\ \A d \in Console : d # c => con'[d] = con[d]
<1>1. con[c] \in Session
  BY DEF TypeOK
<1>2. con'[c] = [at |-> "cluster", run |-> con[c].run, rolls |-> con[c].rolls, builds
                 |-> con[c].builds, nodes |-> {}, known |-> con[c].known, whole |->
                 con[c].whole]
  BY <1>1 DEF TypeOK, Session, StopNodes
<1>3. con'[c] \in Session
  BY <1>1, <1>2 DEF TypeOK, Session
<1>4. con' \in [Console -> Session] /\ \A d \in Console : d # c => con'[d] = con[d]
  BY <1>3 DEF TypeOK, StopNodes
<1> QED
  BY <1>2, <1>4

(* A console that ended the cluster goes on to sweep, and noted what it    *)
(* found.                                                                  *)
LEMMA StopClusterMakes ==
    ASSUME TypeOK, NEW c \in Console, StopCluster(c)
    PROVE  /\ con'[c].at = "sweep"
           /\ con'[c].run = con[c].run
           /\ con'[c].rolls = con[c].rolls
           /\ con'[c].builds = con[c].builds
           /\ con'[c].nodes = con[c].nodes
           /\ con'[c].known = con[c].known
           /\ con'[c].whole = (con[c].run \in con[c].known /\ clus[con[c].run] # "none")
           /\ con' \in [Console -> Session]
           /\ \A d \in Console : d # c => con'[d] = con[d]
<1>1. con[c] \in Session
  BY DEF TypeOK
<1>2. con'[c] = [at |-> "sweep", run |-> con[c].run, rolls |-> con[c].rolls, builds |->
                 con[c].builds, nodes |-> con[c].nodes, known |-> con[c].known, whole
                 |-> (con[c].run \in con[c].known /\ clus[con[c].run] # "none")]
  BY <1>1 DEF TypeOK, Session, StopCluster
<1>3. con'[c] \in Session
  BY <1>1, <1>2 DEF TypeOK, Session
<1>4. con' \in [Console -> Session] /\ \A d \in Console : d # c => con'[d] = con[d]
  BY <1>3 DEF TypeOK, StopCluster
<1> QED
  BY <1>2, <1>4

(* A console that swept goes on to the roll.                               *)
LEMMA SweepMakes ==
    ASSUME TypeOK, NEW c \in Console, Sweep(c)
    PROVE  /\ con'[c].at = "roll"
           /\ con'[c].run = con[c].run
           /\ con'[c].rolls = con[c].rolls
           /\ con'[c].builds = con[c].builds
           /\ con'[c].nodes = con[c].nodes
           /\ con'[c].known = con[c].known
           /\ con'[c].whole = con[c].whole
           /\ con' \in [Console -> Session]
           /\ \A d \in Console : d # c => con'[d] = con[d]
<1>1. con[c] \in Session
  BY DEF TypeOK
<1>2. con'[c] = [at |-> "roll", run |-> con[c].run, rolls |-> con[c].rolls, builds |->
                 con[c].builds, nodes |-> con[c].nodes, known |-> con[c].known, whole
                 |-> con[c].whole]
  BY <1>1 DEF TypeOK, Session, Sweep
<1>3. con'[c] \in Session
  BY <1>1, <1>2 DEF TypeOK, Session
<1>4. con' \in [Console -> Session] /\ \A d \in Console : d # c => con'[d] = con[d]
  BY <1>3 DEF TypeOK, Sweep
<1> QED
  BY <1>2, <1>4

(* A console that took the record goes on to the images.                   *)
LEMMA TakeRecordMakes ==
    ASSUME TypeOK, NEW c \in Console, TakeRecord(c)
    PROVE  /\ con'[c].at = "images"
           /\ con'[c].run = con[c].run
           /\ con'[c].rolls = con[c].rolls
           /\ con'[c].builds = con[c].builds
           /\ con'[c].nodes = con[c].nodes
           /\ con'[c].known = con[c].known
           /\ con'[c].whole = con[c].whole
           /\ con' \in [Console -> Session]
           /\ \A d \in Console : d # c => con'[d] = con[d]
<1>1. con[c] \in Session
  BY DEF TypeOK
<1>2. con'[c] = [at |-> "images", run |-> con[c].run, rolls |-> con[c].rolls, builds |->
                 con[c].builds, nodes |-> con[c].nodes, known |-> con[c].known, whole
                 |-> con[c].whole]
  BY <1>1 DEF TypeOK, Session, TakeRecord
<1>3. con'[c] \in Session
  BY <1>1, <1>2 DEF TypeOK, Session
<1>4. con' \in [Console -> Session] /\ \A d \in Console : d # c => con'[d] = con[d]
  BY <1>3 DEF TypeOK, TakeRecord
<1> QED
  BY <1>2, <1>4

(* A console that picked a roll has it no longer on its list.              *)
LEMMA ListNodesMakes ==
    ASSUME TypeOK, NEW c \in Console, NEW a \in Attempt, ListNodes(c, a)
    PROVE  /\ con'[c].at = "nodes"
           /\ con'[c].run = a
           /\ con'[c].rolls = con[c].rolls \ {a}
           /\ con'[c].builds = con[c].builds
           /\ con'[c].known = con[c].known
           /\ con'[c].whole = con[c].whole
           /\ con' \in [Console -> Session]
           /\ \A d \in Console : d # c => con'[d] = con[d]
<1>1. con[c] \in Session
  BY DEF TypeOK
<1>2. con'[c] = [at |-> "nodes", run |-> a, rolls |-> con[c].rolls \ {a},
                 builds |-> con[c].builds,
                 nodes |-> {x \in Attempt \X Node :
                   \/ a \in con[c].known /\ node[x[1]][x[2]] = "declared"
                   \/ /\ x[1] = a /\ node[a][x[2]] = "up"
                      /\ clus[a] = "up" /\ roll[a] = "up"},
                 known |-> con[c].known, whole |-> con[c].whole]
  BY <1>1 DEF TypeOK, Session, ListNodes
<1>3. con'[c] \in Session
  BY <1>1, <1>2 DEF TypeOK, Session
<1>4. con' \in [Console -> Session] /\ \A d \in Console : d # c => con'[d] = con[d]
  BY <1>3 DEF TypeOK, ListNodes
<1> QED
  BY <1>2, <1>4

(* A console whose command has ended.                                      *)
LEMMA IdleMakes ==
    ASSUME TypeOK, NEW c \in Console, con' = [con EXCEPT ![c] = Idle]
    PROVE  /\ con'[c] = Idle
           /\ con' \in [Console -> Session]
           /\ \A d \in Console : d # c => con'[d] = con[d]
<1>1. Idle \in Session
  BY DEF Idle, Session
<1> QED
  BY <1>1 DEF TypeOK

(* A console that found its cluster not rolling asks what builds.          *)
LEMMA AskRollingMakes ==
    ASSUME TypeOK, NEW c \in Console, AskRolling(c)
    PROVE  /\ con'[c].at \in {"idle", "building"}
           /\ con'[c].run = None /\ con'[c].rolls = {} /\ con'[c].known = {}
           /\ con'[c].whole = FALSE
           /\ con' \in [Console -> Session]
           /\ \A d \in Console : d # c => con'[d] = con[d]
<1> DEFINE free == [at |-> "building", run |-> None, rolls |-> {}, builds |-> {}, nodes |-> {},
                    known |-> {}, whole |-> FALSE]
<1>1. Idle \in Session /\ free \in Session
  BY DEF Idle, Session
<1>2. CASE Rolling = {}
  <2>1. con' = [con EXCEPT ![c] = [Idle EXCEPT !.at = "building"]]
    BY <1>2 DEF AskRolling
  <2>2. con'[c] = free
    BY <2>1 DEF TypeOK, Idle
  <2>3. con' \in [Console -> Session] /\ \A d \in Console : d # c => con'[d] = con[d]
    BY <1>1, <2>1, <2>2 DEF TypeOK
  <2> QED
    BY <2>2, <2>3
<1>3. CASE Rolling # {}
  BY <1>3, IdleMakes DEF AskRolling, Idle
<1> QED
  BY <1>2, <1>3

(* A console that found its cluster free is about to start a roll.         *)
LEMMA AskBuildingMakes ==
    ASSUME TypeOK, NEW c \in Console, AskBuilding(c)
    PROVE  /\ con'[c].at \in {"idle", "launch"}
           /\ con'[c].run = None /\ con'[c].rolls = {} /\ con'[c].known = {}
           /\ con'[c].whole = FALSE
           /\ con' \in [Console -> Session]
           /\ \A d \in Console : d # c => con'[d] = con[d]
<1> DEFINE free == [at |-> "launch", run |-> None, rolls |-> {}, builds |-> {}, nodes |-> {},
                    known |-> {}, whole |-> FALSE]
<1>1. Idle \in Session /\ free \in Session
  BY DEF Idle, Session
<1>2. CASE Building = {}
  <2>1. con' = [con EXCEPT ![c] = [Idle EXCEPT !.at = "launch"]]
    BY <1>2 DEF AskBuilding
  <2>2. con'[c] = free
    BY <2>1 DEF TypeOK, Idle
  <2>3. con' \in [Console -> Session] /\ \A d \in Console : d # c => con'[d] = con[d]
    BY <1>1, <2>1, <2>2 DEF TypeOK
  <2> QED
    BY <2>2, <2>3
<1>3. CASE Building # {}
  BY <1>3, IdleMakes DEF AskBuilding, Idle
<1> QED
  BY <1>2, <1>3

(* A console that goes on with its list may pick, and has no run.          *)
LEMMA NextOfMakes ==
    ASSUME TypeOK, NEW c \in Console, NEW s \in Session, con' = [con EXCEPT ![c] = NextOf(s)]
    PROVE  /\ con'[c].at \in {"idle", "pick"}
           /\ con'[c].rolls \subseteq s.rolls /\ con'[c].known \subseteq s.known
           /\ con'[c].whole = FALSE
           /\ con' \in [Console -> Session]
           /\ \A d \in Console : d # c => con'[d] = con[d]
<1> DEFINE next == [at |-> "pick", run |-> None, rolls |-> s.rolls, builds |-> s.builds,
                    nodes |-> s.nodes, known |-> s.known \cap s.rolls, whole |-> FALSE]
<1>1. Idle \in Session /\ next \in Session
  BY DEF Idle, Session
<1>2. CASE s.rolls = {} /\ s.builds = {}
  <2>1. con' = [con EXCEPT ![c] = Idle]
    BY <1>2 DEF NextOf
  <2>2. /\ con'[c] = Idle /\ con' \in [Console -> Session]
        /\ \A d \in Console : d # c => con'[d] = con[d]
    BY <2>1, IdleMakes
  <2>3. Idle.at = "idle" /\ Idle.rolls = {} /\ Idle.known = {} /\ Idle.whole = FALSE
    BY DEF Idle
  <2> QED
    BY <2>2, <2>3
<1>3. CASE ~(s.rolls = {} /\ s.builds = {})
  <2>1. NextOf(s) = next
    BY <1>3 DEF NextOf, Session
  <2>2. con'[c] = next
    BY <2>1 DEF TypeOK
  <2>3. con' \in [Console -> Session] /\ \A d \in Console : d # c => con'[d] = con[d]
    BY <1>1, <2>1 DEF TypeOK
  <2> QED
    BY <2>2, <2>3
<1> QED
  BY <1>2, <1>3

(* A console that listed the builds knows the recorded rolls.              *)
LEMMA ListBuildsMakes ==
    ASSUME TypeOK, NEW c \in Console, ListBuilds(c)
    PROVE  /\ con'[c].at \in {"idle", "pick"}
           /\ con'[c].rolls \subseteq con[c].rolls /\ con'[c].known \subseteq Rolling
           /\ con'[c].whole = FALSE
           /\ con' \in [Console -> Session]
           /\ \A d \in Console : d # c => con'[d] = con[d]
<1> DEFINE s == [con[c] EXCEPT !.builds = Building, !.known = Rolling]
<1>1. con[c] \in Session
  BY DEF TypeOK
<1>2. s \in Session /\ s.rolls = con[c].rolls /\ s.known = Rolling
  BY <1>1 DEF Session, Building, Rolling
<1>3. con' = [con EXCEPT ![c] = NextOf(s)]
  BY DEF ListBuilds, TypeOK
<1> HIDE DEF s
<1> QED
  BY <1>2, <1>3, NextOfMakes

(* A console that stopped a build goes on with its list.                   *)
LEMMA StopBuildMakes ==
    ASSUME TypeOK, NEW c \in Console, NEW a \in Attempt, StopBuild(c, a)
    PROVE  /\ con'[c].at \in {"idle", "pick"}
           /\ con'[c].rolls \subseteq con[c].rolls /\ con'[c].known \subseteq con[c].known
           /\ con'[c].whole = FALSE
           /\ con' \in [Console -> Session]
           /\ \A d \in Console : d # c => con'[d] = con[d]
<1> DEFINE s == [con[c] EXCEPT !.builds = @ \ {a}]
<1>1. con[c] \in Session
  BY DEF TypeOK
<1>2. s \in Session /\ s.rolls = con[c].rolls /\ s.known = con[c].known
  BY <1>1 DEF Session
<1>3. CASE Alive(a)
  <2>1. con' = [con EXCEPT ![c] = NextOf(s)]
    BY <1>3 DEF StopBuild
  <2> HIDE DEF s
  <2> QED
    BY <1>2, <2>1, NextOfMakes
<1>4. CASE ~Alive(a)
  <2>1. con' = [con EXCEPT ![c] = Idle]
    BY <1>4 DEF StopBuild
  <2> QED
    BY <2>1, IdleMakes DEF Idle
<1> QED
  BY <1>3, <1>4

(* A console that ended the roll goes on to its record; one that could not *)
(* goes on with its list.                                                  *)
LEMMA StopRollMakes ==
    ASSUME TypeOK, NEW c \in Console, StopRoll(c)
    PROVE  /\ \/ /\ con'[c].at = "take" /\ con'[c].run = con[c].run
                 /\ con'[c].rolls = con[c].rolls /\ con'[c].known = con[c].known
                 /\ con'[c].whole = con[c].whole
                 /\ roll' = [roll EXCEPT ![con[c].run] = "gone"]
              \/ /\ con'[c].at \in {"idle", "pick"}
                 /\ con'[c].rolls \subseteq con[c].rolls /\ con'[c].known \subseteq con[c].known
                 /\ con'[c].whole = FALSE /\ roll' = roll
           /\ con' \in [Console -> Session]
           /\ \A d \in Console : d # c => con'[d] = con[d]
<1>1. con[c] \in Session
  BY DEF TypeOK
<1>2. CASE con' = [con EXCEPT ![c].at = "take"] /\ roll' = [roll EXCEPT ![con[c].run] = "gone"]
  <2>1. con'[c] = [at |-> "take", run |-> con[c].run, rolls |-> con[c].rolls, builds |->
                   con[c].builds, nodes |-> con[c].nodes, known |-> con[c].known, whole
                   |-> con[c].whole]
    BY <1>1, <1>2 DEF TypeOK, Session
  <2>2. con'[c] \in Session
    BY <1>1, <2>1 DEF TypeOK, Session
  <2>3. con' \in [Console -> Session] /\ \A d \in Console : d # c => con'[d] = con[d]
    BY <1>2, <2>2 DEF TypeOK
  <2> QED
    BY <1>2, <2>1, <2>3
<1>3. CASE con' = [con EXCEPT ![c] = NextOf(@)] /\ roll' = roll
  <2>1. con' = [con EXCEPT ![c] = NextOf(con[c])]
    BY <1>3 DEF TypeOK
  <2> QED
    BY <1>1, <1>3, <2>1, NextOfMakes
<1> QED
  BY <1>2, <1>3 DEF StopRoll

(* A console that took the images has stopped its run and goes on with its *)
(* list.                                                                   *)
LEMMA RemoveImagesMakes ==
    ASSUME TypeOK, NEW c \in Console, RemoveImages(c)
    PROVE  /\ con'[c].at \in {"idle", "pick"}
           /\ con'[c].rolls \subseteq con[c].rolls /\ con'[c].known \subseteq con[c].known
           /\ con'[c].whole = FALSE
           /\ con' \in [Console -> Session]
           /\ \A d \in Console : d # c => con'[d] = con[d]
<1>1. con[c] \in Session
  BY DEF TypeOK
<1>2. con' = [con EXCEPT ![c] = NextOf(con[c])]
  BY DEF RemoveImages, TypeOK
<1> QED
  BY <1>1, <1>2, NextOfMakes

(* A console that lists begins with the rolls that are up.                 *)
LEMMA ListRollsMakes ==
    ASSUME TypeOK, NEW c \in Console, ListRolls(c)
    PROVE  /\ con'[c].at = "list" /\ con'[c].run = None
           /\ con'[c].rolls = {a \in Attempt : roll[a] = "up"}
           /\ con'[c].known = {} /\ con'[c].whole = FALSE
           /\ con' \in [Console -> Session]
           /\ \A d \in Console : d # c => con'[d] = con[d]
<1> DEFINE new == [at |-> "list", run |-> None, rolls |-> {a \in Attempt : roll[a] = "up"},
                   builds |-> {}, nodes |-> {}, known |-> {}, whole |-> FALSE]
<1>1. new \in Session
  BY DEF Session
<1>2. con'[c] = new
  BY DEF TypeOK, ListRolls, Idle
<1>3. con' \in [Console -> Session] /\ \A d \in Console : d # c => con'[d] = con[d]
  BY <1>1, <1>2 DEF TypeOK, ListRolls
<1> QED
  BY <1>2, <1>3

(* A console that let a build loose is to write its record.                *)
LEMMA LaunchMakes ==
    ASSUME TypeOK, NEW c \in Console, NEW a \in Attempt, Launch(c, a)
    PROVE  /\ con'[c].at = "write" /\ con'[c].run = a /\ con'[c].rolls = {}
           /\ con'[c].known = {} /\ con'[c].whole = FALSE
           /\ con' \in [Console -> Session]
           /\ \A d \in Console : d # c => con'[d] = con[d]
<1> DEFINE new == [at |-> "write", run |-> a, rolls |-> {}, builds |-> {}, nodes |-> {},
                   known |-> {}, whole |-> FALSE]
<1>1. new \in Session
  BY DEF Session
<1>2. con'[c] = new
  BY DEF TypeOK, Launch, Idle
<1>3. con' \in [Console -> Session] /\ \A d \in Console : d # c => con'[d] = con[d]
  BY <1>1, <1>2 DEF TypeOK, Launch
<1> QED
  BY <1>2, <1>3

(* A build stopped is gone, with its record and with what it spawned.      *)
LEMMA StopBuildEnds ==
    ASSUME NEW c \in Console, NEW a \in Attempt, StopBuild(c, a)
    PROVE  /\ UNCHANGED <<rrec, whole, missed, faults, image, raced>>
           /\ \/ /\ Alive(a) /\ TreeEnds(a)
                 /\ build' = [build EXCEPT ![a] = "gone"]
                 /\ brec' = [brec EXCEPT ![a] = "none"]
              \/ UNCHANGED <<build, brec, roll, clus, node>>
BY DEF StopBuild, imageVars

(* Every step keeps the types.                                             *)
LEMMA TypeOKStep == RollIInv /\ [Next]_vars => TypeOK'
<1> SUFFICES ASSUME RollIInv, [Next]_vars PROVE TypeOK'
  OBVIOUS
<1> USE RollAssumption DEF imageVars, BuildAt, RollIInv, TypeOK, Consoles, Seen, Stopping
<1>1. ASSUME NEW c \in Console, RemoveStale(c) PROVE TypeOK'
  <2>1. con' \in [Console -> Session]
    BY <1>1, RemoveStaleMakes
  <2>2. rrec' \in [Attempt -> BOOLEAN]
    BY <1>1 DEF RemoveStale
  <2> QED
    BY <1>1, <2>1, <2>2 DEF RemoveStale
<1>2. ASSUME NEW c \in Console, RemoveEnded(c) PROVE TypeOK'
  <2>1. con' \in [Console -> Session]
    BY <1>2, RemoveEndedMakes
  <2>2. brec' \in [Attempt -> {"none", "start", "FAILED"}]
    BY <1>2 DEF RemoveEnded
  <2> QED
    BY <1>2, <2>1, <2>2 DEF RemoveEnded
<1>3. ASSUME NEW c \in Console, AskRolling(c) PROVE TypeOK'
  BY <1>3, AskRollingMakes DEF AskRolling
<1>4. ASSUME NEW c \in Console, AskBuilding(c) PROVE TypeOK'
  BY <1>4, AskBuildingMakes DEF AskBuilding
<1>5. ASSUME NEW c \in Console, RefuseRoles(c) PROVE TypeOK'
  BY <1>5, IdleMakes DEF RefuseRoles
<1>6. ASSUME NEW c \in Console, WriteStart(c) PROVE TypeOK'
  BY <1>6, IdleMakes DEF WriteStart
<1>7. ASSUME NEW c \in Console, Closed(c) PROVE TypeOK'
  <2>1. con' \in [Console -> Session]
    BY <1>7, IdleMakes DEF Closed
  <2>2. faults' \in 0..MaxFaults
    BY <1>7 DEF Closed, Fault
  <2> QED
    BY <1>7, <2>1, <2>2 DEF Closed
<1>8. ASSUME NEW c \in Console, ListRolls(c) PROVE TypeOK'
  BY <1>8, ListRollsMakes DEF ListRolls
<1>9. ASSUME NEW c \in Console, ListBuilds(c) PROVE TypeOK'
  BY <1>9, ListBuildsMakes DEF ListBuilds
<1>10. ASSUME NEW c \in Console, Listed(c) PROVE TypeOK'
  BY <1>10, IdleMakes DEF Listed
<1>11. ASSUME NEW c \in Console, StopNodes(c) PROVE TypeOK'
  <2>1. con' \in [Console -> Session]
    BY <1>11, StopNodesMakes
  <2>2. node' \in [Attempt -> [Node -> {"none", "up", "declared"}]]
    BY <1>11 DEF StopNodes
  <2> QED
    BY <1>11, <2>1, <2>2 DEF StopNodes
<1>12. ASSUME NEW c \in Console, StopCluster(c) PROVE TypeOK'
  BY <1>12, StopClusterMakes DEF StopCluster
<1>13. ASSUME NEW c \in Console, Sweep(c) PROVE TypeOK'
  <2>1. con' \in [Console -> Session]
    BY <1>13, SweepMakes
  <2>2. CASE con[c].run \notin con[c].known
    BY <1>13, <2>1, <2>2 DEF Sweep
  <2>3. CASE con[c].run \in con[c].known
    <3>1. node' \in [Attempt -> [Node -> {"none", "up", "declared"}]]
      BY <1>13, <2>3 DEF Sweep
    <3>2. clus' \in [Attempt -> {"none", "up", "gone"}]
      BY <1>13, <2>3 DEF Sweep
    <3>3. {n \in Node : node[con[c].run][n] = "up"} \in SUBSET Node
      OBVIOUS
    <3>4. missed' \in [Attempt -> SUBSET Node]
      <4>1. CASE con[c].whole
        <5>1. missed' = [missed EXCEPT ![con[c].run] =
                            {n \in Node : node[con[c].run][n] = "up"}]
          BY <1>13, <2>3, <4>1 DEF Sweep
        <5> QED
          BY <3>3, <5>1
      <4>2. CASE ~con[c].whole
        <5>1. con[c].run \in Attempt
          BY <1>13 DEF Sweep
        <5>2. missed[con[c].run] \in SUBSET Node
          BY <5>1
        <5>3. missed' = [missed EXCEPT ![con[c].run] = missed[con[c].run]]
          BY <1>13, <2>3, <4>2, <5>1 DEF Sweep
        <5> QED
          BY <5>2, <5>3
      <4> QED
        BY <4>1, <4>2
    <3> QED
      BY <1>13, <2>1, <3>1, <3>2, <3>4 DEF Sweep
  <2> QED
    BY <2>2, <2>3
<1>14. ASSUME NEW c \in Console, StopRoll(c) PROVE TypeOK'
  BY <1>14, StopRollMakes DEF StopRoll
<1>15. ASSUME NEW c \in Console, TakeRecord(c) PROVE TypeOK'
  BY <1>15, TakeRecordMakes DEF TakeRecord
<1>16. ASSUME NEW c \in Console, RemoveImages(c) PROVE TypeOK'
  <2>1. con' \in [Console -> Session]
    BY <1>16, RemoveImagesMakes
  <2>2. con[c].run \in Attempt
    BY <1>16 DEF RemoveImages
  <2>3. whole' \subseteq Attempt
    BY <1>16, <2>2 DEF RemoveImages
  <2>4. image' \in {"none", "linked", "taken"}
    BY <1>16 DEF RemoveImages
  <2> QED
    BY <1>16, <2>1, <2>3, <2>4 DEF RemoveImages
<1>17. ASSUME NEW c \in Console, NEW a \in Attempt, Launch(c, a) PROVE TypeOK'
  BY <1>17, LaunchMakes DEF Launch
<1>18. ASSUME NEW c \in Console, NEW a \in Attempt, StopBuild(c, a) PROVE TypeOK'
  <2>1. con' \in [Console -> Session]
    BY <1>18, StopBuildMakes
  <2>2. roll' \in [Attempt -> {"none", "up", "gone"}]
    BY <1>18, StopBuildEnds DEF TreeEnds
  <2>3. clus' \in [Attempt -> {"none", "up", "gone"}]
    BY <1>18, StopBuildEnds DEF TreeEnds
  <2>4. node' \in [Attempt -> [Node -> {"none", "up", "declared"}]]
    BY <1>18, StopBuildEnds DEF TreeEnds, NoNodes
  <2> QED
    <3>1. UNCHANGED <<rrec, whole, missed, faults, image, raced>>
      BY <1>18, StopBuildEnds
    <3>2. build' \in [Attempt -> {"unborn", "building", "asking", "failing", "spawning",
                                 "linked", "spawned", "recorded", "gone"}]
      BY <1>18, StopBuildEnds
    <3>3. brec' \in [Attempt -> {"none", "start", "FAILED"}]
      BY <1>18, StopBuildEnds
    <3> QED
      BY <2>1, <2>2, <2>3, <2>4, <3>1, <3>2, <3>3
<1>19. ASSUME NEW c \in Console, NEW a \in Attempt, ListNodes(c, a) PROVE TypeOK'
  BY <1>19, ListNodesMakes DEF ListNodes
<1>20. ASSUME NEW a \in Attempt, Cargo(a) PROVE TypeOK'
  <2>1. build' \in [Attempt -> {"unborn", "building", "asking", "failing", "spawning",
                               "linked", "spawned", "recorded", "gone"}]
    BY <1>20 DEF Cargo
  <2> QED
    BY <1>20, <2>1 DEF Cargo
<1>21. ASSUME NEW a \in Attempt, AskAgain(a) PROVE TypeOK'
  <2>1. Unrecorded \in SUBSET Attempt
    BY DEF Unrecorded
  <2>2. raced' \subseteq SUBSET Attempt
    <3>1. CASE UNCHANGED raced
      BY <3>1
    <3>2. CASE raced' = raced \cup {{a, b} : b \in Unrecorded}
      <4>1. \A b \in Unrecorded : {a, b} \in SUBSET Attempt
        BY <2>1
      <4>2. raced \subseteq SUBSET Attempt
        OBVIOUS
      <4> HIDE DEF RollIInv
      <4> QED
        BY <3>2, <4>1, <4>2
    <3> QED
      BY <1>21, <3>1, <3>2 DEF AskAgain, GoesOn
  <2>3. build' \in [Attempt -> {"unborn", "building", "asking", "failing", "spawning",
                               "linked", "spawned", "recorded", "gone"}]
    BY <1>21 DEF AskAgain, GoesOn
  <2> QED
    BY <1>21, <2>2, <2>3 DEF AskAgain
<1>22. ASSUME NEW a \in Attempt, Link(a) PROVE TypeOK'
  BY <1>22 DEF Link
<1>23. ASSUME NEW a \in Attempt, Spawn(a) PROVE TypeOK'
  <2>1. build' \in [Attempt -> {"unborn", "building", "asking", "failing", "spawning",
                               "linked", "spawned", "recorded", "gone"}]
    BY <1>23 DEF Spawn
  <2>2. roll' \in [Attempt -> {"none", "up", "gone"}]
    BY <1>23 DEF Spawn
  <2> QED
    BY <1>23, <2>1, <2>2 DEF Spawn
<1>24. ASSUME NEW a \in Attempt, RecordRoll(a) PROVE TypeOK'
  <2>1. build' \in [Attempt -> {"unborn", "building", "asking", "failing", "spawning",
                               "linked", "spawned", "recorded", "gone"}]
    BY <1>24 DEF RecordRoll
  <2>2. rrec' \in [Attempt -> BOOLEAN]
    BY <1>24 DEF RecordRoll
  <2>3. faults' \in 0..MaxFaults
    BY <1>24 DEF RecordRoll, Fault
  <2> QED
    BY <1>24, <2>1, <2>2, <2>3 DEF RecordRoll
<1>25. ASSUME NEW a \in Attempt, RemoveBuild(a) PROVE TypeOK'
  BY <1>25 DEF RemoveBuild
<1>26. ASSUME NEW a \in Attempt, Fail(a) PROVE TypeOK'
  BY <1>26 DEF Fail
<1>27. ASSUME NEW a \in Attempt, Dies(a) PROVE TypeOK'
  BY <1>27 DEF Dies, Fault
<1>28. ASSUME NEW a \in Attempt, SpawnCluster(a) PROVE TypeOK'
  BY <1>28 DEF SpawnCluster
<1>29. ASSUME NEW a \in Attempt, RollEnds(a) PROVE TypeOK'
  BY <1>29 DEF RollEnds, NoNodes
<1>30. ASSUME NEW a \in Attempt, NEW n \in Node, SpawnNode(a, n) PROVE TypeOK'
  BY <1>30 DEF SpawnNode
<1>31. ASSUME NEW a \in Attempt, NEW n \in Node, Declare(a, n) PROVE TypeOK'
  BY <1>31 DEF Declare
<1>32. ASSUME NEW a \in Attempt, NEW n \in Node, NodeEnds(a, n) PROVE TypeOK'
  BY <1>32 DEF NodeEnds
<1>33. CASE UNCHANGED vars
  BY <1>33 DEF vars
<1> HIDE DEF RollIInv, TypeOK, Consoles, Seen, Stopping
<1> QED
  BY <1>1, <1>2, <1>3, <1>4, <1>5, <1>6, <1>7, <1>8, <1>9, <1>10, <1>11, <1>12,
     <1>13, <1>14, <1>15, <1>16, <1>17, <1>18, <1>19, <1>20, <1>21, <1>22, <1>23,
     <1>24, <1>25, <1>26, <1>27, <1>28, <1>29, <1>30, <1>31, <1>32, <1>33
     DEF Next

(* Every step keeps each start's build, roll, record and cluster in order. *)
LEMMA AttemptsStep == RollIInv /\ [Next]_vars => Attempts'
<1> SUFFICES ASSUME RollIInv, [Next]_vars PROVE Attempts'
  OBVIOUS
<1> USE RollAssumption DEF imageVars, BuildAt, RollIInv, TypeOK, Attempts, Consoles,
                           Stops, Seen, Stopping
<1>1. ASSUME NEW c \in Console, RemoveStale(c) PROVE Attempts'
  BY <1>1 DEF RemoveStale, Failed, Alive
<1>2. ASSUME NEW c \in Console, RemoveEnded(c) PROVE Attempts'
  BY <1>2 DEF RemoveEnded, Failed, Alive
<1>3. ASSUME NEW c \in Console, AskRolling(c) PROVE Attempts'
  BY <1>3 DEF AskRolling, Rolling
<1>4. ASSUME NEW c \in Console, AskBuilding(c) PROVE Attempts'
  BY <1>4 DEF AskBuilding, Building, Alive, Idle
<1>5. ASSUME NEW c \in Console, RefuseRoles(c) PROVE Attempts'
  BY <1>5 DEF RefuseRoles, Idle
<1>6. ASSUME NEW c \in Console, WriteStart(c) PROVE Attempts'
  BY <1>6 DEF WriteStart, Idle
<1>7. ASSUME NEW c \in Console, Closed(c) PROVE Attempts'
  BY <1>7 DEF Closed, Fault, Idle
<1>8. ASSUME NEW c \in Console, ListRolls(c) PROVE Attempts'
  BY <1>8 DEF ListRolls, Idle
<1>9. ASSUME NEW c \in Console, ListBuilds(c) PROVE Attempts'
  BY <1>9 DEF ListBuilds, Rolling, Building, NextOf
<1>10. ASSUME NEW c \in Console, Listed(c) PROVE Attempts'
  BY <1>10 DEF Listed, Idle
<1>11. ASSUME NEW c \in Console, StopNodes(c) PROVE Attempts'
  BY <1>11 DEF StopNodes
<1>12. ASSUME NEW c \in Console, StopCluster(c) PROVE Attempts'
  BY <1>12 DEF StopCluster
<1>13. ASSUME NEW c \in Console, Sweep(c) PROVE Attempts'
  BY <1>13 DEF Sweep
<1>14. ASSUME NEW c \in Console, StopRoll(c) PROVE Attempts'
  BY <1>14 DEF StopRoll
<1>15. ASSUME NEW c \in Console, TakeRecord(c) PROVE Attempts'
  BY <1>15 DEF TakeRecord
<1>16. ASSUME NEW c \in Console, RemoveImages(c) PROVE Attempts'
  BY <1>16 DEF RemoveImages
<1>17. ASSUME NEW c \in Console, NEW a \in Attempt, Launch(c, a) PROVE Attempts'
  BY <1>17 DEF Launch, Idle
<1>18. ASSUME NEW c \in Console, NEW a \in Attempt, StopBuild(c, a) PROVE Attempts'
  BY <1>18, StopBuildEnds DEF TreeEnds, Alive, NoNodes
<1>19. ASSUME NEW c \in Console, NEW a \in Attempt, ListNodes(c, a) PROVE Attempts'
  BY <1>19 DEF ListNodes
<1>20. ASSUME NEW a \in Attempt, Cargo(a) PROVE Attempts'
  BY <1>20 DEF Cargo
<1>21. ASSUME NEW a \in Attempt, AskAgain(a) PROVE Attempts'
  BY <1>21 DEF AskAgain, GoesOn, Rolling
<1>22. ASSUME NEW a \in Attempt, Link(a) PROVE Attempts'
  BY <1>22 DEF Link
<1>23. ASSUME NEW a \in Attempt, Spawn(a) PROVE Attempts'
  BY <1>23 DEF Spawn
<1>24. ASSUME NEW a \in Attempt, RecordRoll(a) PROVE Attempts'
  BY <1>24 DEF RecordRoll, Fault
<1>25. ASSUME NEW a \in Attempt, RemoveBuild(a) PROVE Attempts'
  BY <1>25 DEF RemoveBuild
<1>26. ASSUME NEW a \in Attempt, Fail(a) PROVE Attempts'
  BY <1>26 DEF Fail
<1>27. ASSUME NEW a \in Attempt, Dies(a) PROVE Attempts'
  BY <1>27 DEF Dies, Fault
<1>28. ASSUME NEW a \in Attempt, SpawnCluster(a) PROVE Attempts'
  BY <1>28 DEF SpawnCluster
<1>29. ASSUME NEW a \in Attempt, RollEnds(a) PROVE Attempts'
  BY <1>29 DEF RollEnds, NoNodes
<1>30. ASSUME NEW a \in Attempt, NEW n \in Node, SpawnNode(a, n) PROVE Attempts'
  BY <1>30 DEF SpawnNode
<1>31. ASSUME NEW a \in Attempt, NEW n \in Node, Declare(a, n) PROVE Attempts'
  BY <1>31 DEF Declare
<1>32. ASSUME NEW a \in Attempt, NEW n \in Node, NodeEnds(a, n) PROVE Attempts'
  BY <1>32 DEF NodeEnds
<1>33. CASE UNCHANGED vars
  BY <1>33 DEF vars
<1> HIDE DEF RollIInv, TypeOK, Attempts, Consoles, Stops, Seen, Stopping
<1> QED
  BY <1>1, <1>2, <1>3, <1>4, <1>5, <1>6, <1>7, <1>8, <1>9, <1>10, <1>11, <1>12,
     <1>13, <1>14, <1>15, <1>16, <1>17, <1>18, <1>19, <1>20, <1>21, <1>22, <1>23,
     <1>24, <1>25, <1>26, <1>27, <1>28, <1>29, <1>30, <1>31, <1>32, <1>33
     DEF Next

(* Every step keeps a live roll known: the record is written, once, by the *)
(* build that leaves "spawned", and none is taken from a roll that runs.   *)
LEMMA RollKnownStep == RollIInv /\ [Next]_vars => RollKnown'
<1> SUFFICES ASSUME RollIInv, [Next]_vars PROVE RollKnown'
  OBVIOUS
<1> USE RollAssumption DEF imageVars, BuildAt, RollIInv, TypeOK, RollKnown, Lost, Attempts,
                           Consoles, Stops, Seen, Stopping
<1>1. ASSUME NEW c \in Console, RemoveStale(c) PROVE RollKnown'
  BY <1>1 DEF RemoveStale, Failed, Alive
<1>2. ASSUME NEW c \in Console, RemoveEnded(c) PROVE RollKnown'
  BY <1>2 DEF RemoveEnded, Failed, Alive
<1>3. ASSUME NEW c \in Console, AskRolling(c) PROVE RollKnown'
  BY <1>3 DEF AskRolling, Rolling
<1>4. ASSUME NEW c \in Console, AskBuilding(c) PROVE RollKnown'
  BY <1>4 DEF AskBuilding, Building, Alive, Idle
<1>5. ASSUME NEW c \in Console, RefuseRoles(c) PROVE RollKnown'
  BY <1>5 DEF RefuseRoles, Idle
<1>6. ASSUME NEW c \in Console, WriteStart(c) PROVE RollKnown'
  BY <1>6 DEF WriteStart, Idle
<1>7. ASSUME NEW c \in Console, Closed(c) PROVE RollKnown'
  BY <1>7 DEF Closed, Fault, Idle
<1>8. ASSUME NEW c \in Console, ListRolls(c) PROVE RollKnown'
  BY <1>8 DEF ListRolls, Idle
<1>9. ASSUME NEW c \in Console, ListBuilds(c) PROVE RollKnown'
  BY <1>9 DEF ListBuilds, Rolling, Building, NextOf
<1>10. ASSUME NEW c \in Console, Listed(c) PROVE RollKnown'
  BY <1>10 DEF Listed, Idle
<1>11. ASSUME NEW c \in Console, StopNodes(c) PROVE RollKnown'
  BY <1>11 DEF StopNodes
<1>12. ASSUME NEW c \in Console, StopCluster(c) PROVE RollKnown'
  BY <1>12 DEF StopCluster
<1>13. ASSUME NEW c \in Console, Sweep(c) PROVE RollKnown'
  BY <1>13 DEF Sweep
<1>14. ASSUME NEW c \in Console, StopRoll(c) PROVE RollKnown'
  BY <1>14 DEF StopRoll
<1>15. ASSUME NEW c \in Console, TakeRecord(c) PROVE RollKnown'
  BY <1>15 DEF TakeRecord
<1>16. ASSUME NEW c \in Console, RemoveImages(c) PROVE RollKnown'
  BY <1>16 DEF RemoveImages
<1>17. ASSUME NEW c \in Console, NEW a \in Attempt, Launch(c, a) PROVE RollKnown'
  BY <1>17 DEF Launch, Idle
<1>18. ASSUME NEW c \in Console, NEW a \in Attempt, StopBuild(c, a) PROVE RollKnown'
  BY <1>18, StopBuildEnds DEF TreeEnds, Alive, NoNodes
<1>19. ASSUME NEW c \in Console, NEW a \in Attempt, ListNodes(c, a) PROVE RollKnown'
  BY <1>19 DEF ListNodes
<1>20. ASSUME NEW a \in Attempt, Cargo(a) PROVE RollKnown'
  BY <1>20 DEF Cargo
<1>21. ASSUME NEW a \in Attempt, AskAgain(a) PROVE RollKnown'
  BY <1>21 DEF AskAgain, GoesOn, Rolling
<1>22. ASSUME NEW a \in Attempt, Link(a) PROVE RollKnown'
  BY <1>22 DEF Link
<1>23. ASSUME NEW a \in Attempt, Spawn(a) PROVE RollKnown'
  BY <1>23 DEF Spawn
<1>24. ASSUME NEW a \in Attempt, RecordRoll(a) PROVE RollKnown'
  BY <1>24 DEF RecordRoll, Fault
<1>25. ASSUME NEW a \in Attempt, RemoveBuild(a) PROVE RollKnown'
  BY <1>25 DEF RemoveBuild
<1>26. ASSUME NEW a \in Attempt, Fail(a) PROVE RollKnown'
  BY <1>26 DEF Fail
<1>27. ASSUME NEW a \in Attempt, Dies(a) PROVE RollKnown'
  BY <1>27 DEF Dies, Fault
<1>28. ASSUME NEW a \in Attempt, SpawnCluster(a) PROVE RollKnown'
  BY <1>28 DEF SpawnCluster
<1>29. ASSUME NEW a \in Attempt, RollEnds(a) PROVE RollKnown'
  BY <1>29 DEF RollEnds, NoNodes
<1>30. ASSUME NEW a \in Attempt, NEW n \in Node, SpawnNode(a, n) PROVE RollKnown'
  BY <1>30 DEF SpawnNode
<1>31. ASSUME NEW a \in Attempt, NEW n \in Node, Declare(a, n) PROVE RollKnown'
  BY <1>31 DEF Declare
<1>32. ASSUME NEW a \in Attempt, NEW n \in Node, NodeEnds(a, n) PROVE RollKnown'
  BY <1>32 DEF NodeEnds
<1>33. CASE UNCHANGED vars
  BY <1>33 DEF vars
<1> HIDE DEF RollIInv, TypeOK, RollKnown, Lost, Attempts, Consoles, Stops, Seen, Stopping
<1> QED
  BY <1>1, <1>2, <1>3, <1>4, <1>5, <1>6, <1>7, <1>8, <1>9, <1>10, <1>11, <1>12,
     <1>13, <1>14, <1>15, <1>16, <1>17, <1>18, <1>19, <1>20, <1>21, <1>22, <1>23,
     <1>24, <1>25, <1>26, <1>27, <1>28, <1>29, <1>30, <1>31, <1>32, <1>33
     DEF Next

(* What no step of anybody undoes.                                         *)
Forward ==
    \A a \in Attempt :
        /\ roll[a] # "none" => roll'[a] # "none"
        /\ roll[a] = "gone" => roll'[a] = "gone"
        /\ build[a] \in {"recorded", "gone"} => build'[a] \in {"recorded", "gone"}
        /\ build[a] \in {"recorded", "gone"} /\ ~rrec[a] => ~rrec'[a]
        /\ clus[a] # "none" => clus'[a] # "none"
        /\ Swept(a) => Swept(a)'

(* Every step goes forward: a cluster process never comes back, and only   *)
(* one that is up spawns nodes.                                            *)
LEMMA ForwardStep == RollIInv /\ [Next]_vars => Forward
<1> SUFFICES ASSUME RollIInv, [Next]_vars PROVE Forward
  OBVIOUS
<1> USE RollAssumption DEF imageVars, BuildAt, RollIInv, TypeOK, Attempts, Consoles,
                           Seen, Stops, Stopping, Forward, Swept
<1>1. ASSUME NEW c \in Console, RemoveStale(c) PROVE Forward
  BY <1>1 DEF RemoveStale, Failed, Alive
<1>2. ASSUME NEW c \in Console, RemoveEnded(c) PROVE Forward
  BY <1>2 DEF RemoveEnded, Failed, Alive
<1>3. ASSUME NEW c \in Console, AskRolling(c) PROVE Forward
  BY <1>3 DEF AskRolling, Rolling
<1>4. ASSUME NEW c \in Console, AskBuilding(c) PROVE Forward
  BY <1>4 DEF AskBuilding, Building, Alive, Idle
<1>5. ASSUME NEW c \in Console, RefuseRoles(c) PROVE Forward
  BY <1>5 DEF RefuseRoles, Idle
<1>6. ASSUME NEW c \in Console, WriteStart(c) PROVE Forward
  BY <1>6 DEF WriteStart, Idle
<1>7. ASSUME NEW c \in Console, Closed(c) PROVE Forward
  BY <1>7 DEF Closed, Fault, Idle
<1>8. ASSUME NEW c \in Console, ListRolls(c) PROVE Forward
  BY <1>8 DEF ListRolls, Idle
<1>9. ASSUME NEW c \in Console, ListBuilds(c) PROVE Forward
  BY <1>9 DEF ListBuilds, Rolling, Building, NextOf
<1>10. ASSUME NEW c \in Console, Listed(c) PROVE Forward
  BY <1>10 DEF Listed, Idle
<1>11. ASSUME NEW c \in Console, StopNodes(c) PROVE Forward
  BY <1>11 DEF StopNodes
<1>12. ASSUME NEW c \in Console, StopCluster(c) PROVE Forward
  BY <1>12 DEF StopCluster
<1>13. ASSUME NEW c \in Console, Sweep(c) PROVE Forward
  <2>1. UNCHANGED <<build, roll, rrec>>
    BY <1>13 DEF Sweep
  <2>2. \A a \in Attempt : clus[a] # "none" => clus'[a] # "none"
    BY <1>13 DEF Sweep
  <2>3. ASSUME NEW a \in Attempt, Swept(a) PROVE Swept(a)'
    <3>1. CASE con[c].run \notin con[c].known
      BY <1>13, <2>3, <3>1 DEF Sweep
    <3>2. CASE con[c].run \in con[c].known
      <4>1. clus'[a] = "gone"
        BY <1>13, <2>3, <3>2 DEF Sweep
      <4>2. ASSUME NEW n \in Node, node'[a][n] # "none" PROVE n \in missed'[a]
        <5>1. node[a][n] = "up"
          BY <1>13, <3>2, <4>2 DEF Sweep
        <5>2. n \in missed[a]
          BY <2>3, <5>1
        <5>3. CASE a = con[c].run /\ con[c].whole
          <6>1. missed'[a] = {m \in Node : node[a][m] = "up"}
            BY <1>13, <3>2, <5>3 DEF Sweep
          <6> QED
            BY <5>1, <6>1
        <5>4. CASE a # con[c].run \/ ~con[c].whole
          BY <1>13, <3>2, <5>2, <5>4 DEF Sweep
        <5> QED
          BY <5>3, <5>4
      <4> QED
        BY <4>1, <4>2
    <3> QED
      BY <3>1, <3>2
  <2> HIDE DEF Swept
  <2> QED
    BY <2>1, <2>2, <2>3
<1>14. ASSUME NEW c \in Console, StopRoll(c) PROVE Forward
  BY <1>14 DEF StopRoll
<1>15. ASSUME NEW c \in Console, TakeRecord(c) PROVE Forward
  BY <1>15 DEF TakeRecord
<1>16. ASSUME NEW c \in Console, RemoveImages(c) PROVE Forward
  BY <1>16 DEF RemoveImages
<1>17. ASSUME NEW c \in Console, NEW a \in Attempt, Launch(c, a) PROVE Forward
  BY <1>17 DEF Launch, Idle
<1>18. ASSUME NEW c \in Console, NEW a \in Attempt, StopBuild(c, a) PROVE Forward
  <2>1. UNCHANGED <<rrec, missed>>
    BY <1>18, StopBuildEnds
  <2>2. CASE UNCHANGED <<build, roll, clus, node>>
    BY <2>1, <2>2
  <2>3. CASE build' = [build EXCEPT ![a] = "gone"] /\ TreeEnds(a)
    <3>1. ASSUME NEW b \in Attempt
          PROVE  /\ roll[b] # "none" => roll'[b] # "none"
                 /\ roll[b] = "gone" => roll'[b] = "gone"
                 /\ clus[b] # "none" => clus'[b] # "none"
                 /\ clus[b] = "gone" => clus'[b] = "gone"
                 /\ build[b] \in {"recorded", "gone"} => build'[b] \in {"recorded", "gone"}
      BY <2>3, <3>1 DEF TreeEnds
    <3>2. ASSUME NEW b \in Attempt, NEW n \in Node, node'[b][n] # "none"
          PROVE  node[b][n] # "none"
      BY <2>3, <3>2 DEF TreeEnds, NoNodes
    <3> QED
      BY <2>1, <3>1, <3>2
  <2> QED
    BY <1>18, <2>2, <2>3, StopBuildEnds
<1>19. ASSUME NEW c \in Console, NEW a \in Attempt, ListNodes(c, a) PROVE Forward
  BY <1>19 DEF ListNodes
<1>20. ASSUME NEW a \in Attempt, Cargo(a) PROVE Forward
  BY <1>20 DEF Cargo
<1>21. ASSUME NEW a \in Attempt, AskAgain(a) PROVE Forward
  BY <1>21 DEF AskAgain, GoesOn, Rolling
<1>22. ASSUME NEW a \in Attempt, Link(a) PROVE Forward
  BY <1>22 DEF Link
<1>23. ASSUME NEW a \in Attempt, Spawn(a) PROVE Forward
  BY <1>23 DEF Spawn
<1>24. ASSUME NEW a \in Attempt, RecordRoll(a) PROVE Forward
  BY <1>24 DEF RecordRoll, Fault
<1>25. ASSUME NEW a \in Attempt, RemoveBuild(a) PROVE Forward
  BY <1>25 DEF RemoveBuild
<1>26. ASSUME NEW a \in Attempt, Fail(a) PROVE Forward
  BY <1>26 DEF Fail
<1>27. ASSUME NEW a \in Attempt, Dies(a) PROVE Forward
  BY <1>27 DEF Dies, Fault
<1>28. ASSUME NEW a \in Attempt, SpawnCluster(a) PROVE Forward
  BY <1>28 DEF SpawnCluster
<1>29. ASSUME NEW a \in Attempt, RollEnds(a) PROVE Forward
  BY <1>29 DEF RollEnds, NoNodes
<1>30. ASSUME NEW a \in Attempt, NEW n \in Node, SpawnNode(a, n) PROVE Forward
  BY <1>30 DEF SpawnNode
<1>31. ASSUME NEW a \in Attempt, NEW n \in Node, Declare(a, n) PROVE Forward
  BY <1>31 DEF Declare
<1>32. ASSUME NEW a \in Attempt, NEW n \in Node, NodeEnds(a, n) PROVE Forward
  BY <1>32 DEF NodeEnds
<1>33. CASE UNCHANGED vars
  BY <1>33 DEF vars
<1> HIDE DEF RollIInv, TypeOK, Attempts, Consoles, Seen, Stops, Stopping, Forward, Swept
<1> QED
  BY <1>1, <1>2, <1>3, <1>4, <1>5, <1>6, <1>7, <1>8, <1>9, <1>10, <1>11, <1>12,
     <1>13, <1>14, <1>15, <1>16, <1>17, <1>18, <1>19, <1>20, <1>21, <1>22, <1>23,
     <1>24, <1>25, <1>26, <1>27, <1>28, <1>29, <1>30, <1>31, <1>32, <1>33
     DEF Next

(* What a console found stays so while it does no more than read or list.  *)
LEMMA OthersKeep ==
    ASSUME TypeOK, Forward, NEW d \in Console, Seen(d), Stops(d),
           con'[d].at = con[d].at, con'[d].run = con[d].run, con'[d].rolls = con[d].rolls,
           con'[d].known = con[d].known, con'[d].whole = con[d].whole
    PROVE  Seen(d)' /\ Stops(d)'
<1>1. con[d] \in Session
  BY DEF TypeOK
<1>2. con[d].rolls \subseteq Attempt /\ con[d].known \subseteq Attempt
  BY <1>1 DEF Session
<1>3. Seen(d)'
  <2>1. ASSUME NEW a \in con[d].rolls PROVE roll'[a] # "none"
    BY <1>2, <2>1 DEF Seen, Forward
  <2>2. ASSUME NEW a \in con[d].known
        PROVE  build'[a] \in {"recorded", "gone"} /\ roll'[a] # "none"
    BY <1>2, <2>2 DEF Seen, Forward
  <2> QED
    BY <2>1, <2>2 DEF Seen
<1>4. ASSUME con[d].at \in Stopping PROVE Stops(d)'
  <2>1. PICK a \in Attempt : a = con[d].run
    BY <1>4 DEF Seen
  <2>2. a \in con[d].known => build[a] \in {"recorded", "gone"}
    BY DEF Seen
  <2>3. /\ roll[a] # "none" => roll'[a] # "none"
        /\ roll[a] = "gone" => roll'[a] = "gone"
        /\ a \in con[d].known /\ ~rrec[a] => ~rrec'[a]
        /\ clus[a] # "none" => clus'[a] # "none"
        /\ Swept(a) => Swept(a)'
    BY <2>1, <2>2 DEF Forward
  <2>4. con'[d].run = a
    BY <2>1
  <2>5. Swept(con[d].run) => Swept(con[d].run)'
    BY <2>1, <2>3, <2>4 DEF Swept
  <2> QED
    BY <2>1, <2>3, <2>4, <2>5 DEF Stops
<1>5. ASSUME con[d].at \notin Stopping PROVE Stops(d)'
  BY <1>5 DEF Stops, Stopping
<1> QED
  BY <1>3, <1>4, <1>5

(* A listing console has now seen which of its rolls are recorded.         *)
LEMMA ListBuildsSees ==
    ASSUME RollIInv, Forward, NEW c \in Console, ListBuilds(c)
    PROVE  Seen(c)' /\ Stops(c)'
<1>1. con[c] \in Session /\ Seen(c) /\ TypeOK
  BY DEF RollIInv, TypeOK, Consoles
<1>2. /\ con'[c].at \in {"idle", "pick"} /\ con'[c].rolls \subseteq con[c].rolls
      /\ con'[c].known \subseteq Rolling /\ con'[c].whole = FALSE
  BY <1>1, ListBuildsMakes
<1>3. con[c].rolls \subseteq Attempt
  BY <1>1 DEF Session
<1>4. ASSUME NEW a \in con'[c].rolls PROVE roll'[a] # "none"
  BY <1>1, <1>2, <1>3, <1>4 DEF Seen, Forward
<1>5. ASSUME NEW a \in con'[c].known
      PROVE  build'[a] \in {"recorded", "gone"} /\ roll'[a] # "none"
  <2>1. a \in Attempt /\ rrec[a]
    BY <1>2, <1>5 DEF Rolling
  <2>2. build[a] \in {"recorded", "gone"} /\ roll[a] # "none"
    BY <2>1 DEF RollIInv, Attempts
  <2> QED
    BY <2>1, <2>2 DEF Forward
<1>6. Seen(c)'
  BY <1>2, <1>4, <1>5 DEF Seen, Stopping
<1>7. Stops(c)'
  BY <1>2 DEF Stops, Stopping
<1> QED
  BY <1>6, <1>7

(* A console that goes on with its list saw what is left of it before.     *)
LEMMA PickKeeps ==
    ASSUME TypeOK, Forward, NEW c \in Console, Seen(c), con'[c].at \in {"idle", "pick"},
           con'[c].rolls \subseteq con[c].rolls, con'[c].known \subseteq con[c].known,
           con'[c].whole = FALSE
    PROVE  Seen(c)' /\ Stops(c)'
<1>1. con[c].rolls \subseteq Attempt /\ con[c].known \subseteq Attempt
  BY DEF TypeOK, Session
<1>2. ASSUME NEW a \in con'[c].rolls PROVE roll'[a] # "none"
  BY <1>1, <1>2 DEF Seen, Forward
<1>3. ASSUME NEW a \in con'[c].known
      PROVE  build'[a] \in {"recorded", "gone"} /\ roll'[a] # "none"
  BY <1>1, <1>3 DEF Seen, Forward
<1>4. Seen(c)'
  BY <1>2, <1>3 DEF Seen, Stopping
<1>5. Stops(c)'
  BY DEF Stops, Stopping
<1> QED
  BY <1>4, <1>5

(* A console that ended the cluster has seen whether there was one.        *)
LEMMA StopClusterSees ==
    ASSUME RollIInv, Forward, NEW c \in Console, StopCluster(c)
    PROVE  Seen(c)' /\ Stops(c)'
<1>1. con[c] \in Session /\ Seen(c) /\ Stops(c) /\ TypeOK
  BY DEF RollIInv, TypeOK, Consoles
<1>2. /\ con[c].at = "cluster"
      /\ con'[c].at = "sweep" /\ con'[c].rolls = con[c].rolls /\ con'[c].run = con[c].run
      /\ con'[c].known = con[c].known
      /\ con'[c].whole = (con[c].run \in con[c].known /\ clus[con[c].run] # "none")
  BY <1>1, StopClusterMakes DEF StopCluster
<1>3. con[c].rolls \subseteq Attempt /\ con[c].known \subseteq Attempt
  BY <1>1 DEF Session
<1>4. PICK a \in Attempt : a = con[c].run
  BY <1>1, <1>2 DEF Seen, Stopping
<1>5. Seen(c)'
  <2>1. ASSUME NEW b \in con[c].rolls PROVE roll'[b] # "none"
    BY <1>1, <1>3, <2>1 DEF Seen, Forward
  <2>2. ASSUME NEW b \in con[c].known
        PROVE  build'[b] \in {"recorded", "gone"} /\ roll'[b] # "none"
    BY <1>1, <1>3, <2>2 DEF Seen, Forward
  <2> QED
    BY <1>2, <1>4, <2>1, <2>2 DEF Seen, Stopping
<1>6. roll[a] # "none"
  BY <1>1, <1>2, <1>4 DEF Stops, Stopping
<1>7. roll'[a] # "none" /\ (clus[a] # "none" => clus'[a] # "none")
  BY <1>6 DEF Forward
<1>8. con'[c].run = a /\ (con'[c].whole => a \in con'[c].known /\ clus'[a] # "none")
  BY <1>2, <1>4, <1>7
<1>9. Stops(c)'
  BY <1>2, <1>7, <1>8 DEF Stops, Stopping
<1> QED
  BY <1>5, <1>9

(* A console that ended the roll has ended it.                             *)
LEMMA StopRollSees ==
    ASSUME RollIInv, Forward, NEW c \in Console, StopRoll(c)
    PROVE  Seen(c)' /\ Stops(c)'
<1>1. con[c] \in Session /\ Seen(c) /\ Stops(c) /\ TypeOK
  BY DEF RollIInv, TypeOK, Consoles
<1>2. CASE con'[c].at \in {"idle", "pick"}
  BY <1>1, <1>2, StopRollMakes, PickKeeps
<1>3. CASE con'[c].at \notin {"idle", "pick"}
  <2>1. /\ con[c].at = "roll"
        /\ con'[c].at = "take" /\ con'[c].run = con[c].run
        /\ con'[c].rolls = con[c].rolls /\ con'[c].known = con[c].known
        /\ con'[c].whole = con[c].whole
        /\ roll' = [roll EXCEPT ![con[c].run] = "gone"]
    BY <1>1, <1>3, StopRollMakes DEF StopRoll
  <2>2. con[c].rolls \subseteq Attempt /\ con[c].known \subseteq Attempt
    BY <1>1 DEF Session
  <2>3. PICK a \in Attempt : a = con[c].run
    BY <1>1, <2>1 DEF Seen, Stopping
  <2>4. Seen(c)'
    <3>1. ASSUME NEW b \in con[c].rolls PROVE roll'[b] # "none"
      BY <1>1, <2>2, <3>1 DEF Seen, Forward
    <3>2. ASSUME NEW b \in con[c].known
          PROVE  build'[b] \in {"recorded", "gone"} /\ roll'[b] # "none"
      BY <1>1, <2>2, <3>2 DEF Seen, Forward
    <3> QED
      BY <2>1, <2>3, <3>1, <3>2 DEF Seen, Stopping
  <2>5. roll'[a] = "gone" /\ con'[c].run = a
    BY <1>1, <2>1, <2>3 DEF TypeOK
  <2>6. con'[c].whole => a \in con'[c].known /\ clus'[a] # "none" /\ Swept(a)'
    BY <1>1, <2>1, <2>3 DEF Stops, Forward
  <2>7. con'[c].whole => Swept(con[c].run)'
    BY <2>5, <2>6 DEF Swept
  <2> QED
    BY <2>1, <2>4, <2>5, <2>6, <2>7 DEF Stops, Stopping
<1> QED
  BY <1>2, <1>3

(* A console that took the record has left none.                           *)
LEMMA TakeRecordStops ==
    ASSUME RollIInv, Forward, NEW c \in Console, TakeRecord(c)
    PROVE  Stops(c)'
<1>1. con[c] \in Session /\ Seen(c) /\ Stops(c) /\ TypeOK
  BY DEF RollIInv, TypeOK, Consoles
<1>2. /\ con[c].at = "take"
      /\ con'[c].at = "images" /\ con'[c].run = con[c].run
      /\ con'[c].known = con[c].known /\ con'[c].whole = con[c].whole
  BY <1>1, TakeRecordMakes DEF TakeRecord
<1>3. PICK a \in Attempt : a = con[c].run
  BY <1>1, <1>2 DEF Seen, Stopping
<1>4. con'[c].run = a
  BY <1>2, <1>3
<1>5. roll'[a] = "gone"
  BY <1>1, <1>2, <1>3 DEF Stops, Forward
<1>6. a \in con'[c].known => ~rrec'[a]
  BY <1>1, <1>2, <1>3 DEF TakeRecord, TypeOK
<1>7. con'[c].whole => a \in con'[c].known /\ clus'[a] # "none" /\ Swept(a)'
  BY <1>1, <1>2, <1>3 DEF Stops, Forward
<1>8. con'[c].whole => Swept(con[c].run)'
  BY <1>4, <1>7 DEF Swept
<1> QED
  BY <1>2, <1>4, <1>5, <1>6, <1>7, <1>8 DEF Stops, Stopping

(* A step of one console has to be looked at for that console only.        *)
LEMMA ConsoleKeeps ==
    ASSUME TypeOK, Consoles, Forward, NEW c \in Console, Seen(c)', Stops(c)',
           \A d \in Console : d # c => con'[d] = con[d]
    PROVE  Consoles'
<1>1. ASSUME NEW d \in Console PROVE Seen(d)' /\ Stops(d)'
  <2>1. CASE d = c
    BY <2>1
  <2>2. CASE d # c
    BY <2>2, OthersKeep DEF Consoles
  <2> QED
    BY <2>1, <2>2
<1> QED
  BY <1>1 DEF Consoles

(* Every step keeps what a console found of what it stops.                 *)
LEMMA ConsolesStep == RollIInv /\ [Next]_vars => Consoles'
<1> SUFFICES ASSUME RollIInv, [Next]_vars PROVE Consoles'
  OBVIOUS
<1> USE RollAssumption DEF imageVars, BuildAt, RollIInv, TypeOK, Attempts, Consoles,
                           Stops, Seen, Stopping, Swept
<1>1. ASSUME NEW c \in Console, RemoveStale(c) PROVE Consoles'
  BY <1>1 DEF RemoveStale, Failed, Alive
<1>2. ASSUME NEW c \in Console, RemoveEnded(c) PROVE Consoles'
  BY <1>2 DEF RemoveEnded, Failed, Alive
<1>3. ASSUME NEW c \in Console, AskRolling(c) PROVE Consoles'
  <2>1. con'[c].at = "building" => c \in Starter
    BY <1>3 DEF AskRolling
  <2>2. Seen(c)' /\ Stops(c)'
    BY <1>3, <2>1, AskRollingMakes
  <2> HIDE DEF RollIInv, TypeOK, Attempts, Consoles, Stops, Seen, Stopping, Swept
  <2>3. TypeOK /\ Consoles /\ Forward
    BY ForwardStep DEF RollIInv
  <2> QED
    BY <1>3, <2>2, <2>3, AskRollingMakes, ConsoleKeeps
<1>4. ASSUME NEW c \in Console, AskBuilding(c) PROVE Consoles'
  BY <1>4 DEF AskBuilding, Building, Alive, Idle
<1>5. ASSUME NEW c \in Console, RefuseRoles(c) PROVE Consoles'
  BY <1>5 DEF RefuseRoles, Idle
<1>6. ASSUME NEW c \in Console, WriteStart(c) PROVE Consoles'
  BY <1>6 DEF WriteStart, Idle
<1>7. ASSUME NEW c \in Console, Closed(c) PROVE Consoles'
  BY <1>7 DEF Closed, Fault, Idle
<1>8. ASSUME NEW c \in Console, ListRolls(c) PROVE Consoles'
  BY <1>8 DEF ListRolls, Idle
<1>9. ASSUME NEW c \in Console, ListBuilds(c) PROVE Consoles'
  <2> HIDE DEF RollIInv, TypeOK, Attempts, Consoles, Stops, Seen, Stopping, Swept
  <2>1. TypeOK /\ Consoles /\ Forward
    BY ForwardStep DEF RollIInv
  <2>2. Seen(c)' /\ Stops(c)'
    BY <1>9, <2>1, ListBuildsSees
  <2> QED
    BY <1>9, <2>1, <2>2, ListBuildsMakes, ConsoleKeeps
<1>10. ASSUME NEW c \in Console, Listed(c) PROVE Consoles'
  BY <1>10 DEF Listed, Idle
<1>11. ASSUME NEW c \in Console, StopNodes(c) PROVE Consoles'
  BY <1>11 DEF StopNodes
<1>12. ASSUME NEW c \in Console, StopCluster(c) PROVE Consoles'
  <2> HIDE DEF RollIInv, TypeOK, Attempts, Consoles, Stops, Seen, Stopping, Swept
  <2>1. TypeOK /\ Consoles /\ Forward
    BY ForwardStep DEF RollIInv
  <2>2. Seen(c)' /\ Stops(c)'
    BY <1>12, <2>1, StopClusterSees
  <2> QED
    BY <1>12, <2>1, <2>2, StopClusterMakes, ConsoleKeeps
<1>13. ASSUME NEW c \in Console, Sweep(c) PROVE Consoles'
  <2>1. con[c] \in Session
    BY <1>13
  <2>2. Seen(c)'
    BY <1>13, <2>1, SweepMakes DEF Sweep
  <2>3. Stops(c)'
    BY <1>13, <2>1, SweepMakes DEF Sweep
  <2> HIDE DEF RollIInv, TypeOK, Attempts, Consoles, Stops, Seen, Stopping, Swept
  <2>4. TypeOK /\ Consoles /\ Forward
    BY ForwardStep DEF RollIInv
  <2> QED
    BY <1>13, <2>2, <2>3, <2>4, SweepMakes, ConsoleKeeps
<1>14. ASSUME NEW c \in Console, StopRoll(c) PROVE Consoles'
  <2> HIDE DEF RollIInv, TypeOK, Attempts, Consoles, Stops, Seen, Stopping, Swept
  <2>1. TypeOK /\ Consoles /\ Forward
    BY ForwardStep DEF RollIInv
  <2>2. Seen(c)' /\ Stops(c)'
    BY <1>14, <2>1, StopRollSees
  <2> QED
    BY <1>14, <2>1, <2>2, StopRollMakes, ConsoleKeeps
<1>15. ASSUME NEW c \in Console, TakeRecord(c) PROVE Consoles'
  <2>1. con[c] \in Session
    BY <1>15
  <2>2. Seen(c)'
    BY <1>15, <2>1, TakeRecordMakes DEF TakeRecord
  <2> HIDE DEF RollIInv, TypeOK, Attempts, Consoles, Stops, Seen, Stopping, Swept
  <2>3. TypeOK /\ Consoles /\ Forward
    BY ForwardStep DEF RollIInv
  <2>4. Stops(c)'
    BY <1>15, <2>3, TakeRecordStops
  <2> QED
    BY <1>15, <2>2, <2>3, <2>4, TakeRecordMakes, ConsoleKeeps
<1>16. ASSUME NEW c \in Console, RemoveImages(c) PROVE Consoles'
  <2> HIDE DEF RollIInv, TypeOK, Attempts, Consoles, Stops, Seen, Stopping, Swept
  <2>1. TypeOK /\ Consoles /\ Forward
    BY ForwardStep DEF RollIInv
  <2>2. Seen(c)' /\ Stops(c)'
    BY <1>16, <2>1, RemoveImagesMakes, PickKeeps DEF Consoles
  <2> QED
    BY <1>16, <2>1, <2>2, RemoveImagesMakes, ConsoleKeeps
<1>17. ASSUME NEW c \in Console, NEW a \in Attempt, Launch(c, a) PROVE Consoles'
  BY <1>17 DEF Launch, Idle
<1>18. ASSUME NEW c \in Console, NEW a \in Attempt, StopBuild(c, a) PROVE Consoles'
  <2> HIDE DEF RollIInv, TypeOK, Attempts, Consoles, Stops, Seen, Stopping, Swept
  <2>1. TypeOK /\ Consoles /\ Forward
    BY ForwardStep DEF RollIInv
  <2>2. Seen(c)' /\ Stops(c)'
    BY <1>18, <2>1, StopBuildMakes, PickKeeps DEF Consoles
  <2> QED
    BY <1>18, <2>1, <2>2, StopBuildMakes, ConsoleKeeps
<1>19. ASSUME NEW c \in Console, NEW a \in Attempt, ListNodes(c, a) PROVE Consoles'
  BY <1>19 DEF ListNodes
<1>20. ASSUME NEW a \in Attempt, Cargo(a) PROVE Consoles'
  <2>1. UNCHANGED con
    BY <1>20 DEF Cargo
  <2> HIDE DEF RollIInv, TypeOK, Attempts, Consoles, Stops, Seen, Stopping, Swept
  <2>2. TypeOK /\ Consoles /\ Forward
    BY ForwardStep DEF RollIInv
  <2> QED
    BY <2>1, <2>2, OthersKeep DEF Consoles
<1>21. ASSUME NEW a \in Attempt, AskAgain(a) PROVE Consoles'
  <2>1. UNCHANGED con
    BY <1>21 DEF AskAgain, GoesOn
  <2> HIDE DEF RollIInv, TypeOK, Attempts, Consoles, Stops, Seen, Stopping, Swept
  <2>2. TypeOK /\ Consoles /\ Forward
    BY ForwardStep DEF RollIInv
  <2> QED
    BY <2>1, <2>2, OthersKeep DEF Consoles
<1>22. ASSUME NEW a \in Attempt, Link(a) PROVE Consoles'
  <2>1. UNCHANGED con
    BY <1>22 DEF Link
  <2> HIDE DEF RollIInv, TypeOK, Attempts, Consoles, Stops, Seen, Stopping, Swept
  <2>2. TypeOK /\ Consoles /\ Forward
    BY ForwardStep DEF RollIInv
  <2> QED
    BY <2>1, <2>2, OthersKeep DEF Consoles
<1>23. ASSUME NEW a \in Attempt, Spawn(a) PROVE Consoles'
  <2>1. UNCHANGED con
    BY <1>23 DEF Spawn
  <2> HIDE DEF RollIInv, TypeOK, Attempts, Consoles, Stops, Seen, Stopping, Swept
  <2>2. TypeOK /\ Consoles /\ Forward
    BY ForwardStep DEF RollIInv
  <2> QED
    BY <2>1, <2>2, OthersKeep DEF Consoles
<1>24. ASSUME NEW a \in Attempt, RecordRoll(a) PROVE Consoles'
  <2>1. UNCHANGED con
    BY <1>24 DEF RecordRoll
  <2> HIDE DEF RollIInv, TypeOK, Attempts, Consoles, Stops, Seen, Stopping, Swept
  <2>2. TypeOK /\ Consoles /\ Forward
    BY ForwardStep DEF RollIInv
  <2> QED
    BY <2>1, <2>2, OthersKeep DEF Consoles
<1>25. ASSUME NEW a \in Attempt, RemoveBuild(a) PROVE Consoles'
  BY <1>25 DEF RemoveBuild
<1>26. ASSUME NEW a \in Attempt, Fail(a) PROVE Consoles'
  BY <1>26 DEF Fail
<1>27. ASSUME NEW a \in Attempt, Dies(a) PROVE Consoles'
  BY <1>27 DEF Dies, Fault
<1>28. ASSUME NEW a \in Attempt, SpawnCluster(a) PROVE Consoles'
  BY <1>28 DEF SpawnCluster
<1>29. ASSUME NEW a \in Attempt, RollEnds(a) PROVE Consoles'
  BY <1>29 DEF RollEnds, NoNodes
<1>30. ASSUME NEW a \in Attempt, NEW n \in Node, SpawnNode(a, n) PROVE Consoles'
  BY <1>30 DEF SpawnNode
<1>31. ASSUME NEW a \in Attempt, NEW n \in Node, Declare(a, n) PROVE Consoles'
  BY <1>31 DEF Declare
<1>32. ASSUME NEW a \in Attempt, NEW n \in Node, NodeEnds(a, n) PROVE Consoles'
  BY <1>32 DEF NodeEnds
<1>33. CASE UNCHANGED vars
  BY <1>33 DEF vars
<1> HIDE DEF RollIInv, TypeOK, Attempts, Consoles, Stops, Seen, Stopping, Swept
<1> QED
  BY <1>1, <1>2, <1>3, <1>4, <1>5, <1>6, <1>7, <1>8, <1>9, <1>10, <1>11, <1>12,
     <1>13, <1>14, <1>15, <1>16, <1>17, <1>18, <1>19, <1>20, <1>21, <1>22, <1>23,
     <1>24, <1>25, <1>26, <1>27, <1>28, <1>29, <1>30, <1>31, <1>32, <1>33
     DEF Next

(* Every step keeps what was stopped whole stopped.                        *)
LEMMA StoppedStep == RollIInv /\ [Next]_vars => Stopped'
<1> SUFFICES ASSUME RollIInv, [Next]_vars PROVE Stopped'
  OBVIOUS
<1> USE RollAssumption DEF imageVars, BuildAt, RollIInv, TypeOK, Attempts, Consoles,
                           Stops, Seen, Stopping, Stopped, Swept
<1>1. ASSUME NEW c \in Console, RemoveStale(c) PROVE Stopped'
  BY <1>1 DEF RemoveStale, Failed, Alive
<1>2. ASSUME NEW c \in Console, RemoveEnded(c) PROVE Stopped'
  BY <1>2 DEF RemoveEnded, Failed, Alive
<1>3. ASSUME NEW c \in Console, AskRolling(c) PROVE Stopped'
  BY <1>3 DEF AskRolling, Rolling
<1>4. ASSUME NEW c \in Console, AskBuilding(c) PROVE Stopped'
  BY <1>4 DEF AskBuilding, Building, Alive, Idle
<1>5. ASSUME NEW c \in Console, RefuseRoles(c) PROVE Stopped'
  BY <1>5 DEF RefuseRoles, Idle
<1>6. ASSUME NEW c \in Console, WriteStart(c) PROVE Stopped'
  BY <1>6 DEF WriteStart, Idle
<1>7. ASSUME NEW c \in Console, Closed(c) PROVE Stopped'
  BY <1>7 DEF Closed, Fault, Idle
<1>8. ASSUME NEW c \in Console, ListRolls(c) PROVE Stopped'
  BY <1>8 DEF ListRolls, Idle
<1>9. ASSUME NEW c \in Console, ListBuilds(c) PROVE Stopped'
  BY <1>9 DEF ListBuilds, Rolling, Building, NextOf
<1>10. ASSUME NEW c \in Console, Listed(c) PROVE Stopped'
  BY <1>10 DEF Listed, Idle
<1>11. ASSUME NEW c \in Console, StopNodes(c) PROVE Stopped'
  BY <1>11 DEF StopNodes
<1>12. ASSUME NEW c \in Console, StopCluster(c) PROVE Stopped'
  BY <1>12 DEF StopCluster
<1>13. ASSUME NEW c \in Console, Sweep(c) PROVE Stopped'
  <2> SUFFICES ASSUME NEW a \in whole' PROVE Swept(a)'
    BY <1>13 DEF Sweep
  <2>1. a \in whole /\ a \in Attempt /\ Swept(a)
    BY <1>13 DEF Sweep
  <2>2. CASE con[c].run \notin con[c].known
    BY <1>13, <2>1, <2>2 DEF Sweep
  <2>3. CASE con[c].run \in con[c].known
    <3>1. clus'[a] = "gone"
      BY <1>13, <2>1, <2>3 DEF Sweep
    <3>2. ASSUME NEW n \in Node, node'[a][n] # "none" PROVE n \in missed'[a]
      <4>1. node[a][n] = "up"
        BY <1>13, <2>1, <2>3, <3>2 DEF Sweep
      <4>2. n \in missed[a]
        BY <2>1, <4>1
      <4>3. missed'[a] \in {missed[a], {m \in Node : node[a][m] = "up"}}
        BY <1>13, <2>1, <2>3 DEF Sweep
      <4> QED
        BY <4>1, <4>2, <4>3
    <3> QED
      BY <3>1, <3>2
  <2> QED
    BY <2>2, <2>3
<1>14. ASSUME NEW c \in Console, StopRoll(c) PROVE Stopped'
  BY <1>14 DEF StopRoll
<1>15. ASSUME NEW c \in Console, TakeRecord(c) PROVE Stopped'
  BY <1>15 DEF TakeRecord
<1>16. ASSUME NEW c \in Console, RemoveImages(c) PROVE Stopped'
  BY <1>16 DEF RemoveImages
<1>17. ASSUME NEW c \in Console, NEW a \in Attempt, Launch(c, a) PROVE Stopped'
  BY <1>17 DEF Launch, Idle
<1>18. ASSUME NEW c \in Console, NEW a \in Attempt, StopBuild(c, a) PROVE Stopped'
  <2> SUFFICES ASSUME NEW b \in whole'
               PROVE  /\ roll'[b] = "gone" /\ ~rrec'[b]
                      /\ build'[b] \in {"recorded", "gone"} /\ Swept(b)'
    OBVIOUS
  <2>1. b \in whole /\ b \in Attempt /\ rrec' = rrec
    BY <1>18, StopBuildEnds
  <2>2. /\ roll[b] = "gone" /\ ~rrec[b] /\ build[b] \in {"recorded", "gone"} /\ Swept(b)
    BY <2>1
  <2> HIDE DEF RollIInv, TypeOK, Attempts, Consoles, Stops, Seen, Stopping, Stopped, Swept
  <2>3. Forward
    BY ForwardStep
  <2> QED
    BY <2>1, <2>2, <2>3 DEF Forward
<1>19. ASSUME NEW c \in Console, NEW a \in Attempt, ListNodes(c, a) PROVE Stopped'
  BY <1>19 DEF ListNodes
<1>20. ASSUME NEW a \in Attempt, Cargo(a) PROVE Stopped'
  BY <1>20 DEF Cargo
<1>21. ASSUME NEW a \in Attempt, AskAgain(a) PROVE Stopped'
  BY <1>21 DEF AskAgain, GoesOn, Rolling
<1>22. ASSUME NEW a \in Attempt, Link(a) PROVE Stopped'
  BY <1>22 DEF Link
<1>23. ASSUME NEW a \in Attempt, Spawn(a) PROVE Stopped'
  BY <1>23 DEF Spawn
<1>24. ASSUME NEW a \in Attempt, RecordRoll(a) PROVE Stopped'
  BY <1>24 DEF RecordRoll, Fault
<1>25. ASSUME NEW a \in Attempt, RemoveBuild(a) PROVE Stopped'
  BY <1>25 DEF RemoveBuild
<1>26. ASSUME NEW a \in Attempt, Fail(a) PROVE Stopped'
  BY <1>26 DEF Fail
<1>27. ASSUME NEW a \in Attempt, Dies(a) PROVE Stopped'
  BY <1>27 DEF Dies, Fault
<1>28. ASSUME NEW a \in Attempt, SpawnCluster(a) PROVE Stopped'
  BY <1>28 DEF SpawnCluster
<1>29. ASSUME NEW a \in Attempt, RollEnds(a) PROVE Stopped'
  BY <1>29 DEF RollEnds, NoNodes
<1>30. ASSUME NEW a \in Attempt, NEW n \in Node, SpawnNode(a, n) PROVE Stopped'
  BY <1>30 DEF SpawnNode
<1>31. ASSUME NEW a \in Attempt, NEW n \in Node, Declare(a, n) PROVE Stopped'
  BY <1>31 DEF Declare
<1>32. ASSUME NEW a \in Attempt, NEW n \in Node, NodeEnds(a, n) PROVE Stopped'
  BY <1>32 DEF NodeEnds
<1>33. CASE UNCHANGED vars
  BY <1>33 DEF vars
<1> HIDE DEF RollIInv, TypeOK, Attempts, Consoles, Stops, Seen, Stopping, Stopped, Swept
<1> QED
  BY <1>1, <1>2, <1>3, <1>4, <1>5, <1>6, <1>7, <1>8, <1>9, <1>10, <1>11, <1>12,
     <1>13, <1>14, <1>15, <1>16, <1>17, <1>18, <1>19, <1>20, <1>21, <1>22, <1>23,
     <1>24, <1>25, <1>26, <1>27, <1>28, <1>29, <1>30, <1>31, <1>32, <1>33
     DEF Next

(* A race is of both, and stays one.                                       *)
LEMMA RacedBoth == \A a, b \in Attempt : Raced(a, b) <=> Raced(b, a)
<1> SUFFICES ASSUME NEW a \in Attempt, NEW b \in Attempt PROVE Raced(a, b) <=> Raced(b, a)
  OBVIOUS
<1>1. {a, b} = {b, a}
  OBVIOUS
<1> QED
  BY <1>1, Zenon DEF Raced

LEMMA RacedKept ==
    ASSUME raced' = raced
    PROVE  \A a, b \in Attempt : Raced(a, b)' <=> Raced(a, b)
BY DEF Raced

(* Every step keeps the races: a start that goes on finds no record, so    *)
(* every other that is live is one that asked and has not recorded, or has *)
(* lost its record.                                                        *)
LEMMA RacesStep == RollIInv /\ [Next]_vars => Races'
<1> SUFFICES ASSUME RollIInv, [Next]_vars PROVE Races'
  OBVIOUS
<1> USE RollAssumption, RacedKept, RacedBoth DEF imageVars, BuildAt, RollIInv, TypeOK, Attempts, Races, Live,
                           Unrecorded, Lost
<1>1. ASSUME NEW c \in Console, RemoveStale(c) PROVE Races'
  BY <1>1 DEF RemoveStale
<1>2. ASSUME NEW c \in Console, RemoveEnded(c) PROVE Races'
  BY <1>2 DEF RemoveEnded
<1>3. ASSUME NEW c \in Console, AskRolling(c) PROVE Races'
  BY <1>3 DEF AskRolling
<1>4. ASSUME NEW c \in Console, AskBuilding(c) PROVE Races'
  BY <1>4 DEF AskBuilding
<1>5. ASSUME NEW c \in Console, RefuseRoles(c) PROVE Races'
  BY <1>5 DEF RefuseRoles
<1>6. ASSUME NEW c \in Console, WriteStart(c) PROVE Races'
  BY <1>6 DEF WriteStart
<1>7. ASSUME NEW c \in Console, Closed(c) PROVE Races'
  BY <1>7 DEF Closed, Fault
<1>8. ASSUME NEW c \in Console, ListRolls(c) PROVE Races'
  BY <1>8 DEF ListRolls
<1>9. ASSUME NEW c \in Console, ListBuilds(c) PROVE Races'
  BY <1>9 DEF ListBuilds
<1>10. ASSUME NEW c \in Console, Listed(c) PROVE Races'
  BY <1>10 DEF Listed
<1>11. ASSUME NEW c \in Console, StopNodes(c) PROVE Races'
  BY <1>11 DEF StopNodes
<1>12. ASSUME NEW c \in Console, StopCluster(c) PROVE Races'
  BY <1>12 DEF StopCluster
<1>13. ASSUME NEW c \in Console, Sweep(c) PROVE Races'
  BY <1>13 DEF Sweep
<1>14. ASSUME NEW c \in Console, StopRoll(c) PROVE Races'
  BY <1>14 DEF StopRoll
<1>15. ASSUME NEW c \in Console, TakeRecord(c) PROVE Races'
  BY <1>15 DEF TakeRecord
<1>16. ASSUME NEW c \in Console, RemoveImages(c) PROVE Races'
  BY <1>16 DEF RemoveImages
<1>17. ASSUME NEW c \in Console, NEW a \in Attempt, Launch(c, a) PROVE Races'
  BY <1>17 DEF Launch
<1>18. ASSUME NEW c \in Console, NEW a \in Attempt, StopBuild(c, a) PROVE Races'
  BY <1>18 DEF StopBuild, TreeEnds, Alive
<1>19. ASSUME NEW c \in Console, NEW a \in Attempt, ListNodes(c, a) PROVE Races'
  BY <1>19 DEF ListNodes
<1>20. ASSUME NEW a \in Attempt, Cargo(a) PROVE Races'
  BY <1>20 DEF Cargo
<1>21. ASSUME NEW a \in Attempt, AskAgain(a) PROVE Races'
  <2>1. CASE BuildAt(a, "asking", "failing") /\ UNCHANGED raced
    BY <1>21, <2>1 DEF AskAgain
  <2>2. CASE Rolling = {} /\ GoesOn(a)
    <3>1. \A d \in Unrecorded : Raced(a, d)' /\ Raced(d, a)'
      <4> SUFFICES ASSUME NEW d \in Unrecorded PROVE {a, d} \in raced' /\ {d, a} \in raced'
        BY DEF Raced
      <4>1. {a, d} = {d, a}
        OBVIOUS
      <4> QED
        BY <2>2, <4>1 DEF GoesOn
    <3>2. \A d, e \in Attempt : Raced(d, e) => Raced(d, e)'
      BY <2>2 DEF GoesOn, Raced
    <3>3. UNCHANGED <<roll, rrec>> /\ build' = [build EXCEPT ![a] = "spawning"]
          /\ build[a] = "asking" /\ \A d \in Attempt : ~rrec[d]
      BY <1>21, <2>2 DEF AskAgain, GoesOn, Rolling
    <3> QED
      BY <3>1, <3>2, <3>3
  <2> QED
    BY <1>21, <2>1, <2>2 DEF AskAgain
<1>22. ASSUME NEW a \in Attempt, Link(a) PROVE Races'
  BY <1>22 DEF Link
<1>23. ASSUME NEW a \in Attempt, Spawn(a) PROVE Races'
  BY <1>23 DEF Spawn
<1>24. ASSUME NEW a \in Attempt, RecordRoll(a) PROVE Races'
  <2>1. roll' = roll /\ build[a] = "spawned"
    BY <1>24 DEF RecordRoll
  <2>2. CASE build' = [build EXCEPT ![a] = "recorded"] /\ rrec' = [rrec EXCEPT ![a] = TRUE]
    BY <1>24, <2>1, <2>2 DEF RecordRoll
  <2>3. CASE build' = [build EXCEPT ![a] = "failing"] /\ UNCHANGED rrec
    BY <1>24, <2>1, <2>3 DEF RecordRoll
  <2> QED
    BY <1>24, <2>2, <2>3 DEF RecordRoll
<1>25. ASSUME NEW a \in Attempt, RemoveBuild(a) PROVE Races'
  BY <1>25 DEF RemoveBuild
<1>26. ASSUME NEW a \in Attempt, Fail(a) PROVE Races'
  BY <1>26 DEF Fail
<1>27. ASSUME NEW a \in Attempt, Dies(a) PROVE Races'
  BY <1>27 DEF Dies, Fault, Alive
<1>28. ASSUME NEW a \in Attempt, SpawnCluster(a) PROVE Races'
  BY <1>28 DEF SpawnCluster
<1>29. ASSUME NEW a \in Attempt, RollEnds(a) PROVE Races'
  BY <1>29 DEF RollEnds
<1>30. ASSUME NEW a \in Attempt, NEW n \in Node, SpawnNode(a, n) PROVE Races'
  BY <1>30 DEF SpawnNode
<1>31. ASSUME NEW a \in Attempt, NEW n \in Node, Declare(a, n) PROVE Races'
  BY <1>31 DEF Declare
<1>32. ASSUME NEW a \in Attempt, NEW n \in Node, NodeEnds(a, n) PROVE Races'
  BY <1>32 DEF NodeEnds
<1>33. CASE UNCHANGED vars
  BY <1>33 DEF vars
<1> HIDE DEF RollIInv, TypeOK, Attempts, Races, Live, Unrecorded, Lost
<1> QED
  BY <1>1, <1>2, <1>3, <1>4, <1>5, <1>6, <1>7, <1>8, <1>9, <1>10, <1>11, <1>12,
     <1>13, <1>14, <1>15, <1>16, <1>17, <1>18, <1>19, <1>20, <1>21, <1>22, <1>23,
     <1>24, <1>25, <1>26, <1>27, <1>28, <1>29, <1>30, <1>31, <1>32, <1>33
     DEF Next

(* Every step keeps the images of a roll about to begin: whoever else      *)
(* unlinks them is live, and raced with it.                                *)
LEMMA ImagesStandStep == RollIInv /\ [Next]_vars => ImagesStand'
<1> SUFFICES ASSUME RollIInv, [Next]_vars PROVE ImagesStand'
  OBVIOUS
<1> USE RollAssumption, RacedKept, RacedBoth DEF imageVars, BuildAt, RollIInv, TypeOK, Attempts, RollKnown,
                           Races, Live, Unrecorded, Lost, ImagesStand
<1>1. ASSUME NEW c \in Console, RemoveStale(c) PROVE ImagesStand'
  BY <1>1 DEF RemoveStale
<1>2. ASSUME NEW c \in Console, RemoveEnded(c) PROVE ImagesStand'
  BY <1>2 DEF RemoveEnded
<1>3. ASSUME NEW c \in Console, AskRolling(c) PROVE ImagesStand'
  BY <1>3 DEF AskRolling
<1>4. ASSUME NEW c \in Console, AskBuilding(c) PROVE ImagesStand'
  BY <1>4 DEF AskBuilding
<1>5. ASSUME NEW c \in Console, RefuseRoles(c) PROVE ImagesStand'
  BY <1>5 DEF RefuseRoles
<1>6. ASSUME NEW c \in Console, WriteStart(c) PROVE ImagesStand'
  BY <1>6 DEF WriteStart
<1>7. ASSUME NEW c \in Console, Closed(c) PROVE ImagesStand'
  BY <1>7 DEF Closed, Fault
<1>8. ASSUME NEW c \in Console, ListRolls(c) PROVE ImagesStand'
  BY <1>8 DEF ListRolls
<1>9. ASSUME NEW c \in Console, ListBuilds(c) PROVE ImagesStand'
  BY <1>9 DEF ListBuilds
<1>10. ASSUME NEW c \in Console, Listed(c) PROVE ImagesStand'
  BY <1>10 DEF Listed
<1>11. ASSUME NEW c \in Console, StopNodes(c) PROVE ImagesStand'
  BY <1>11 DEF StopNodes
<1>12. ASSUME NEW c \in Console, StopCluster(c) PROVE ImagesStand'
  BY <1>12 DEF StopCluster
<1>13. ASSUME NEW c \in Console, Sweep(c) PROVE ImagesStand'
  BY <1>13 DEF Sweep
<1>14. ASSUME NEW c \in Console, StopRoll(c) PROVE ImagesStand'
  BY <1>14 DEF StopRoll
<1>15. ASSUME NEW c \in Console, TakeRecord(c) PROVE ImagesStand'
  BY <1>15 DEF TakeRecord
<1>16. ASSUME NEW c \in Console, RemoveImages(c) PROVE ImagesStand'
  BY <1>16 DEF RemoveImages
<1>17. ASSUME NEW c \in Console, NEW a \in Attempt, Launch(c, a) PROVE ImagesStand'
  BY <1>17 DEF Launch
<1>18. ASSUME NEW c \in Console, NEW a \in Attempt, StopBuild(c, a) PROVE ImagesStand'
  BY <1>18 DEF StopBuild, TreeEnds, Alive
<1>19. ASSUME NEW c \in Console, NEW a \in Attempt, ListNodes(c, a) PROVE ImagesStand'
  BY <1>19 DEF ListNodes
<1>20. ASSUME NEW a \in Attempt, Cargo(a) PROVE ImagesStand'
  <2>1. /\ UNCHANGED <<roll, clus, faults, image, raced>>
        /\ build' = [build EXCEPT ![a] = "asking"] \/ build' = [build EXCEPT ![a] = "failing"]
    BY <1>20 DEF Cargo
  <2>2. \A b \in Attempt : build'[b] = "linked" => build[b] = "linked"
    BY <2>1
  <2>3. \A b, d \in Attempt : Raced(b, d)' <=> Raced(b, d)
    BY <2>1
  <2> QED
    BY <2>1, <2>2, <2>3
<1>21. ASSUME NEW a \in Attempt, AskAgain(a) PROVE ImagesStand'
  <2>1. CASE BuildAt(a, "asking", "failing") /\ UNCHANGED raced
    BY <1>21, <2>1 DEF AskAgain
  <2>2. CASE GoesOn(a)
    <3>1. \A d, e \in Attempt : Raced(d, e) => Raced(d, e)'
      BY <2>2 DEF GoesOn, Raced
    <3>2. /\ UNCHANGED <<roll, clus, faults, image>>
          /\ build' = [build EXCEPT ![a] = "spawning"]
      BY <1>21, <2>2 DEF AskAgain, GoesOn
    <3> QED
      BY <3>1, <3>2
  <2> QED
    BY <1>21, <2>1, <2>2 DEF AskAgain
<1>22. ASSUME NEW a \in Attempt, Link(a) PROVE ImagesStand'
  <2>1. /\ UNCHANGED <<faults, roll, rrec, clus, raced>>
        /\ build[a] = "spawning" /\ build'[a] \in {"linked", "failing"}
        /\ \A b \in Attempt : b # a => build'[b] = build[b]
    BY <1>22 DEF Link
  <2>2. CASE image' = "linked"
    BY <2>2
  <2>3. CASE image' # "linked"
    <3> SUFFICES ASSUME faults = 0, NEW b \in Attempt,
                        build'[b] = "linked" \/ roll[b] = "up",
                        \A d \in Attempt : ~Raced(b, d)
                 PROVE  FALSE
      BY <2>1
    <3>1. build'[a] # "linked" /\ roll[a] # "up"
      BY <1>22, <2>1, <2>3 DEF Link
    <3>2. b # a /\ Live(b) /\ Live(a)
      BY <2>1, <3>1
    <3>3. Lost = {}
      OBVIOUS
    <3> QED
      BY <3>2, <3>3
  <2> QED
    BY <2>2, <2>3
<1>23. ASSUME NEW a \in Attempt, Spawn(a) PROVE ImagesStand'
  BY <1>23 DEF Spawn
<1>24. ASSUME NEW a \in Attempt, RecordRoll(a) PROVE ImagesStand'
  BY <1>24 DEF RecordRoll, Fault
<1>25. ASSUME NEW a \in Attempt, RemoveBuild(a) PROVE ImagesStand'
  BY <1>25 DEF RemoveBuild
<1>26. ASSUME NEW a \in Attempt, Fail(a) PROVE ImagesStand'
  BY <1>26 DEF Fail
<1>27. ASSUME NEW a \in Attempt, Dies(a) PROVE ImagesStand'
  BY <1>27 DEF Dies, Fault, Alive
<1>28. ASSUME NEW a \in Attempt, SpawnCluster(a) PROVE ImagesStand'
  BY <1>28 DEF SpawnCluster
<1>29. ASSUME NEW a \in Attempt, RollEnds(a) PROVE ImagesStand'
  BY <1>29 DEF RollEnds
<1>30. ASSUME NEW a \in Attempt, NEW n \in Node, SpawnNode(a, n) PROVE ImagesStand'
  BY <1>30 DEF SpawnNode
<1>31. ASSUME NEW a \in Attempt, NEW n \in Node, Declare(a, n) PROVE ImagesStand'
  BY <1>31 DEF Declare
<1>32. ASSUME NEW a \in Attempt, NEW n \in Node, NodeEnds(a, n) PROVE ImagesStand'
  BY <1>32 DEF NodeEnds
<1>33. CASE UNCHANGED vars
  BY <1>33 DEF vars
<1> HIDE DEF RollIInv, TypeOK, Attempts, RollKnown, Races, Live, Unrecorded, Lost,
             ImagesStand
<1> QED
  BY <1>1, <1>2, <1>3, <1>4, <1>5, <1>6, <1>7, <1>8, <1>9, <1>10, <1>11, <1>12,
     <1>13, <1>14, <1>15, <1>16, <1>17, <1>18, <1>19, <1>20, <1>21, <1>22, <1>23,
     <1>24, <1>25, <1>26, <1>27, <1>28, <1>29, <1>30, <1>31, <1>32, <1>33
     DEF Next

(* The invariant holds to begin with.                                      *)
LEMMA RollInit == Init => RollIInv
<1> SUFFICES ASSUME Init PROVE RollIInv
  OBVIOUS
<1>1. con \in [Console -> Session] /\ \A c \in Console : con[c] = Idle
  BY DEF Init, Idle, Session
<1>2. node \in [Attempt -> [Node -> {"none", "up", "declared"}]]
  BY DEF Init, NoNodes
<1>3. missed \in [Attempt -> SUBSET Node]
  BY DEF Init
<1>4. faults \in 0..MaxFaults
  BY RollAssumption DEF Init
<1>5. /\ image \in {"none", "linked", "taken"} /\ raced \subseteq SUBSET Attempt
      /\ whole \subseteq Attempt
  BY DEF Init
<1>6. rrec \in [Attempt -> BOOLEAN]
  BY DEF Init
<1>7. TypeOK
  BY <1>1, <1>2, <1>3, <1>4, <1>5, <1>6, RollAssumption DEF Init, TypeOK
<1>8. Attempts /\ RollKnown /\ Stopped /\ Races /\ ImagesStand
  BY DEF Init, Attempts, RollKnown, Lost, Stopped, Races, Live, Unrecorded, ImagesStand
<1>9. Consoles
  BY <1>1 DEF Consoles, Seen, Stops, Stopping, Idle
<1> QED
  BY <1>7, <1>8, <1>9 DEF RollIInv

(* ... and every step keeps it.                                            *)
LEMMA RollStep == RollIInv /\ [Next]_vars => RollIInv'
BY TypeOKStep, AttemptsStep, RollKnownStep, ConsolesStep, StoppedStep, RacesStep,
   ImagesStandStep
   DEF RollIInv

(* The inductive invariant, whoever starts and stops rolls.                *)
THEOREM RollIInvariant == Spec => []RollIInv
BY RollInit, RollStep, PTL DEF Spec

------------------------------------------------------------------------------
(* The results.                                                            *)

(* Of a roll that Stop-XmipTest found recorded and with its cluster, and   *)
(* reported stopped, nothing is left and nothing comes back but a node not *)
(* yet declared at the sweep, whoever starts and stops meanwhile.          *)
THEOREM StoppedTreeStays == Spec => []StoppedTree
<1>1. RollIInv => StoppedTree
  <2> SUFFICES ASSUME RollIInv, NEW a \in whole
               PROVE  /\ roll[a] = "gone" /\ clus[a] # "up" /\ ~rrec[a]
                      /\ \A n \in Node : node[a][n] # "none" => n \in missed[a]
    BY DEF StoppedTree
  <2> QED
    BY DEF RollIInv, Stopped, Swept
<1> QED
  BY <1>1, RollIInvariant, PTL

(* Every live roll is found by its record or by the build about to write   *)
(* it, until a fault.                                                      *)
THEOREM LiveRollIsKnown == Spec => []RollKnown
<1>1. RollIInv => RollKnown
  BY DEF RollIInv
<1> QED
  BY <1>1, RollIInvariant, PTL

(* Two rolls of one cluster run at once only where one start asked, after  *)
(* its build, between the other's asking and its record, or where one of   *)
(* them has no record and never will: with any number of consoles starting *)
(* rolls, and through any faults.                                          *)
THEOREM OneRollRuns == Spec => []OneRollPerCluster
<1>1. RollIInv => OneRollPerCluster
  BY DEF RollIInv, Races, Live, OneRollPerCluster
<1> QED
  BY <1>1, RollIInvariant, PTL

(* The invariant of the run: a roll only under its own build, every live   *)
(* roll known, and the images of a roll about to begin standing unless a   *)
(* stop took them or its start raced another.                              *)
THEOREM RollInvariant == Spec => []RollInv
<1>1. RollIInv => RollInv
  BY DEF RollIInv, Attempts, RollInv
<1> QED
  BY <1>1, RollIInvariant, PTL

==============================================================================
