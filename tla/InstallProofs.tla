---------------------------- MODULE InstallProofs ----------------------------
(***************************************************************************)
(* Proofs about Install, for every platform, any accounts and any number   *)
(* of calls, kills, restarts and files put there.  The argument is what    *)
(* holds at each step of the two scripts: InstallIInv says it, and every   *)
(* step of the program and every fault keeps it.                           *)
(***************************************************************************)
EXTENDS Install, TLAPS

(* The steps a call may be at, by what it is and where it runs.            *)
LayingOut == {"look", "lookCluster", "starter", "writeCluster", "slice", "writeNode",
              "layout", "define"}
WindowsIn == {"create", "settings", "give", "start"}
LinuxIn == {"give", "unit", "reload", "enable", "restart"}
MacIn == {"give", "runPlist", "runOut", "runIn", "plist", "out", "in"}
WindowsOut == {"read", "open", "stop", "drained", "delete"}
LinuxOut == {"read", "exists", "disable", "remove", "reload"}
MacOut == {"read", "exists", "bootout", "remove", "runOut", "runRemove"}
Registering == WindowsIn \cup LinuxIn \cup MacIn

AtStep ==
    pc # "idle" =>
        IF mode = "install"
        THEN \/ pc \in LayingOut
             \/ platform = "windows" /\ pc \in WindowsIn
             \/ platform = "linux" /\ pc \in LinuxIn
             \/ platform = "macos" /\ pc \in MacIn
        ELSE \/ platform = "windows" /\ pc \in WindowsOut
             \/ platform = "linux" /\ pc \in LinuxOut
             \/ platform = "macos" /\ pc \in MacOut

(* The types, with the step by its name.                                   *)
Types ==
    /\ platform \in Platform
    /\ cluster \in {"none", "torn", "starter", "operator"}
    /\ node \in {"none", "torn", "sliced", "operator"}
    /\ layout \in BOOLEAN /\ audit \in BOOLEAN
    /\ identity \in Account \cup {"none", "torn"}
    /\ settled \in BOOLEAN /\ enabled \in BOOLEAN
    /\ loaded \in Account \cup {"none", "torn"}
    /\ running \in Account \cup {"no", "draining"}
    /\ given \subseteq Account /\ tried \subseteq Account
    /\ runDaemon \in [there : {"no", "torn", "whole"}, loaded : BOOLEAN]
    /\ mode \in {"install", "uninstall"} /\ account \in Account
    /\ outcome \in {"none", "ok", "nothing", "refused", "killed"}
    /\ failed \in BOOLEAN /\ late \subseteq {"cluster", "node"}
    /\ calls \in 0..MaxCalls /\ faults \in 0..MaxFaults
    /\ AtStep

(* The files.  What a call is about to write over was not there when it    *)
(* looked, or was put there since; and nothing is registered until the     *)
(* node is whole and read.                                                 *)
Files ==
    /\ pc \in {"lookCluster", "starter", "writeCluster", "slice"} =>
          node = "none" \/ "node" \in late
    /\ pc \in {"lookCluster", "starter", "writeCluster", "slice", "writeNode"} =>
          identity = "none"
    /\ pc = "starter" => cluster = "none" \/ "cluster" \in late
    /\ pc = "writeCluster" => cluster = "torn"
    /\ pc = "writeNode" => node = "torn"
    /\ pc \in {"layout", "define"} => node # "none"
    /\ pc = "define" => layout
    /\ mode = "install" /\ pc \in Registering =>
          node \in {"sliced", "operator"} /\ layout /\ audit
    /\ RegisteredIsLaidOut

(* An account of its own has the folders it was given, or another account  *)
(* was given them since an install last started the service.               *)
Covered(a) == a \in Account \ {"default"} => a \in given \/ tried \ {a} # {}

(* The manager.  What is not registered neither runs nor starts with the   *)
(* machine; only Windows lets a service drain on its own, and there it     *)
(* runs as it is registered; and elsewhere what is registered and what     *)
(* runs are covered.                                                       *)
Manager ==
    /\ identity = "none" => running = "no" /\ ~enabled
    /\ platform = "windows" => /\ identity # "torn" /\ loaded = identity
                               /\ running \in Account => running = identity
    /\ platform # "windows" => /\ running # "draining"
                               /\ Covered(identity) /\ Covered(running)

(* What an install has done by the step it is at, and once it said OK.     *)
Installing ==
    mode = "install" =>
        /\ platform = "windows" /\ pc \in {"settings", "give", "start"} =>
              identity # "none" /\ enabled
        /\ platform = "windows" /\ pc \in {"give", "start"} => settled
        /\ pc \in (LinuxIn \cup MacIn) \ {"give"} => account \in given \cup {"default"}
        /\ pc \in {"reload", "enable", "restart", "out", "in"} =>
              identity = account /\ settled
        /\ pc \in {"enable", "restart"} => loaded = account
        /\ pc \in {"restart", "out", "in"} => enabled
        /\ InstalledRuns

(* What an uninstall has done by the step it is at, and once it ended.     *)
Uninstalling ==
    mode = "uninstall" =>
        /\ pc = "drained" => running \notin Account
        /\ pc \in {"delete", "remove"} => running = "no"
        /\ pc \in {"reload", "runOut", "runRemove"} => identity = "none"
        /\ UninstalledIsGone

(* The inductive invariant.                                                *)
InstallIInv == Types /\ Files /\ Manager /\ Installing /\ Uninstalling

------------------------------------------------------------------------------
(* The step after the i-th of a script that names each of its steps once.  *)
LEMMA AfterIth ==
    ASSUME NEW n \in Nat \ {0}, Len(Script) = n, DOMAIN Script = 1..n,
           \A i, j \in 1..n : Script[i] = Script[j] => i = j,
           NEW i \in 1..n
    PROVE  After(Script[i]) = IF i = n THEN "idle" ELSE Script[i + 1]
<1>1. CASE i = n
  BY <1>1 DEF After
<1>2. CASE i # n
  <2> DEFINE k == CHOOSE j \in DOMAIN Script : Script[j] = Script[i]
  <2>1. k \in DOMAIN Script /\ Script[k] = Script[i]
    OBVIOUS
  <2>2. k = i
    BY <2>1
  <2>3. Script[i] # Script[n]
    BY <1>2
  <2>4. After(Script[i]) = Script[1 + k]
    BY <2>3 DEF After
  <2>5. 1 + i = i + 1
    OBVIOUS
  <2> QED
    BY <1>2, <2>2, <2>4, <2>5
<1> QED
  BY <1>1, <1>2

(* The steps of install on windows, each with the next.                    *)
LEMMA WindowsInAfter ==
    ASSUME platform = "windows", mode = "install"
    PROVE  /\ After("look") = "lookCluster"
           /\ After("lookCluster") = "starter"
           /\ After("starter") = "writeCluster"
           /\ After("writeCluster") = "slice"
           /\ After("slice") = "writeNode"
           /\ After("writeNode") = "layout"
           /\ After("layout") = "define"
           /\ After("define") = "create"
           /\ After("create") = "settings"
           /\ After("settings") = "give"
           /\ After("give") = "start"
           /\ After("start") = "idle"
<1>1. Len(Script) = 12 /\ DOMAIN Script = 1..12
  BY DEF Script, Register
<1>2. /\ Script[1] = "look"
      /\ Script[2] = "lookCluster"
      /\ Script[3] = "starter"
      /\ Script[4] = "writeCluster"
      /\ Script[5] = "slice"
      /\ Script[6] = "writeNode"
      /\ Script[7] = "layout"
      /\ Script[8] = "define"
      /\ Script[9] = "create"
      /\ Script[10] = "settings"
      /\ Script[11] = "give"
      /\ Script[12] = "start"
  BY DEF Script, Register
<1>3. \A i, j \in 1..12 : Script[i] = Script[j] => i = j
  BY <1>2
<1>4. \A i \in 1..12 : After(Script[i]) = IF i = 12 THEN "idle" ELSE Script[i + 1]
  BY <1>1, <1>3, AfterIth
<1>5. /\ After(Script[1]) = Script[2]
      /\ After(Script[2]) = Script[3]
      /\ After(Script[3]) = Script[4]
      /\ After(Script[4]) = Script[5]
      /\ After(Script[5]) = Script[6]
      /\ After(Script[6]) = Script[7]
      /\ After(Script[7]) = Script[8]
      /\ After(Script[8]) = Script[9]
      /\ After(Script[9]) = Script[10]
      /\ After(Script[10]) = Script[11]
      /\ After(Script[11]) = Script[12]
      /\ After(Script[12]) = "idle"
  BY <1>4
<1> QED
  BY <1>2, <1>5

(* The steps of install on linux, each with the next.                      *)
LEMMA LinuxInAfter ==
    ASSUME platform = "linux", mode = "install"
    PROVE  /\ After("look") = "lookCluster"
           /\ After("lookCluster") = "starter"
           /\ After("starter") = "writeCluster"
           /\ After("writeCluster") = "slice"
           /\ After("slice") = "writeNode"
           /\ After("writeNode") = "layout"
           /\ After("layout") = "define"
           /\ After("define") = "give"
           /\ After("give") = "unit"
           /\ After("unit") = "reload"
           /\ After("reload") = "enable"
           /\ After("enable") = "restart"
           /\ After("restart") = "idle"
<1>1. Len(Script) = 13 /\ DOMAIN Script = 1..13
  BY DEF Script, Register
<1>2. /\ Script[1] = "look"
      /\ Script[2] = "lookCluster"
      /\ Script[3] = "starter"
      /\ Script[4] = "writeCluster"
      /\ Script[5] = "slice"
      /\ Script[6] = "writeNode"
      /\ Script[7] = "layout"
      /\ Script[8] = "define"
      /\ Script[9] = "give"
      /\ Script[10] = "unit"
      /\ Script[11] = "reload"
      /\ Script[12] = "enable"
      /\ Script[13] = "restart"
  BY DEF Script, Register
<1>3. \A i, j \in 1..13 : Script[i] = Script[j] => i = j
  BY <1>2
<1>4. \A i \in 1..13 : After(Script[i]) = IF i = 13 THEN "idle" ELSE Script[i + 1]
  BY <1>1, <1>3, AfterIth
<1>5. /\ After(Script[1]) = Script[2]
      /\ After(Script[2]) = Script[3]
      /\ After(Script[3]) = Script[4]
      /\ After(Script[4]) = Script[5]
      /\ After(Script[5]) = Script[6]
      /\ After(Script[6]) = Script[7]
      /\ After(Script[7]) = Script[8]
      /\ After(Script[8]) = Script[9]
      /\ After(Script[9]) = Script[10]
      /\ After(Script[10]) = Script[11]
      /\ After(Script[11]) = Script[12]
      /\ After(Script[12]) = Script[13]
      /\ After(Script[13]) = "idle"
  BY <1>4
<1> QED
  BY <1>2, <1>5

(* The steps of install on macos, each with the next.                      *)
LEMMA MacInAfter ==
    ASSUME platform = "macos", mode = "install"
    PROVE  /\ After("look") = "lookCluster"
           /\ After("lookCluster") = "starter"
           /\ After("starter") = "writeCluster"
           /\ After("writeCluster") = "slice"
           /\ After("slice") = "writeNode"
           /\ After("writeNode") = "layout"
           /\ After("layout") = "define"
           /\ After("define") = "give"
           /\ After("give") = "runPlist"
           /\ After("runPlist") = "runOut"
           /\ After("runOut") = "runIn"
           /\ After("runIn") = "plist"
           /\ After("plist") = "out"
           /\ After("out") = "in"
           /\ After("in") = "idle"
<1>1. Len(Script) = 15 /\ DOMAIN Script = 1..15
  BY DEF Script, Register
<1>2. /\ Script[1] = "look"
      /\ Script[2] = "lookCluster"
      /\ Script[3] = "starter"
      /\ Script[4] = "writeCluster"
      /\ Script[5] = "slice"
      /\ Script[6] = "writeNode"
      /\ Script[7] = "layout"
      /\ Script[8] = "define"
      /\ Script[9] = "give"
      /\ Script[10] = "runPlist"
      /\ Script[11] = "runOut"
      /\ Script[12] = "runIn"
      /\ Script[13] = "plist"
      /\ Script[14] = "out"
      /\ Script[15] = "in"
  BY DEF Script, Register
<1>3. \A i, j \in 1..15 : Script[i] = Script[j] => i = j
  BY <1>2
<1>4. \A i \in 1..15 : After(Script[i]) = IF i = 15 THEN "idle" ELSE Script[i + 1]
  BY <1>1, <1>3, AfterIth
<1>5. /\ After(Script[1]) = Script[2]
      /\ After(Script[2]) = Script[3]
      /\ After(Script[3]) = Script[4]
      /\ After(Script[4]) = Script[5]
      /\ After(Script[5]) = Script[6]
      /\ After(Script[6]) = Script[7]
      /\ After(Script[7]) = Script[8]
      /\ After(Script[8]) = Script[9]
      /\ After(Script[9]) = Script[10]
      /\ After(Script[10]) = Script[11]
      /\ After(Script[11]) = Script[12]
      /\ After(Script[12]) = Script[13]
      /\ After(Script[13]) = Script[14]
      /\ After(Script[14]) = Script[15]
      /\ After(Script[15]) = "idle"
  BY <1>4
<1> QED
  BY <1>2, <1>5

(* The steps of uninstall on windows, each with the next.                  *)
LEMMA WindowsOutAfter ==
    ASSUME platform = "windows", mode = "uninstall"
    PROVE  /\ After("read") = "open"
           /\ After("open") = "stop"
           /\ After("stop") = "drained"
           /\ After("drained") = "delete"
           /\ After("delete") = "idle"
<1>1. Len(Script) = 5 /\ DOMAIN Script = 1..5
  BY DEF Script, Deregister
<1>2. /\ Script[1] = "read"
      /\ Script[2] = "open"
      /\ Script[3] = "stop"
      /\ Script[4] = "drained"
      /\ Script[5] = "delete"
  BY DEF Script, Deregister
<1>3. \A i, j \in 1..5 : Script[i] = Script[j] => i = j
  BY <1>2
<1>4. \A i \in 1..5 : After(Script[i]) = IF i = 5 THEN "idle" ELSE Script[i + 1]
  BY <1>1, <1>3, AfterIth
<1>5. /\ After(Script[1]) = Script[2]
      /\ After(Script[2]) = Script[3]
      /\ After(Script[3]) = Script[4]
      /\ After(Script[4]) = Script[5]
      /\ After(Script[5]) = "idle"
  BY <1>4
<1> QED
  BY <1>2, <1>5

(* The steps of uninstall on linux, each with the next.                    *)
LEMMA LinuxOutAfter ==
    ASSUME platform = "linux", mode = "uninstall"
    PROVE  /\ After("read") = "exists"
           /\ After("exists") = "disable"
           /\ After("disable") = "remove"
           /\ After("remove") = "reload"
           /\ After("reload") = "idle"
<1>1. Len(Script) = 5 /\ DOMAIN Script = 1..5
  BY DEF Script, Deregister
<1>2. /\ Script[1] = "read"
      /\ Script[2] = "exists"
      /\ Script[3] = "disable"
      /\ Script[4] = "remove"
      /\ Script[5] = "reload"
  BY DEF Script, Deregister
<1>3. \A i, j \in 1..5 : Script[i] = Script[j] => i = j
  BY <1>2
<1>4. \A i \in 1..5 : After(Script[i]) = IF i = 5 THEN "idle" ELSE Script[i + 1]
  BY <1>1, <1>3, AfterIth
<1>5. /\ After(Script[1]) = Script[2]
      /\ After(Script[2]) = Script[3]
      /\ After(Script[3]) = Script[4]
      /\ After(Script[4]) = Script[5]
      /\ After(Script[5]) = "idle"
  BY <1>4
<1> QED
  BY <1>2, <1>5

(* The steps of uninstall on macos, each with the next.                    *)
LEMMA MacOutAfter ==
    ASSUME platform = "macos", mode = "uninstall"
    PROVE  /\ After("read") = "exists"
           /\ After("exists") = "bootout"
           /\ After("bootout") = "remove"
           /\ After("remove") = "runOut"
           /\ After("runOut") = "runRemove"
           /\ After("runRemove") = "idle"
<1>1. Len(Script) = 6 /\ DOMAIN Script = 1..6
  BY DEF Script, Deregister
<1>2. /\ Script[1] = "read"
      /\ Script[2] = "exists"
      /\ Script[3] = "bootout"
      /\ Script[4] = "remove"
      /\ Script[5] = "runOut"
      /\ Script[6] = "runRemove"
  BY DEF Script, Deregister
<1>3. \A i, j \in 1..6 : Script[i] = Script[j] => i = j
  BY <1>2
<1>4. \A i \in 1..6 : After(Script[i]) = IF i = 6 THEN "idle" ELSE Script[i + 1]
  BY <1>1, <1>3, AfterIth
<1>5. /\ After(Script[1]) = Script[2]
      /\ After(Script[2]) = Script[3]
      /\ After(Script[3]) = Script[4]
      /\ After(Script[4]) = Script[5]
      /\ After(Script[5]) = Script[6]
      /\ After(Script[6]) = "idle"
  BY <1>4
<1> QED
  BY <1>2, <1>5

(* A step the program may be at is a step of its script.                   *)
LEMMA AtStepOfScript ==
    ASSUME AtStep, pc # "idle", platform \in Platform, mode \in {"install", "uninstall"}
    PROVE  \E i \in DOMAIN Script : Script[i] = pc
<1> USE DEF LayingOut, WindowsIn, LinuxIn, MacIn, WindowsOut, LinuxOut, MacOut
<1>1. CASE platform = "windows" /\ mode = "install"
  <2>1. /\ Script[1] = "look"
        /\ Script[2] = "lookCluster"
        /\ Script[3] = "starter"
        /\ Script[4] = "writeCluster"
        /\ Script[5] = "slice"
        /\ Script[6] = "writeNode"
        /\ Script[7] = "layout"
        /\ Script[8] = "define"
        /\ Script[9] = "create"
        /\ Script[10] = "settings"
        /\ Script[11] = "give"
        /\ Script[12] = "start"
    BY <1>1 DEF Script, Register
  <2>2. DOMAIN Script = 1..12
    BY <1>1 DEF Script, Register
  <2>3. pc \in {"look", "lookCluster", "starter", "writeCluster", "slice",
                 "writeNode", "layout", "define", "create",
                 "settings", "give", "start"}
    BY <1>1 DEF AtStep
  <2> QED
    BY <2>1, <2>2, <2>3
<1>2. CASE platform = "linux" /\ mode = "install"
  <2>1. /\ Script[1] = "look"
        /\ Script[2] = "lookCluster"
        /\ Script[3] = "starter"
        /\ Script[4] = "writeCluster"
        /\ Script[5] = "slice"
        /\ Script[6] = "writeNode"
        /\ Script[7] = "layout"
        /\ Script[8] = "define"
        /\ Script[9] = "give"
        /\ Script[10] = "unit"
        /\ Script[11] = "reload"
        /\ Script[12] = "enable"
        /\ Script[13] = "restart"
    BY <1>2 DEF Script, Register
  <2>2. DOMAIN Script = 1..13
    BY <1>2 DEF Script, Register
  <2>3. pc \in {"look", "lookCluster", "starter", "writeCluster", "slice",
                 "writeNode", "layout", "define", "give", "unit",
                 "reload", "enable", "restart"}
    BY <1>2 DEF AtStep
  <2> QED
    BY <2>1, <2>2, <2>3
<1>3. CASE platform = "macos" /\ mode = "install"
  <2>1. /\ Script[1] = "look"
        /\ Script[2] = "lookCluster"
        /\ Script[3] = "starter"
        /\ Script[4] = "writeCluster"
        /\ Script[5] = "slice"
        /\ Script[6] = "writeNode"
        /\ Script[7] = "layout"
        /\ Script[8] = "define"
        /\ Script[9] = "give"
        /\ Script[10] = "runPlist"
        /\ Script[11] = "runOut"
        /\ Script[12] = "runIn"
        /\ Script[13] = "plist"
        /\ Script[14] = "out"
        /\ Script[15] = "in"
    BY <1>3 DEF Script, Register
  <2>2. DOMAIN Script = 1..15
    BY <1>3 DEF Script, Register
  <2>3. pc \in {"look", "lookCluster", "starter", "writeCluster", "slice",
                 "writeNode", "layout", "define", "give", "runPlist",
                 "runOut", "runIn", "plist", "out", "in"}
    BY <1>3 DEF AtStep
  <2> QED
    BY <2>1, <2>2, <2>3
<1>4. CASE platform = "windows" /\ mode = "uninstall"
  <2>1. /\ Script[1] = "read"
        /\ Script[2] = "open"
        /\ Script[3] = "stop"
        /\ Script[4] = "drained"
        /\ Script[5] = "delete"
    BY <1>4 DEF Script, Deregister
  <2>2. DOMAIN Script = 1..5
    BY <1>4 DEF Script, Deregister
  <2>3. pc \in {"read", "open", "stop", "drained", "delete"}
    BY <1>4 DEF AtStep
  <2> QED
    BY <2>1, <2>2, <2>3
<1>5. CASE platform = "linux" /\ mode = "uninstall"
  <2>1. /\ Script[1] = "read"
        /\ Script[2] = "exists"
        /\ Script[3] = "disable"
        /\ Script[4] = "remove"
        /\ Script[5] = "reload"
    BY <1>5 DEF Script, Deregister
  <2>2. DOMAIN Script = 1..5
    BY <1>5 DEF Script, Deregister
  <2>3. pc \in {"read", "exists", "disable", "remove", "reload"}
    BY <1>5 DEF AtStep
  <2> QED
    BY <2>1, <2>2, <2>3
<1>6. CASE platform = "macos" /\ mode = "uninstall"
  <2>1. /\ Script[1] = "read"
        /\ Script[2] = "exists"
        /\ Script[3] = "bootout"
        /\ Script[4] = "remove"
        /\ Script[5] = "runOut"
        /\ Script[6] = "runRemove"
    BY <1>6 DEF Script, Deregister
  <2>2. DOMAIN Script = 1..6
    BY <1>6 DEF Script, Deregister
  <2>3. pc \in {"read", "exists", "bootout", "remove", "runOut", "runRemove"}
    BY <1>6 DEF AtStep
  <2> QED
    BY <2>1, <2>2, <2>3
<1> QED
  BY <1>1, <1>2, <1>3, <1>4, <1>5, <1>6, InstallAssumption

(* The step after each step, wherever it is taken.                         *)
LEMMA StepAfter ==
    ASSUME Types, pc # "idle"
    PROVE  /\ pc = "starter" => After(pc) = "writeCluster"
           /\ pc = "writeCluster" => After(pc) = "slice"
           /\ pc = "slice" => After(pc) = "writeNode"
           /\ pc = "writeNode" => After(pc) = "layout"
           /\ pc = "layout" => After(pc) = "define"
           /\ pc = "define" => After(pc) = IF platform = "windows" THEN "create" ELSE "give"
           /\ pc = "create" => After(pc) = "settings"
           /\ pc = "settings" => After(pc) = "give"
           /\ pc = "give" => After(pc) = CASE platform = "windows" -> "start" [] platform = "linux" -> "unit"
                                 [] OTHER -> "runPlist"
           /\ pc = "start" => After(pc) = "idle"
           /\ pc = "unit" => After(pc) = "reload"
           /\ pc = "reload" => After(pc) = IF mode = "install" THEN "enable" ELSE "idle"
           /\ pc = "enable" => After(pc) = "restart"
           /\ pc = "restart" => After(pc) = "idle"
           /\ pc = "runPlist" => After(pc) = "runOut"
           /\ pc = "runOut" => After(pc) = IF mode = "install" THEN "runIn" ELSE "runRemove"
           /\ pc = "runIn" => After(pc) = "plist"
           /\ pc = "plist" => After(pc) = "out"
           /\ pc = "out" => After(pc) = "in"
           /\ pc = "in" => After(pc) = "idle"
           /\ pc = "read" => After(pc) = IF platform = "windows" THEN "open" ELSE "exists"
           /\ pc = "open" => After(pc) = "stop"
           /\ pc = "stop" => After(pc) = "drained"
           /\ pc = "drained" => After(pc) = "delete"
           /\ pc = "delete" => After(pc) = "idle"
           /\ pc = "exists" => After(pc) = IF platform = "linux" THEN "disable" ELSE "bootout"
           /\ pc = "disable" => After(pc) = "remove"
           /\ pc = "bootout" => After(pc) = "remove"
           /\ pc = "remove" => After(pc) = IF platform = "linux" THEN "reload" ELSE "runOut"
           /\ pc = "runRemove" => After(pc) = "idle"
<1> USE DEF Types, AtStep, LayingOut, WindowsIn, LinuxIn, MacIn, WindowsOut, LinuxOut, MacOut
<1>1. platform \in {"windows", "linux", "macos"}
  BY InstallAssumption
<1>2. CASE platform = "windows" /\ mode = "install"
  BY <1>2, WindowsInAfter
<1>3. CASE platform = "linux" /\ mode = "install"
  BY <1>3, LinuxInAfter
<1>4. CASE platform = "macos" /\ mode = "install"
  BY <1>4, MacInAfter
<1>5. CASE platform = "windows" /\ mode = "uninstall"
  BY <1>5, WindowsOutAfter
<1>6. CASE platform = "linux" /\ mode = "uninstall"
  BY <1>6, LinuxOutAfter
<1>7. CASE platform = "macos" /\ mode = "uninstall"
  BY <1>7, MacOutAfter
<1> QED
  BY <1>1, <1>2, <1>3, <1>4, <1>5, <1>6, <1>7

(* The program is at a step of its script after each step.                 *)
LEMMA StaysInScript ==
    ASSUME Types, pc # "idle", UNCHANGED <<platform, mode>>,
           \/ pc' = After(pc)
           \/ pc' = "idle"
           \/ pc = "look" /\ pc' \in {"layout", "lookCluster"}
           \/ pc = "lookCluster" /\ pc' \in {"slice", "starter"}
           \/ pc = "open" /\ pc' = "delete"
           \/ pc' = pc
    PROVE  AtStep'
<1> USE InstallAssumption DEF Types, AtStep, LayingOut, WindowsIn, LinuxIn, MacIn, WindowsOut, LinuxOut, MacOut, Registering
<1>1. CASE pc' = "idle"
  BY <1>1
<1>2. CASE pc = "look" /\ pc' \in {"layout", "lookCluster"}
  BY <1>2
<1>3. CASE pc = "lookCluster" /\ pc' \in {"slice", "starter"}
  BY <1>3
<1>4. CASE pc = "open" /\ pc' = "delete"
  BY <1>4
<1>5. CASE pc' = After(pc)
  <2>1. CASE platform = "windows" /\ mode = "install"
    BY <1>5, <2>1, WindowsInAfter
  <2>2. CASE platform = "linux" /\ mode = "install"
    BY <1>5, <2>2, LinuxInAfter
  <2>3. CASE platform = "macos" /\ mode = "install"
    BY <1>5, <2>3, MacInAfter
  <2>4. CASE platform = "windows" /\ mode = "uninstall"
    BY <1>5, <2>4, WindowsOutAfter
  <2>5. CASE platform = "linux" /\ mode = "uninstall"
    BY <1>5, <2>5, LinuxOutAfter
  <2>6. CASE platform = "macos" /\ mode = "uninstall"
    BY <1>5, <2>6, MacOutAfter
  <2> QED
    BY <2>1, <2>2, <2>3, <2>4, <2>5, <2>6
<1>6. CASE pc' = pc
  BY <1>6
<1> QED
  BY <1>1, <1>2, <1>3, <1>4, <1>5, <1>6

(* What is not there when the call looks may be written.                   *)
LEMMA LookKeeps == InstallIInv /\ Look => InstallIInv'
<1> SUFFICES ASSUME InstallIInv, Look PROVE InstallIInv'
  OBVIOUS
<1> USE InstallAssumption
    DEF InstallIInv, Goes, GoesTo, Ends, Refused, Fails, fileVars, owners, managerVars, callVars
<1>1. Types'
  <2>1. AtStep'
    BY StaysInScript DEF Look
  <2>2. outcome' \in {"none", "ok", "nothing", "refused", "killed"} /\ failed' \in BOOLEAN
    BY DEF Look, Types
  <2>3. UNCHANGED <<platform, cluster, node, layout, audit, identity, settled, enabled,
                    loaded, running, given, tried, runDaemon, mode, account, late, calls,
                    faults>>
    BY DEF Look
  <2> QED
    BY <2>1, <2>2, <2>3 DEF Types
<1> USE StepAfter
    DEF LayingOut, WindowsIn, LinuxIn, MacIn, WindowsOut, LinuxOut, MacOut, Registering
<1>2. Files'
  BY DEF Look, Types, AtStep, Files, RegisteredIsLaidOut
<1>3. Manager'
  BY DEF Look, Types, AtStep, Files, Manager, Covered, Installing, Uninstalling
<1>4. Installing'
  BY DEF Look, Types, AtStep, Manager, Installing, InstalledRuns
<1>5. Uninstalling'
  BY DEF Look, Types, AtStep, Manager, Uninstalling, UninstalledIsGone
<1> QED
  BY <1>1, <1>2, <1>3, <1>4, <1>5

(* A cluster's file that is not there may be written.                      *)
LEMMA LookClusterKeeps == InstallIInv /\ LookCluster => InstallIInv'
<1> SUFFICES ASSUME InstallIInv, LookCluster PROVE InstallIInv'
  OBVIOUS
<1> USE InstallAssumption
    DEF InstallIInv, Goes, GoesTo, Ends, Refused, Fails, fileVars, owners, managerVars, callVars
<1>1. Types'
  <2>1. AtStep'
    BY StaysInScript DEF LookCluster
  <2>2. outcome' \in {"none", "ok", "nothing", "refused", "killed"} /\ failed' \in BOOLEAN
    BY DEF LookCluster, Types
  <2>3. UNCHANGED <<platform, cluster, node, layout, audit, identity, settled, enabled,
                    loaded, running, given, tried, runDaemon, mode, account, late, calls,
                    faults>>
    BY DEF LookCluster
  <2> QED
    BY <2>1, <2>2, <2>3 DEF Types
<1> USE StepAfter
    DEF LayingOut, WindowsIn, LinuxIn, MacIn, WindowsOut, LinuxOut, MacOut, Registering
<1>2. Files'
  BY DEF LookCluster, Types, AtStep, Files, RegisteredIsLaidOut
<1>3. Manager'
  BY DEF LookCluster, Types, AtStep, Files, Manager, Covered, Installing, Uninstalling
<1>4. Installing'
  BY DEF LookCluster, Types, AtStep, Manager, Installing, InstalledRuns
<1>5. Uninstalling'
  BY DEF LookCluster, Types, AtStep, Manager, Uninstalling, UninstalledIsGone
<1> QED
  BY <1>1, <1>2, <1>3, <1>4, <1>5

(* The starter is torn until it is written.                                *)
LEMMA StarterKeeps == InstallIInv /\ Starter => InstallIInv'
<1> SUFFICES ASSUME InstallIInv, Starter PROVE InstallIInv'
  OBVIOUS
<1> USE InstallAssumption
    DEF InstallIInv, Goes, GoesTo, Ends, Refused, Fails, fileVars, owners, managerVars, callVars
<1>1. Types'
  <2>1. AtStep'
    BY StaysInScript DEF Starter
  <2>2. outcome' \in {"none", "ok", "nothing", "refused", "killed"} /\ failed' \in BOOLEAN
    BY DEF Starter, Types
  <2>3. cluster' \in {"none", "torn", "starter", "operator"}
    BY DEF Starter, Types
  <2>4. UNCHANGED <<platform, node, layout, audit, identity, settled, enabled, loaded,
                    running, given, tried, runDaemon, mode, account, late, calls, faults>>
    BY DEF Starter
  <2> QED
    BY <2>1, <2>2, <2>3, <2>4 DEF Types
<1> USE StepAfter
    DEF LayingOut, WindowsIn, LinuxIn, MacIn, WindowsOut, LinuxOut, MacOut, Registering
<1>2. Files'
  BY DEF Starter, Types, AtStep, Files, RegisteredIsLaidOut
<1>3. Manager'
  BY DEF Starter, Types, AtStep, Files, Manager, Covered, Installing, Uninstalling
<1>4. Installing'
  BY DEF Starter, Types, AtStep, Manager, Installing, InstalledRuns
<1>5. Uninstalling'
  BY DEF Starter, Types, AtStep, Manager, Uninstalling, UninstalledIsGone
<1> QED
  BY <1>1, <1>2, <1>3, <1>4, <1>5

(* The starter written is whole.                                           *)
LEMMA WriteClusterKeeps == InstallIInv /\ WriteCluster => InstallIInv'
<1> SUFFICES ASSUME InstallIInv, WriteCluster PROVE InstallIInv'
  OBVIOUS
<1> USE InstallAssumption
    DEF InstallIInv, Goes, GoesTo, Ends, Refused, Fails, fileVars, owners, managerVars, callVars
<1>1. Types'
  <2>1. AtStep'
    BY StaysInScript DEF WriteCluster
  <2>2. outcome' \in {"none", "ok", "nothing", "refused", "killed"} /\ failed' \in BOOLEAN
    BY DEF WriteCluster, Types
  <2>3. cluster' \in {"none", "torn", "starter", "operator"}
    BY DEF WriteCluster, Types
  <2>4. UNCHANGED <<platform, node, layout, audit, identity, settled, enabled, loaded,
                    running, given, tried, runDaemon, mode, account, late, calls, faults>>
    BY DEF WriteCluster
  <2> QED
    BY <2>1, <2>2, <2>3, <2>4 DEF Types
<1> USE StepAfter
    DEF LayingOut, WindowsIn, LinuxIn, MacIn, WindowsOut, LinuxOut, MacOut, Registering
<1>2. Files'
  BY DEF WriteCluster, Types, AtStep, Files, RegisteredIsLaidOut
<1>3. Manager'
  BY DEF WriteCluster, Types, AtStep, Files, Manager, Covered, Installing, Uninstalling
<1>4. Installing'
  BY DEF WriteCluster, Types, AtStep, Manager, Installing, InstalledRuns
<1>5. Uninstalling'
  BY DEF WriteCluster, Types, AtStep, Manager, Uninstalling, UninstalledIsGone
<1> QED
  BY <1>1, <1>2, <1>3, <1>4, <1>5

(* The node's slice is torn until it is written; nothing is registered.    *)
LEMMA SliceKeeps == InstallIInv /\ Slice => InstallIInv'
<1> SUFFICES ASSUME InstallIInv, Slice PROVE InstallIInv'
  OBVIOUS
<1> USE InstallAssumption
    DEF InstallIInv, Goes, GoesTo, Ends, Refused, Fails, fileVars, owners, managerVars, callVars
<1>1. Types'
  <2>1. AtStep'
    BY StaysInScript DEF Slice
  <2>2. outcome' \in {"none", "ok", "nothing", "refused", "killed"} /\ failed' \in BOOLEAN
    BY DEF Slice, Types
  <2>3. node' \in {"none", "torn", "sliced", "operator"}
    BY DEF Slice, Types
  <2>4. UNCHANGED <<platform, cluster, layout, audit, identity, settled, enabled,
                    loaded, running, given, tried, runDaemon, mode, account, late, calls,
                    faults>>
    BY DEF Slice
  <2> QED
    BY <2>1, <2>2, <2>3, <2>4 DEF Types
<1> USE StepAfter
    DEF LayingOut, WindowsIn, LinuxIn, MacIn, WindowsOut, LinuxOut, MacOut, Registering
<1>2. Files'
  BY DEF Slice, Types, AtStep, Files, RegisteredIsLaidOut
<1>3. Manager'
  BY DEF Slice, Types, AtStep, Files, Manager, Covered, Installing, Uninstalling
<1>4. Installing'
  BY DEF Slice, Types, AtStep, Manager, Installing, InstalledRuns
<1>5. Uninstalling'
  BY DEF Slice, Types, AtStep, Manager, Uninstalling, UninstalledIsGone
<1> QED
  BY <1>1, <1>2, <1>3, <1>4, <1>5

(* The slice written is whole.                                             *)
LEMMA WriteNodeKeeps == InstallIInv /\ WriteNode => InstallIInv'
<1> SUFFICES ASSUME InstallIInv, WriteNode PROVE InstallIInv'
  OBVIOUS
<1> USE InstallAssumption
    DEF InstallIInv, Goes, GoesTo, Ends, Refused, Fails, fileVars, owners, managerVars, callVars
<1>1. Types'
  <2>1. AtStep'
    BY StaysInScript DEF WriteNode
  <2>2. outcome' \in {"none", "ok", "nothing", "refused", "killed"} /\ failed' \in BOOLEAN
    BY DEF WriteNode, Types
  <2>3. node' \in {"none", "torn", "sliced", "operator"}
    BY DEF WriteNode, Types
  <2>4. UNCHANGED <<platform, cluster, layout, audit, identity, settled, enabled,
                    loaded, running, given, tried, runDaemon, mode, account, late, calls,
                    faults>>
    BY DEF WriteNode
  <2> QED
    BY <2>1, <2>2, <2>3, <2>4 DEF Types
<1> USE StepAfter
    DEF LayingOut, WindowsIn, LinuxIn, MacIn, WindowsOut, LinuxOut, MacOut, Registering
<1>2. Files'
  BY DEF WriteNode, Types, AtStep, Files, RegisteredIsLaidOut
<1>3. Manager'
  BY DEF WriteNode, Types, AtStep, Files, Manager, Covered, Installing, Uninstalling
<1>4. Installing'
  BY DEF WriteNode, Types, AtStep, Manager, Installing, InstalledRuns
<1>5. Uninstalling'
  BY DEF WriteNode, Types, AtStep, Manager, Uninstalling, UninstalledIsGone
<1> QED
  BY <1>1, <1>2, <1>3, <1>4, <1>5

(* The folders are there, or may be where the step failed.                 *)
LEMMA LayoutKeeps == InstallIInv /\ Layout => InstallIInv'
<1> SUFFICES ASSUME InstallIInv, Layout PROVE InstallIInv'
  OBVIOUS
<1> USE InstallAssumption
    DEF InstallIInv, Goes, GoesTo, Ends, Refused, Fails, fileVars, owners, managerVars, callVars
<1>1. Types'
  <2>1. AtStep'
    BY StaysInScript DEF Layout
  <2>2. outcome' \in {"none", "ok", "nothing", "refused", "killed"} /\ failed' \in BOOLEAN
    BY DEF Layout, Types
  <2>3. layout' \in BOOLEAN
    BY DEF Layout, Types
  <2>4. UNCHANGED <<platform, cluster, node, audit, identity, settled, enabled, loaded,
                    running, given, tried, runDaemon, mode, account, late, calls, faults>>
    BY DEF Layout
  <2> QED
    BY <2>1, <2>2, <2>3, <2>4 DEF Types
<1> USE StepAfter
    DEF LayingOut, WindowsIn, LinuxIn, MacIn, WindowsOut, LinuxOut, MacOut, Registering
<1>2. Files'
  BY DEF Layout, Types, AtStep, Files, RegisteredIsLaidOut
<1>3. Manager'
  BY DEF Layout, Types, AtStep, Files, Manager, Covered, Installing, Uninstalling
<1>4. Installing'
  BY DEF Layout, Types, AtStep, Manager, Installing, InstalledRuns
<1>5. Uninstalling'
  BY DEF Layout, Types, AtStep, Manager, Uninstalling, UninstalledIsGone
<1> QED
  BY <1>1, <1>2, <1>3, <1>4, <1>5

(* The definition is made of a whole configuration.                        *)
LEMMA DefineKeeps == InstallIInv /\ Define => InstallIInv'
<1> SUFFICES ASSUME InstallIInv, Define PROVE InstallIInv'
  OBVIOUS
<1> USE InstallAssumption
    DEF InstallIInv, Goes, GoesTo, Ends, Refused, Fails, fileVars, owners, managerVars, callVars
<1>1. Types'
  <2>1. AtStep'
    BY StaysInScript DEF Define
  <2>2. outcome' \in {"none", "ok", "nothing", "refused", "killed"} /\ failed' \in BOOLEAN
    BY DEF Define, Types
  <2>3. audit' \in BOOLEAN
    BY DEF Define, Types
  <2>4. UNCHANGED <<platform, cluster, node, layout, identity, settled, enabled, loaded,
                    running, given, tried, runDaemon, mode, account, late, calls, faults>>
    BY DEF Define
  <2> QED
    BY <2>1, <2>2, <2>3, <2>4 DEF Types
<1> USE StepAfter
    DEF LayingOut, WindowsIn, LinuxIn, MacIn, WindowsOut, LinuxOut, MacOut, Registering
<1>2. Files'
  BY DEF Define, Types, AtStep, Files, RegisteredIsLaidOut
<1>3. Manager'
  BY DEF Define, Types, AtStep, Files, Manager, Covered, Installing, Uninstalling
<1>4. Installing'
  BY DEF Define, Types, AtStep, Manager, Installing, InstalledRuns
<1>5. Uninstalling'
  BY DEF Define, Types, AtStep, Manager, Uninstalling, UninstalledIsGone
<1> QED
  BY <1>1, <1>2, <1>3, <1>4, <1>5

(* The account is given before anything runs as it, but on Windows.        *)
LEMMA GiveKeeps == InstallIInv /\ Give => InstallIInv'
<1> SUFFICES ASSUME InstallIInv, Give PROVE InstallIInv'
  OBVIOUS
<1> USE InstallAssumption
    DEF InstallIInv, Goes, GoesTo, Ends, Refused, Fails, fileVars, owners, managerVars, callVars
<1>1. Types'
  <2>1. AtStep'
    BY StaysInScript DEF Give
  <2>2. outcome' \in {"none", "ok", "nothing", "refused", "killed"} /\ failed' \in BOOLEAN
    BY DEF Give, Types
  <2>3. given' \subseteq Account /\ tried' \subseteq Account
    BY DEF Give, StillGiven, Types
  <2>4. UNCHANGED <<platform, cluster, node, layout, audit, identity, settled, enabled,
                    loaded, running, runDaemon, mode, account, late, calls, faults>>
    BY DEF Give
  <2> QED
    BY <2>1, <2>2, <2>3, <2>4 DEF Types
<1> USE StepAfter
    DEF LayingOut, WindowsIn, LinuxIn, MacIn, WindowsOut, LinuxOut, MacOut, Registering
<1>2. Files'
  BY DEF Give, StillGiven, Types, AtStep, Files, RegisteredIsLaidOut
<1>3. Manager'
  BY DEF Give, StillGiven, Types, AtStep, Files, Manager, Covered, Installing, Uninstalling
<1>4. Installing'
  BY DEF Give, StillGiven, Types, AtStep, Manager, Installing, InstalledRuns
<1>5. Uninstalling'
  BY DEF Give, StillGiven, Types, AtStep, Manager, Uninstalling, UninstalledIsGone
<1> QED
  BY <1>1, <1>2, <1>3, <1>4, <1>5

(* Windows: what is created is registered over a node laid out.            *)
LEMMA CreateKeeps == InstallIInv /\ Create => InstallIInv'
<1> SUFFICES ASSUME InstallIInv, Create PROVE InstallIInv'
  OBVIOUS
<1> USE InstallAssumption
    DEF InstallIInv, Goes, GoesTo, Ends, Refused, Fails, fileVars, owners, managerVars, callVars
<1>1. Types'
  <2>1. AtStep'
    BY StaysInScript DEF Create
  <2>2. outcome' \in {"none", "ok", "nothing", "refused", "killed"} /\ failed' \in BOOLEAN
    BY DEF Create, Types
  <2>3. identity' \in Account \cup {"none", "torn"}
    BY DEF Create, Types
  <2>4. settled' \in BOOLEAN
    BY DEF Create, Types
  <2>5. enabled' \in BOOLEAN
    BY DEF Create, Types
  <2>6. loaded' \in Account \cup {"none", "torn"}
    BY DEF Create, Types
  <2>7. UNCHANGED <<platform, cluster, node, layout, audit, running, given, tried, runDaemon,
                    mode, account, late, calls, faults>>
    BY DEF Create
  <2> QED
    BY <2>1, <2>2, <2>3, <2>4, <2>5, <2>6, <2>7 DEF Types
<1> USE StepAfter
    DEF LayingOut, WindowsIn, LinuxIn, MacIn, WindowsOut, LinuxOut, MacOut, Registering
<1>2. Files'
  BY DEF Create, Types, AtStep, Files, RegisteredIsLaidOut
<1>3. Manager'
  BY DEF Create, Types, AtStep, Files, Manager, Covered, Installing, Uninstalling
<1>4. Installing'
  BY DEF Create, Types, AtStep, Manager, Installing, InstalledRuns
<1>5. Uninstalling'
  BY DEF Create, Types, AtStep, Manager, Uninstalling, UninstalledIsGone
<1> QED
  BY <1>1, <1>2, <1>3, <1>4, <1>5

(* Windows: the settings are made of a service that is registered.         *)
LEMMA SettingsKeeps == InstallIInv /\ Settings => InstallIInv'
<1> SUFFICES ASSUME InstallIInv, Settings PROVE InstallIInv'
  OBVIOUS
<1> USE InstallAssumption
    DEF InstallIInv, Goes, GoesTo, Ends, Refused, Fails, fileVars, owners, managerVars, callVars
<1>1. Types'
  <2>1. AtStep'
    BY StaysInScript DEF Settings
  <2>2. outcome' \in {"none", "ok", "nothing", "refused", "killed"} /\ failed' \in BOOLEAN
    BY DEF Settings, Types
  <2>3. settled' \in BOOLEAN
    BY DEF Settings, Types
  <2>4. UNCHANGED <<platform, cluster, node, layout, audit, identity, enabled, loaded,
                    running, given, tried, runDaemon, mode, account, late, calls, faults>>
    BY DEF Settings
  <2> QED
    BY <2>1, <2>2, <2>3, <2>4 DEF Types
<1> USE StepAfter
    DEF LayingOut, WindowsIn, LinuxIn, MacIn, WindowsOut, LinuxOut, MacOut, Registering
<1>2. Files'
  BY DEF Settings, Types, AtStep, Files, RegisteredIsLaidOut
<1>3. Manager'
  BY DEF Settings, Types, AtStep, Files, Manager, Covered, Installing, Uninstalling
<1>4. Installing'
  BY DEF Settings, Types, AtStep, Manager, Installing, InstalledRuns
<1>5. Uninstalling'
  BY DEF Settings, Types, AtStep, Manager, Uninstalling, UninstalledIsGone
<1> QED
  BY <1>1, <1>2, <1>3, <1>4, <1>5

(* Windows: what is started is registered.                                 *)
LEMMA StartServiceKeeps == InstallIInv /\ StartService => InstallIInv'
<1> SUFFICES ASSUME InstallIInv, StartService PROVE InstallIInv'
  OBVIOUS
<1> USE InstallAssumption
    DEF InstallIInv, Goes, GoesTo, Ends, Refused, Fails, fileVars, owners, managerVars, callVars
<1>1. Types'
  <2>1. AtStep'
    BY StaysInScript DEF StartService
  <2>2. outcome' \in {"none", "ok", "nothing", "refused", "killed"} /\ failed' \in BOOLEAN
    BY DEF StartService, Types
  <2>3. running' \in Account \cup {"no", "draining"}
    BY DEF StartService, Types, AtStep, Installing, Manager, LayingOut, WindowsIn, LinuxIn,
           MacIn, WindowsOut, LinuxOut, MacOut
  <2>4. UNCHANGED <<platform, cluster, node, layout, audit, identity, settled, enabled,
                    loaded, given, tried, runDaemon, mode, account, late, calls, faults>>
    BY DEF StartService
  <2> QED
    BY <2>1, <2>2, <2>3, <2>4 DEF Types
<1> USE StepAfter
    DEF LayingOut, WindowsIn, LinuxIn, MacIn, WindowsOut, LinuxOut, MacOut, Registering
<1>2. Files'
  BY DEF StartService, Types, AtStep, Files, RegisteredIsLaidOut
<1>3. Manager'
  BY DEF StartService, Types, AtStep, Files, Manager, Covered, Installing, Uninstalling
<1>4. Installing'
  BY DEF StartService, Types, AtStep, Manager, Installing, InstalledRuns
<1>5. Uninstalling'
  BY DEF StartService, Types, AtStep, Manager, Uninstalling, UninstalledIsGone
<1> QED
  BY <1>1, <1>2, <1>3, <1>4, <1>5

(* Linux: the unit says an account that is given.                          *)
LEMMA WriteUnitKeeps == InstallIInv /\ WriteUnit => InstallIInv'
<1> SUFFICES ASSUME InstallIInv, WriteUnit PROVE InstallIInv'
  OBVIOUS
<1> USE InstallAssumption
    DEF InstallIInv, Goes, GoesTo, Ends, Refused, Fails, fileVars, owners, managerVars, callVars
<1>1. Types'
  <2>1. AtStep'
    BY StaysInScript DEF WriteUnit
  <2>2. outcome' \in {"none", "ok", "nothing", "refused", "killed"} /\ failed' \in BOOLEAN
    BY DEF WriteUnit, Types
  <2>3. identity' \in Account \cup {"none", "torn"}
    BY DEF WriteUnit, Types
  <2>4. settled' \in BOOLEAN
    BY DEF WriteUnit, Types
  <2>5. UNCHANGED <<platform, cluster, node, layout, audit, enabled, loaded, running,
                    given, tried, runDaemon, mode, account, late, calls, faults>>
    BY DEF WriteUnit
  <2> QED
    BY <2>1, <2>2, <2>3, <2>4, <2>5 DEF Types
<1> USE StepAfter
    DEF LayingOut, WindowsIn, LinuxIn, MacIn, WindowsOut, LinuxOut, MacOut, Registering
<1>2. Files'
  BY DEF WriteUnit, Types, AtStep, Files, RegisteredIsLaidOut
<1>3. Manager'
  BY DEF WriteUnit, Types, AtStep, Files, Manager, Covered, Installing, Uninstalling
<1>4. Installing'
  BY DEF WriteUnit, Types, AtStep, Manager, Installing, InstalledRuns
<1>5. Uninstalling'
  BY DEF WriteUnit, Types, AtStep, Manager, Uninstalling, UninstalledIsGone
<1> QED
  BY <1>1, <1>2, <1>3, <1>4, <1>5

(* Linux: the manager holds the unit, or no longer holds it.               *)
LEMMA ReloadKeeps == InstallIInv /\ Reload => InstallIInv'
<1> SUFFICES ASSUME InstallIInv, Reload PROVE InstallIInv'
  OBVIOUS
<1> USE InstallAssumption
    DEF InstallIInv, Goes, GoesTo, Ends, Refused, Fails, fileVars, owners, managerVars, callVars
<1>1. Types'
  <2>1. AtStep'
    BY StaysInScript DEF Reload
  <2>2. outcome' \in {"none", "ok", "nothing", "refused", "killed"} /\ failed' \in BOOLEAN
    BY DEF Reload, Types
  <2>3. loaded' \in Account \cup {"none", "torn"}
    BY DEF Reload, Types
  <2>4. UNCHANGED <<platform, cluster, node, layout, audit, identity, settled, enabled,
                    running, given, tried, runDaemon, mode, account, late, calls, faults>>
    BY DEF Reload
  <2> QED
    BY <2>1, <2>2, <2>3, <2>4 DEF Types
<1> USE StepAfter
    DEF LayingOut, WindowsIn, LinuxIn, MacIn, WindowsOut, LinuxOut, MacOut, Registering
<1>2. Files'
  BY DEF Reload, Types, AtStep, Files, RegisteredIsLaidOut
<1>3. Manager'
  BY DEF Reload, Types, AtStep, Files, Manager, Covered, Installing, Uninstalling
<1>4. Installing'
  BY DEF Reload, Types, AtStep, Manager, Installing, InstalledRuns
<1>5. Uninstalling'
  BY DEF Reload, Types, AtStep, Manager, Uninstalling, UninstalledIsGone
<1> QED
  BY <1>1, <1>2, <1>3, <1>4, <1>5

(* Linux: what starts with the machine is registered.                      *)
LEMMA EnableKeeps == InstallIInv /\ Enable => InstallIInv'
<1> SUFFICES ASSUME InstallIInv, Enable PROVE InstallIInv'
  OBVIOUS
<1> USE InstallAssumption
    DEF InstallIInv, Goes, GoesTo, Ends, Refused, Fails, fileVars, owners, managerVars, callVars
<1>1. Types'
  <2>1. AtStep'
    BY StaysInScript DEF Enable
  <2>2. outcome' \in {"none", "ok", "nothing", "refused", "killed"} /\ failed' \in BOOLEAN
    BY DEF Enable, Types
  <2>3. enabled' \in BOOLEAN
    BY DEF Enable, Types
  <2>4. UNCHANGED <<platform, cluster, node, layout, audit, identity, settled, loaded,
                    running, given, tried, runDaemon, mode, account, late, calls, faults>>
    BY DEF Enable
  <2> QED
    BY <2>1, <2>2, <2>3, <2>4 DEF Types
<1> USE StepAfter
    DEF LayingOut, WindowsIn, LinuxIn, MacIn, WindowsOut, LinuxOut, MacOut, Registering
<1>2. Files'
  BY DEF Enable, Types, AtStep, Files, RegisteredIsLaidOut
<1>3. Manager'
  BY DEF Enable, Types, AtStep, Files, Manager, Covered, Installing, Uninstalling
<1>4. Installing'
  BY DEF Enable, Types, AtStep, Manager, Installing, InstalledRuns
<1>5. Uninstalling'
  BY DEF Enable, Types, AtStep, Manager, Uninstalling, UninstalledIsGone
<1> QED
  BY <1>1, <1>2, <1>3, <1>4, <1>5

(* Linux: what is restarted is registered and enabled.                     *)
LEMMA RestartKeeps == InstallIInv /\ Restart => InstallIInv'
<1> SUFFICES ASSUME InstallIInv, Restart PROVE InstallIInv'
  OBVIOUS
<1> USE InstallAssumption
    DEF InstallIInv, Goes, GoesTo, Ends, Refused, Fails, fileVars, owners, managerVars, callVars
<1>1. Types'
  <2>1. AtStep'
    BY StaysInScript DEF Restart
  <2>2. outcome' \in {"none", "ok", "nothing", "refused", "killed"} /\ failed' \in BOOLEAN
    BY DEF Restart, Types
  <2>3. running' \in Account \cup {"no", "draining"}
    BY DEF Restart, Types, AtStep, Installing, Manager, LayingOut, WindowsIn, LinuxIn,
           MacIn, WindowsOut, LinuxOut, MacOut
  <2>4. tried' \subseteq Account
    BY DEF Restart, Types
  <2>5. UNCHANGED <<platform, cluster, node, layout, audit, identity, settled, enabled,
                    loaded, given, runDaemon, mode, account, late, calls, faults>>
    BY DEF Restart
  <2> QED
    BY <2>1, <2>2, <2>3, <2>4, <2>5 DEF Types
<1> USE StepAfter
    DEF LayingOut, WindowsIn, LinuxIn, MacIn, WindowsOut, LinuxOut, MacOut, Registering
<1>2. Files'
  BY DEF Restart, Types, AtStep, Files, RegisteredIsLaidOut
<1>3. Manager'
  BY DEF Restart, Types, AtStep, Files, Manager, Covered, Installing, Uninstalling
<1>4. Installing'
  BY DEF Restart, Types, AtStep, Manager, Installing, InstalledRuns
<1>5. Uninstalling'
  BY DEF Restart, Types, AtStep, Manager, Uninstalling, UninstalledIsGone
<1> QED
  BY <1>1, <1>2, <1>3, <1>4, <1>5

(* macOS: the daemon of the endpoints' folder leaves the node's alone.     *)
LEMMA RunPlistKeeps == InstallIInv /\ RunPlist => InstallIInv'
<1> SUFFICES ASSUME InstallIInv, RunPlist PROVE InstallIInv'
  OBVIOUS
<1> USE InstallAssumption
    DEF InstallIInv, Goes, GoesTo, Ends, Refused, Fails, fileVars, owners, managerVars, callVars
<1>1. Types'
  <2>1. AtStep'
    BY StaysInScript DEF RunPlist
  <2>2. outcome' \in {"none", "ok", "nothing", "refused", "killed"} /\ failed' \in BOOLEAN
    BY DEF RunPlist, Types
  <2>3. runDaemon' \in [there : {"no", "torn", "whole"}, loaded : BOOLEAN]
    BY DEF RunPlist, Types
  <2>4. UNCHANGED <<platform, cluster, node, layout, audit, identity, settled, enabled,
                    loaded, running, given, tried, mode, account, late, calls, faults>>
    BY DEF RunPlist
  <2> QED
    BY <2>1, <2>2, <2>3, <2>4 DEF Types
<1> USE StepAfter
    DEF LayingOut, WindowsIn, LinuxIn, MacIn, WindowsOut, LinuxOut, MacOut, Registering
<1>2. Files'
  BY DEF RunPlist, Types, AtStep, Files, RegisteredIsLaidOut
<1>3. Manager'
  BY DEF RunPlist, Types, AtStep, Files, Manager, Covered, Installing, Uninstalling
<1>4. Installing'
  BY DEF RunPlist, Types, AtStep, Manager, Installing, InstalledRuns
<1>5. Uninstalling'
  BY DEF RunPlist, Types, AtStep, Manager, Uninstalling, UninstalledIsGone
<1> QED
  BY <1>1, <1>2, <1>3, <1>4, <1>5

(* macOS: so does putting it out.                                          *)
LEMMA RunOutKeeps == InstallIInv /\ RunOut => InstallIInv'
<1> SUFFICES ASSUME InstallIInv, RunOut PROVE InstallIInv'
  OBVIOUS
<1> USE InstallAssumption
    DEF InstallIInv, Goes, GoesTo, Ends, Refused, Fails, fileVars, owners, managerVars, callVars
<1>1. Types'
  <2>1. AtStep'
    BY StaysInScript DEF RunOut
  <2>2. outcome' \in {"none", "ok", "nothing", "refused", "killed"} /\ failed' \in BOOLEAN
    BY DEF RunOut, Types
  <2>3. runDaemon' \in [there : {"no", "torn", "whole"}, loaded : BOOLEAN]
    BY DEF RunOut, Types
  <2>4. UNCHANGED <<platform, cluster, node, layout, audit, identity, settled, enabled,
                    loaded, running, given, tried, mode, account, late, calls, faults>>
    BY DEF RunOut
  <2> QED
    BY <2>1, <2>2, <2>3, <2>4 DEF Types
<1> USE StepAfter
    DEF LayingOut, WindowsIn, LinuxIn, MacIn, WindowsOut, LinuxOut, MacOut, Registering
<1>2. Files'
  BY DEF RunOut, Types, AtStep, Files, RegisteredIsLaidOut
<1>3. Manager'
  BY DEF RunOut, Types, AtStep, Files, Manager, Covered, Installing, Uninstalling
<1>4. Installing'
  BY DEF RunOut, Types, AtStep, Manager, Installing, InstalledRuns
<1>5. Uninstalling'
  BY DEF RunOut, Types, AtStep, Manager, Uninstalling, UninstalledIsGone
<1> QED
  BY <1>1, <1>2, <1>3, <1>4, <1>5

(* macOS: and loading it again.                                            *)
LEMMA RunInKeeps == InstallIInv /\ RunIn => InstallIInv'
<1> SUFFICES ASSUME InstallIInv, RunIn PROVE InstallIInv'
  OBVIOUS
<1> USE InstallAssumption
    DEF InstallIInv, Goes, GoesTo, Ends, Refused, Fails, fileVars, owners, managerVars, callVars
<1>1. Types'
  <2>1. AtStep'
    BY StaysInScript DEF RunIn
  <2>2. outcome' \in {"none", "ok", "nothing", "refused", "killed"} /\ failed' \in BOOLEAN
    BY DEF RunIn, Types
  <2>3. runDaemon' \in [there : {"no", "torn", "whole"}, loaded : BOOLEAN]
    BY DEF RunIn, Types
  <2>4. UNCHANGED <<platform, cluster, node, layout, audit, identity, settled, enabled,
                    loaded, running, given, tried, mode, account, late, calls, faults>>
    BY DEF RunIn
  <2> QED
    BY <2>1, <2>2, <2>3, <2>4 DEF Types
<1> USE StepAfter
    DEF LayingOut, WindowsIn, LinuxIn, MacIn, WindowsOut, LinuxOut, MacOut, Registering
<1>2. Files'
  BY DEF RunIn, Types, AtStep, Files, RegisteredIsLaidOut
<1>3. Manager'
  BY DEF RunIn, Types, AtStep, Files, Manager, Covered, Installing, Uninstalling
<1>4. Installing'
  BY DEF RunIn, Types, AtStep, Manager, Installing, InstalledRuns
<1>5. Uninstalling'
  BY DEF RunIn, Types, AtStep, Manager, Uninstalling, UninstalledIsGone
<1> QED
  BY <1>1, <1>2, <1>3, <1>4, <1>5

(* macOS: the plist says an account that is given.                         *)
LEMMA WritePlistKeeps == InstallIInv /\ WritePlist => InstallIInv'
<1> SUFFICES ASSUME InstallIInv, WritePlist PROVE InstallIInv'
  OBVIOUS
<1> USE InstallAssumption
    DEF InstallIInv, Goes, GoesTo, Ends, Refused, Fails, fileVars, owners, managerVars, callVars
<1>1. Types'
  <2>1. AtStep'
    BY StaysInScript DEF WritePlist
  <2>2. outcome' \in {"none", "ok", "nothing", "refused", "killed"} /\ failed' \in BOOLEAN
    BY DEF WritePlist, Types
  <2>3. identity' \in Account \cup {"none", "torn"}
    BY DEF WritePlist, Types
  <2>4. settled' \in BOOLEAN
    BY DEF WritePlist, Types
  <2>5. enabled' \in BOOLEAN
    BY DEF WritePlist, Types
  <2>6. UNCHANGED <<platform, cluster, node, layout, audit, loaded, running, given, tried,
                    runDaemon, mode, account, late, calls, faults>>
    BY DEF WritePlist
  <2> QED
    BY <2>1, <2>2, <2>3, <2>4, <2>5, <2>6 DEF Types
<1> USE StepAfter
    DEF LayingOut, WindowsIn, LinuxIn, MacIn, WindowsOut, LinuxOut, MacOut, Registering
<1>2. Files'
  BY DEF WritePlist, Types, AtStep, Files, RegisteredIsLaidOut
<1>3. Manager'
  BY DEF WritePlist, Types, AtStep, Files, Manager, Covered, Installing, Uninstalling
<1>4. Installing'
  BY DEF WritePlist, Types, AtStep, Manager, Installing, InstalledRuns
<1>5. Uninstalling'
  BY DEF WritePlist, Types, AtStep, Manager, Uninstalling, UninstalledIsGone
<1> QED
  BY <1>1, <1>2, <1>3, <1>4, <1>5

(* macOS: the daemon put out is still registered.                          *)
LEMMA OutKeeps == InstallIInv /\ Out => InstallIInv'
<1> SUFFICES ASSUME InstallIInv, Out PROVE InstallIInv'
  OBVIOUS
<1> USE InstallAssumption
    DEF InstallIInv, Goes, GoesTo, Ends, Refused, Fails, fileVars, owners, managerVars, callVars
<1>1. Types'
  <2>1. AtStep'
    BY StaysInScript DEF Out
  <2>2. outcome' \in {"none", "ok", "nothing", "refused", "killed"} /\ failed' \in BOOLEAN
    BY DEF Out, Types
  <2>3. loaded' \in Account \cup {"none", "torn"}
    BY DEF Out, Types
  <2>4. running' \in Account \cup {"no", "draining"}
    BY DEF Out, Types
  <2>5. UNCHANGED <<platform, cluster, node, layout, audit, identity, settled, enabled,
                    given, tried, runDaemon, mode, account, late, calls, faults>>
    BY DEF Out
  <2> QED
    BY <2>1, <2>2, <2>3, <2>4, <2>5 DEF Types
<1> USE StepAfter
    DEF LayingOut, WindowsIn, LinuxIn, MacIn, WindowsOut, LinuxOut, MacOut, Registering
<1>2. Files'
  BY DEF Out, Types, AtStep, Files, RegisteredIsLaidOut
<1>3. Manager'
  BY DEF Out, Types, AtStep, Files, Manager, Covered, Installing, Uninstalling
<1>4. Installing'
  BY DEF Out, Types, AtStep, Manager, Installing, InstalledRuns
<1>5. Uninstalling'
  BY DEF Out, Types, AtStep, Manager, Uninstalling, UninstalledIsGone
<1> QED
  BY <1>1, <1>2, <1>3, <1>4, <1>5

(* macOS: what is loaded is registered.                                    *)
LEMMA InKeeps == InstallIInv /\ In => InstallIInv'
<1> SUFFICES ASSUME InstallIInv, In PROVE InstallIInv'
  OBVIOUS
<1> USE InstallAssumption
    DEF InstallIInv, Goes, GoesTo, Ends, Refused, Fails, fileVars, owners, managerVars, callVars
<1>1. Types'
  <2>1. AtStep'
    BY StaysInScript DEF In
  <2>2. outcome' \in {"none", "ok", "nothing", "refused", "killed"} /\ failed' \in BOOLEAN
    BY DEF In, Types
  <2>3. loaded' \in Account \cup {"none", "torn"}
    BY DEF In, Types
  <2>4. running' \in Account \cup {"no", "draining"}
    BY DEF In, Types, AtStep, Installing, Manager, LayingOut, WindowsIn, LinuxIn,
           MacIn, WindowsOut, LinuxOut, MacOut
  <2>5. tried' \subseteq Account
    BY DEF In, Types
  <2>6. UNCHANGED <<platform, cluster, node, layout, audit, identity, settled, enabled,
                    given, runDaemon, mode, account, late, calls, faults>>
    BY DEF In
  <2> QED
    BY <2>1, <2>2, <2>3, <2>4, <2>5, <2>6 DEF Types
<1> USE StepAfter
    DEF LayingOut, WindowsIn, LinuxIn, MacIn, WindowsOut, LinuxOut, MacOut, Registering
<1>2. Files'
  BY DEF In, Types, AtStep, Files, RegisteredIsLaidOut
<1>3. Manager'
  BY DEF In, Types, AtStep, Files, Manager, Covered, Installing, Uninstalling
<1>4. Installing'
  BY DEF In, Types, AtStep, Manager, Installing, InstalledRuns
<1>5. Uninstalling'
  BY DEF In, Types, AtStep, Manager, Uninstalling, UninstalledIsGone
<1> QED
  BY <1>1, <1>2, <1>3, <1>4, <1>5

(* An uninstall that cannot read the node's configuration ends.            *)
LEMMA ReadKeeps == InstallIInv /\ Read => InstallIInv'
<1> SUFFICES ASSUME InstallIInv, Read PROVE InstallIInv'
  OBVIOUS
<1> USE InstallAssumption
    DEF InstallIInv, Goes, GoesTo, Ends, Refused, Fails, fileVars, owners, managerVars, callVars
<1>1. Types'
  <2>1. AtStep'
    BY StaysInScript DEF Read
  <2>2. outcome' \in {"none", "ok", "nothing", "refused", "killed"} /\ failed' \in BOOLEAN
    BY DEF Read, Types
  <2>3. UNCHANGED <<platform, cluster, node, layout, audit, identity, settled, enabled,
                    loaded, running, given, tried, runDaemon, mode, account, late, calls,
                    faults>>
    BY DEF Read
  <2> QED
    BY <2>1, <2>2, <2>3 DEF Types
<1> USE StepAfter
    DEF LayingOut, WindowsIn, LinuxIn, MacIn, WindowsOut, LinuxOut, MacOut, Registering
<1>2. Files'
  BY DEF Read, Types, AtStep, Files, RegisteredIsLaidOut
<1>3. Manager'
  BY DEF Read, Types, AtStep, Files, Manager, Covered, Installing, Uninstalling
<1>4. Installing'
  BY DEF Read, Types, AtStep, Manager, Installing, InstalledRuns
<1>5. Uninstalling'
  BY DEF Read, Types, AtStep, Manager, Uninstalling, UninstalledIsGone
<1> QED
  BY <1>1, <1>2, <1>3, <1>4, <1>5

(* Windows: what is not registered does not run.                           *)
LEMMA OpenKeeps == InstallIInv /\ Open => InstallIInv'
<1> SUFFICES ASSUME InstallIInv, Open PROVE InstallIInv'
  OBVIOUS
<1> USE InstallAssumption
    DEF InstallIInv, Goes, GoesTo, Ends, Refused, Fails, fileVars, owners, managerVars, callVars
<1>1. Types'
  <2>1. AtStep'
    BY StaysInScript DEF Open
  <2>2. outcome' \in {"none", "ok", "nothing", "refused", "killed"} /\ failed' \in BOOLEAN
    BY DEF Open, Types
  <2>3. UNCHANGED <<platform, cluster, node, layout, audit, identity, settled, enabled,
                    loaded, running, given, tried, runDaemon, mode, account, late, calls,
                    faults>>
    BY DEF Open
  <2> QED
    BY <2>1, <2>2, <2>3 DEF Types
<1> USE StepAfter
    DEF LayingOut, WindowsIn, LinuxIn, MacIn, WindowsOut, LinuxOut, MacOut, Registering
<1>2. Files'
  BY DEF Open, Types, AtStep, Files, RegisteredIsLaidOut
<1>3. Manager'
  BY DEF Open, Types, AtStep, Files, Manager, Covered, Installing, Uninstalling
<1>4. Installing'
  BY DEF Open, Types, AtStep, Manager, Installing, InstalledRuns
<1>5. Uninstalling'
  BY DEF Open, Types, AtStep, Manager, Uninstalling, UninstalledIsGone
<1> QED
  BY <1>1, <1>2, <1>3, <1>4, <1>5

(* Windows: what is asked to stop drains.                                  *)
LEMMA StopServiceKeeps == InstallIInv /\ StopService => InstallIInv'
<1> SUFFICES ASSUME InstallIInv, StopService PROVE InstallIInv'
  OBVIOUS
<1> USE InstallAssumption
    DEF InstallIInv, Goes, GoesTo, Ends, Refused, Fails, fileVars, owners, managerVars, callVars
<1>1. Types'
  <2>1. AtStep'
    BY StaysInScript DEF StopService
  <2>2. outcome' \in {"none", "ok", "nothing", "refused", "killed"} /\ failed' \in BOOLEAN
    BY DEF StopService, Types
  <2>3. running' \in Account \cup {"no", "draining"}
    BY DEF StopService, Types
  <2>4. UNCHANGED <<platform, cluster, node, layout, audit, identity, settled, enabled,
                    loaded, given, tried, runDaemon, mode, account, late, calls, faults>>
    BY DEF StopService
  <2> QED
    BY <2>1, <2>2, <2>3, <2>4 DEF Types
<1> USE StepAfter
    DEF LayingOut, WindowsIn, LinuxIn, MacIn, WindowsOut, LinuxOut, MacOut, Registering
<1>2. Files'
  BY DEF StopService, Types, AtStep, Files, RegisteredIsLaidOut
<1>3. Manager'
  BY DEF StopService, Types, AtStep, Files, Manager, Covered, Installing, Uninstalling
<1>4. Installing'
  BY DEF StopService, Types, AtStep, Manager, Installing, InstalledRuns
<1>5. Uninstalling'
  BY DEF StopService, Types, AtStep, Manager, Uninstalling, UninstalledIsGone
<1> QED
  BY <1>1, <1>2, <1>3, <1>4, <1>5

(* Windows: what is deleted has stopped.                                   *)
LEMMA DrainedKeeps == InstallIInv /\ Drained => InstallIInv'
<1> SUFFICES ASSUME InstallIInv, Drained PROVE InstallIInv'
  OBVIOUS
<1> USE InstallAssumption
    DEF InstallIInv, Goes, GoesTo, Ends, Refused, Fails, fileVars, owners, managerVars, callVars
<1>1. Types'
  <2>1. AtStep'
    BY StaysInScript DEF Drained
  <2>2. outcome' \in {"none", "ok", "nothing", "refused", "killed"} /\ failed' \in BOOLEAN
    BY DEF Drained, Types
  <2>3. UNCHANGED <<platform, cluster, node, layout, audit, identity, settled, enabled,
                    loaded, running, given, tried, runDaemon, mode, account, late, calls,
                    faults>>
    BY DEF Drained
  <2> QED
    BY <2>1, <2>2, <2>3 DEF Types
<1> USE StepAfter
    DEF LayingOut, WindowsIn, LinuxIn, MacIn, WindowsOut, LinuxOut, MacOut, Registering
<1>2. Files'
  BY DEF Drained, Types, AtStep, Files, RegisteredIsLaidOut
<1>3. Manager'
  BY DEF Drained, Types, AtStep, Files, Manager, Covered, Installing, Uninstalling
<1>4. Installing'
  BY DEF Drained, Types, AtStep, Manager, Installing, InstalledRuns
<1>5. Uninstalling'
  BY DEF Drained, Types, AtStep, Manager, Uninstalling, UninstalledIsGone
<1> QED
  BY <1>1, <1>2, <1>3, <1>4, <1>5

(* Windows: what is deleted is gone.                                       *)
LEMMA DeleteKeeps == InstallIInv /\ Delete => InstallIInv'
<1> SUFFICES ASSUME InstallIInv, Delete PROVE InstallIInv'
  OBVIOUS
<1> USE InstallAssumption
    DEF InstallIInv, Goes, GoesTo, Ends, Refused, Fails, fileVars, owners, managerVars, callVars
<1>1. Types'
  <2>1. AtStep'
    BY StaysInScript DEF Delete
  <2>2. outcome' \in {"none", "ok", "nothing", "refused", "killed"} /\ failed' \in BOOLEAN
    BY DEF Delete, Types
  <2>3. identity' \in Account \cup {"none", "torn"}
    BY DEF Delete, Types
  <2>4. settled' \in BOOLEAN
    BY DEF Delete, Types
  <2>5. enabled' \in BOOLEAN
    BY DEF Delete, Types
  <2>6. loaded' \in Account \cup {"none", "torn"}
    BY DEF Delete, Types
  <2>7. UNCHANGED <<platform, cluster, node, layout, audit, running, given, tried, runDaemon,
                    mode, account, late, calls, faults>>
    BY DEF Delete
  <2> QED
    BY <2>1, <2>2, <2>3, <2>4, <2>5, <2>6, <2>7 DEF Types
<1> USE StepAfter
    DEF LayingOut, WindowsIn, LinuxIn, MacIn, WindowsOut, LinuxOut, MacOut, Registering
<1>2. Files'
  BY DEF Delete, Types, AtStep, Files, RegisteredIsLaidOut
<1>3. Manager'
  BY DEF Delete, Types, AtStep, Files, Manager, Covered, Installing, Uninstalling
<1>4. Installing'
  BY DEF Delete, Types, AtStep, Manager, Installing, InstalledRuns
<1>5. Uninstalling'
  BY DEF Delete, Types, AtStep, Manager, Uninstalling, UninstalledIsGone
<1> QED
  BY <1>1, <1>2, <1>3, <1>4, <1>5

(* Where there is no unit, nothing runs and nothing starts.                *)
LEMMA ExistsKeeps == InstallIInv /\ Exists => InstallIInv'
<1> SUFFICES ASSUME InstallIInv, Exists PROVE InstallIInv'
  OBVIOUS
<1> USE InstallAssumption
    DEF InstallIInv, Goes, GoesTo, Ends, Refused, Fails, fileVars, owners, managerVars, callVars
<1>1. Types'
  <2>1. AtStep'
    BY StaysInScript DEF Exists
  <2>2. outcome' \in {"none", "ok", "nothing", "refused", "killed"} /\ failed' \in BOOLEAN
    BY DEF Exists, Types
  <2>3. UNCHANGED <<platform, cluster, node, layout, audit, identity, settled, enabled,
                    loaded, running, given, tried, runDaemon, mode, account, late, calls,
                    faults>>
    BY DEF Exists
  <2> QED
    BY <2>1, <2>2, <2>3 DEF Types
<1> USE StepAfter
    DEF LayingOut, WindowsIn, LinuxIn, MacIn, WindowsOut, LinuxOut, MacOut, Registering
<1>2. Files'
  BY DEF Exists, Types, AtStep, Files, RegisteredIsLaidOut
<1>3. Manager'
  BY DEF Exists, Types, AtStep, Files, Manager, Covered, Installing, Uninstalling
<1>4. Installing'
  BY DEF Exists, Types, AtStep, Manager, Installing, InstalledRuns
<1>5. Uninstalling'
  BY DEF Exists, Types, AtStep, Manager, Uninstalling, UninstalledIsGone
<1> QED
  BY <1>1, <1>2, <1>3, <1>4, <1>5

(* Linux: what is disabled has stopped.                                    *)
LEMMA DisableKeeps == InstallIInv /\ Disable => InstallIInv'
<1> SUFFICES ASSUME InstallIInv, Disable PROVE InstallIInv'
  OBVIOUS
<1> USE InstallAssumption
    DEF InstallIInv, Goes, GoesTo, Ends, Refused, Fails, fileVars, owners, managerVars, callVars
<1>1. Types'
  <2>1. AtStep'
    BY StaysInScript DEF Disable
  <2>2. outcome' \in {"none", "ok", "nothing", "refused", "killed"} /\ failed' \in BOOLEAN
    BY DEF Disable, Types
  <2>3. enabled' \in BOOLEAN
    BY DEF Disable, Types
  <2>4. running' \in Account \cup {"no", "draining"}
    BY DEF Disable, Types
  <2>5. UNCHANGED <<platform, cluster, node, layout, audit, identity, settled, loaded,
                    given, tried, runDaemon, mode, account, late, calls, faults>>
    BY DEF Disable
  <2> QED
    BY <2>1, <2>2, <2>3, <2>4, <2>5 DEF Types
<1> USE StepAfter
    DEF LayingOut, WindowsIn, LinuxIn, MacIn, WindowsOut, LinuxOut, MacOut, Registering
<1>2. Files'
  BY DEF Disable, Types, AtStep, Files, RegisteredIsLaidOut
<1>3. Manager'
  <2>1. CASE Goes /\ enabled' = FALSE /\ running' = "no"
    BY <2>1 DEF Disable, Types, AtStep, Manager, Covered
  <2>2. CASE enabled' \in {enabled, FALSE} /\ running' = running
    <3>1. ~enabled => ~enabled'
      BY <2>2
    <3> QED
      BY <2>2, <3>1 DEF Disable, Types, Manager, Covered
  <2> QED
    BY <2>1, <2>2 DEF Disable
<1>4. Installing'
  BY DEF Disable, Types, AtStep, Manager, Installing, InstalledRuns
<1>5. Uninstalling'
  BY DEF Disable, Types, AtStep, Manager, Uninstalling, UninstalledIsGone
<1> QED
  BY <1>1, <1>2, <1>3, <1>4, <1>5

(* macOS: what is put out has stopped.                                     *)
LEMMA BootoutKeeps == InstallIInv /\ Bootout => InstallIInv'
<1> SUFFICES ASSUME InstallIInv, Bootout PROVE InstallIInv'
  OBVIOUS
<1> USE InstallAssumption
    DEF InstallIInv, Goes, GoesTo, Ends, Refused, Fails, fileVars, owners, managerVars, callVars
<1>1. Types'
  <2>1. AtStep'
    BY StaysInScript DEF Bootout
  <2>2. outcome' \in {"none", "ok", "nothing", "refused", "killed"} /\ failed' \in BOOLEAN
    BY DEF Bootout, Types
  <2>3. loaded' \in Account \cup {"none", "torn"}
    BY DEF Bootout, Types
  <2>4. running' \in Account \cup {"no", "draining"}
    BY DEF Bootout, Types
  <2>5. UNCHANGED <<platform, cluster, node, layout, audit, identity, settled, enabled,
                    given, tried, runDaemon, mode, account, late, calls, faults>>
    BY DEF Bootout
  <2> QED
    BY <2>1, <2>2, <2>3, <2>4, <2>5 DEF Types
<1> USE StepAfter
    DEF LayingOut, WindowsIn, LinuxIn, MacIn, WindowsOut, LinuxOut, MacOut, Registering
<1>2. Files'
  BY DEF Bootout, Types, AtStep, Files, RegisteredIsLaidOut
<1>3. Manager'
  BY DEF Bootout, Types, AtStep, Files, Manager, Covered, Installing, Uninstalling
<1>4. Installing'
  BY DEF Bootout, Types, AtStep, Manager, Installing, InstalledRuns
<1>5. Uninstalling'
  BY DEF Bootout, Types, AtStep, Manager, Uninstalling, UninstalledIsGone
<1> QED
  BY <1>1, <1>2, <1>3, <1>4, <1>5

(* What is removed is gone.                                                *)
LEMMA RemoveKeeps == InstallIInv /\ Remove => InstallIInv'
<1> SUFFICES ASSUME InstallIInv, Remove PROVE InstallIInv'
  OBVIOUS
<1> USE InstallAssumption
    DEF InstallIInv, Goes, GoesTo, Ends, Refused, Fails, fileVars, owners, managerVars, callVars
<1>1. Types'
  <2>1. AtStep'
    BY StaysInScript DEF Remove
  <2>2. outcome' \in {"none", "ok", "nothing", "refused", "killed"} /\ failed' \in BOOLEAN
    BY DEF Remove, Types
  <2>3. identity' \in Account \cup {"none", "torn"}
    BY DEF Remove, Types
  <2>4. settled' \in BOOLEAN
    BY DEF Remove, Types
  <2>5. enabled' \in BOOLEAN
    BY DEF Remove, Types
  <2>6. UNCHANGED <<platform, cluster, node, layout, audit, loaded, running, given, tried,
                    runDaemon, mode, account, late, calls, faults>>
    BY DEF Remove
  <2> QED
    BY <2>1, <2>2, <2>3, <2>4, <2>5, <2>6 DEF Types
<1> USE StepAfter
    DEF LayingOut, WindowsIn, LinuxIn, MacIn, WindowsOut, LinuxOut, MacOut, Registering
<1>2. Files'
  BY DEF Remove, Types, AtStep, Files, RegisteredIsLaidOut
<1>3. Manager'
  BY DEF Remove, Types, AtStep, Files, Manager, Covered, Installing, Uninstalling
<1>4. Installing'
  BY DEF Remove, Types, AtStep, Manager, Installing, InstalledRuns
<1>5. Uninstalling'
  BY DEF Remove, Types, AtStep, Manager, Uninstalling, UninstalledIsGone
<1> QED
  BY <1>1, <1>2, <1>3, <1>4, <1>5

(* macOS: the plist of the endpoints' folder goes, or stays.               *)
LEMMA RunRemoveKeeps == InstallIInv /\ RunRemove => InstallIInv'
<1> SUFFICES ASSUME InstallIInv, RunRemove PROVE InstallIInv'
  OBVIOUS
<1> USE InstallAssumption
    DEF InstallIInv, Goes, GoesTo, Ends, Refused, Fails, fileVars, owners, managerVars, callVars
<1>1. Types'
  <2>1. AtStep'
    BY StaysInScript DEF RunRemove
  <2>2. outcome' \in {"none", "ok", "nothing", "refused", "killed"} /\ failed' \in BOOLEAN
    BY DEF RunRemove, Types
  <2>3. runDaemon' \in [there : {"no", "torn", "whole"}, loaded : BOOLEAN]
    BY DEF RunRemove, Types
  <2>4. UNCHANGED <<platform, cluster, node, layout, audit, identity, settled, enabled,
                    loaded, running, given, tried, mode, account, late, calls, faults>>
    BY DEF RunRemove
  <2> QED
    BY <2>1, <2>2, <2>3, <2>4 DEF Types
<1> USE StepAfter
    DEF LayingOut, WindowsIn, LinuxIn, MacIn, WindowsOut, LinuxOut, MacOut, Registering
<1>2. Files'
  BY DEF RunRemove, Types, AtStep, Files, RegisteredIsLaidOut
<1>3. Manager'
  BY DEF RunRemove, Types, AtStep, Files, Manager, Covered, Installing, Uninstalling
<1>4. Installing'
  BY DEF RunRemove, Types, AtStep, Manager, Installing, InstalledRuns
<1>5. Uninstalling'
  BY DEF RunRemove, Types, AtStep, Manager, Uninstalling, UninstalledIsGone
<1> QED
  BY <1>1, <1>2, <1>3, <1>4, <1>5

------------------------------------------------------------------------------
(* What happens beside the program, and a new call.                        *)

(* A call begins at the first step of its script, with nothing looked for. *)
LEMMA CallKeeps ==
    ASSUME InstallIInv, NEW m \in {"install", "uninstall"}, NEW a \in Account, Call(m, a)
    PROVE  InstallIInv'
<1> USE InstallAssumption
    DEF InstallIInv, Call, fileVars, owners, managerVars, LayingOut, WindowsIn,
        LinuxIn, MacIn, WindowsOut, LinuxOut, MacOut, Registering
<1>1. Types'
  <2>1. AtStep'
    BY DEF AtStep, Types
  <2>2. calls' \in 0..MaxCalls
    BY DEF Types
  <2>3. late' \subseteq {"cluster", "node"}
    OBVIOUS
  <2>4. mode' \in {"install", "uninstall"} /\ account' \in Account
    OBVIOUS
  <2>5. outcome' \in {"none", "ok", "nothing", "refused", "killed"} /\ failed' \in BOOLEAN
    OBVIOUS
  <2>6. UNCHANGED <<platform, cluster, node, layout, audit, identity, settled, enabled,
                    loaded, running, given, tried, runDaemon, faults>>
    OBVIOUS
  <2> HIDE DEF Call
  <2> QED
    BY <2>1, <2>2, <2>3, <2>4, <2>5, <2>6 DEF Types
<1>2. Files'
  BY DEF Types, Files, RegisteredIsLaidOut
<1>3. Manager'
  BY DEF Manager, Covered
<1>4. Installing'
  BY DEF Installing, InstalledRuns
<1>5. Uninstalling'
  BY DEF Uninstalling, UninstalledIsGone
<1> QED
  BY <1>1, <1>2, <1>3, <1>4, <1>5

(* A service that has drained was asked to stop, and no install that said *)
(* OK left it so.                                                          *)
LEMMA DrainKeeps == InstallIInv /\ Drain => InstallIInv'
<1> SUFFICES ASSUME InstallIInv, Drain PROVE InstallIInv'
  OBVIOUS
<1> USE InstallAssumption
    DEF InstallIInv, Drain, fileVars, owners, managerVars, callVars, LayingOut, WindowsIn,
        LinuxIn, MacIn, WindowsOut, LinuxOut, MacOut, Registering
<1>1. Types'
  BY DEF Types, AtStep
<1>2. Files'
  BY DEF Files, RegisteredIsLaidOut
<1>3. Manager'
  BY DEF Manager, Covered
<1>4. Installing'
  BY DEF Installing, InstalledRuns
<1>5. Uninstalling'
  BY DEF Uninstalling, UninstalledIsGone
<1> QED
  BY <1>1, <1>2, <1>3, <1>4, <1>5

(* The program killed leaves every file and the manager as they are.       *)
LEMMA KillKeeps == InstallIInv /\ Kill => InstallIInv'
<1> SUFFICES ASSUME InstallIInv, Kill PROVE InstallIInv'
  OBVIOUS
<1> USE InstallAssumption
    DEF InstallIInv, Kill, Fault, fileVars, owners, managerVars, callVars, LayingOut, WindowsIn,
        LinuxIn, MacIn, WindowsOut, LinuxOut, MacOut, Registering
<1>1. Types'
  <2>1. AtStep'
    BY DEF AtStep
  <2>2. faults' \in 0..MaxFaults
    BY DEF Types
  <2> QED
    BY <2>1, <2>2 DEF Types
<1>2. Files'
  BY DEF Files, RegisteredIsLaidOut
<1>3. Manager'
  BY DEF Manager, Covered
<1>4. Installing'
  BY DEF Installing, InstalledRuns
<1>5. Uninstalling'
  BY DEF Uninstalling, UninstalledIsGone
<1> QED
  BY <1>1, <1>2, <1>3, <1>4, <1>5

(* The machine restarted runs what is registered to start with it: what an *)
(* install that said OK left, and nothing of what an uninstall removed.    *)
LEMMA RebootKeeps == InstallIInv /\ Reboot => InstallIInv'
<1> SUFFICES ASSUME InstallIInv, Reboot PROVE InstallIInv'
  OBVIOUS
<1> USE InstallAssumption
    DEF InstallIInv, Reboot, Fault, fileVars, owners, managerVars, callVars, LayingOut, WindowsIn,
        LinuxIn, MacIn, WindowsOut, LinuxOut, MacOut, Registering
<1>1. Types'
  <2>1. AtStep'
    BY DEF AtStep
  <2>2. faults' \in 0..MaxFaults
    BY DEF Types
  <2>3. loaded' \in Account \cup {"none", "torn"} /\ running' \in Account \cup {"no", "draining"}
    BY DEF Types
  <2>4. runDaemon' \in [there : {"no", "torn", "whole"}, loaded : BOOLEAN]
    BY DEF Types
  <2>5. outcome' \in {"none", "ok", "nothing", "refused", "killed"}
    BY DEF Types
  <2>6. UNCHANGED <<platform, cluster, node, layout, audit, identity, settled, enabled,
                    given, tried, mode, account, failed, late, calls>>
    OBVIOUS
  <2> QED
    BY <2>1, <2>2, <2>3, <2>4, <2>5, <2>6 DEF Types
<1>2. Files'
  BY DEF Files, RegisteredIsLaidOut
<1>3. Manager'
  BY DEF Manager, Covered
<1>4. Installing'
  <2>1. pc' = "idle"
    OBVIOUS
  <2>2. ASSUME mode' = "install", outcome' = "ok" PROVE InstalledRuns'
    <3>1. pc = "idle" /\ outcome = "ok" /\ mode = "install"
      BY <2>2
    <3>2. /\ enabled /\ settled /\ running \in Account /\ running = identity
          /\ platform # "windows" => /\ identity = account
                                     /\ account \in given \cup {"default"}
      BY <3>1 DEF Installing, InstalledRuns
    <3> QED
      BY <3>2 DEF InstalledRuns
  <2> QED
    BY <2>1, <2>2 DEF Installing, InstalledRuns
<1>5. Uninstalling'
  BY DEF Uninstalling, UninstalledIsGone
<1> QED
  BY <1>1, <1>2, <1>3, <1>4, <1>5

(* A whole file put there tears none, and is remembered where the call     *)
(* under way had looked for it.                                            *)
LEMMA DeployKeeps ==
    ASSUME InstallIInv, NEW file \in {"cluster", "node"}, Deploy(file)
    PROVE  InstallIInv'
<1> USE InstallAssumption
    DEF InstallIInv, Deploy, Fault, owners, managerVars, LayingOut, WindowsIn,
        LinuxIn, MacIn, WindowsOut, LinuxOut, MacOut, Registering
<1>1. Types'
  <2>1. AtStep'
    BY DEF Types, AtStep
  <2>2. faults' \in 0..MaxFaults
    BY DEF Types
  <2>3. cluster' \in {"none", "torn", "starter", "operator"}
        /\ node' \in {"none", "torn", "sliced", "operator"}
    BY DEF Types
  <2>4. late' \subseteq {"cluster", "node"}
    BY DEF Types
  <2>5. UNCHANGED <<platform, layout, audit, identity, settled, enabled, loaded, running,
                    given, tried, runDaemon, mode, account, outcome, failed, calls>>
    OBVIOUS
  <2> QED
    BY <2>1, <2>2, <2>3, <2>4, <2>5 DEF Types
<1>2. Files'
  BY DEF Types, Files, RegisteredIsLaidOut
<1>3. Manager'
  BY DEF Manager, Covered
<1>4. Installing'
  BY DEF Installing, InstalledRuns
<1>5. Uninstalling'
  BY DEF Uninstalling, UninstalledIsGone
<1> QED
  BY <1>1, <1>2, <1>3, <1>4, <1>5

------------------------------------------------------------------------------
(* InstallIInv is inductive.                                               *)
THEOREM InstallIInvariant == Spec => []InstallIInv
<1>1. Init => InstallIInv
  <2> SUFFICES ASSUME Init PROVE InstallIInv
    OBVIOUS
  <2>1. Types
    <3>1. AtStep
      BY DEF Init, AtStep
    <3>2. calls \in 0..MaxCalls /\ faults \in 0..MaxFaults
      BY InstallAssumption DEF Init
    <3>3. runDaemon \in [there : {"no", "torn", "whole"}, loaded : BOOLEAN]
      BY DEF Init
    <3> QED
      BY <3>1, <3>2, <3>3, InstallAssumption DEF Init, Types
  <2>2. Files /\ Manager /\ Installing /\ Uninstalling
    BY InstallAssumption
       DEF Init, Files, RegisteredIsLaidOut, Manager, Installing, InstalledRuns,
           Uninstalling, UninstalledIsGone, Covered, LayingOut, WindowsIn,
        LinuxIn, MacIn, WindowsOut, LinuxOut, MacOut, Registering
  <2> QED
    BY <2>1, <2>2 DEF InstallIInv
<1>2. InstallIInv /\ [Next]_vars => InstallIInv'
  <2> SUFFICES ASSUME InstallIInv, [Next]_vars PROVE InstallIInv'
    OBVIOUS
  <2>1. CASE Program
    BY <2>1, LookKeeps, LookClusterKeeps, StarterKeeps, WriteClusterKeeps, SliceKeeps,
       WriteNodeKeeps, LayoutKeeps, DefineKeeps, GiveKeeps, CreateKeeps,
       SettingsKeeps, StartServiceKeeps, WriteUnitKeeps, ReloadKeeps, EnableKeeps,
       RestartKeeps, RunPlistKeeps, RunOutKeeps, RunInKeeps, WritePlistKeeps,
       OutKeeps, InKeeps, ReadKeeps, OpenKeeps, StopServiceKeeps, DrainedKeeps,
       DeleteKeeps, ExistsKeeps, DisableKeeps, BootoutKeeps, RemoveKeeps,
       RunRemoveKeeps
       DEF Program
  <2>2. CASE UNCHANGED vars
    <3>1. Types'
      BY <2>2 DEF InstallIInv, Types, AtStep, vars, owners
    <3>2. Files' /\ Manager'
      BY <2>2 DEF InstallIInv, Files, RegisteredIsLaidOut, Manager, Covered, vars, owners
    <3>3. Installing' /\ Uninstalling'
      BY <2>2 DEF InstallIInv, Installing, InstalledRuns, Uninstalling,
                  UninstalledIsGone, vars, owners
    <3> QED
      BY <3>1, <3>2, <3>3 DEF InstallIInv
  <2> QED
    BY <2>1, <2>2, CallKeeps, DrainKeeps, KillKeeps, RebootKeeps, DeployKeeps DEF Next
<1> QED
  BY <1>1, <1>2, PTL DEF Spec

(* The types, a service that runs only while one is registered, and none   *)
(* registered over a half-made node, whatever was killed, restarted or     *)
(* failed on the way (install.rs installed: everything is laid out and     *)
(* read before register).                                                  *)
THEOREM InstallInvariant == Spec => []InstallInv
<1>1. InstallIInv => InstallInv
  <2> SUFFICES ASSUME InstallIInv PROVE InstallInv
    OBVIOUS
  <2>1. pc = "idle" \/ \E i \in DOMAIN Script : Script[i] = pc
    BY AtStepOfScript DEF InstallIInv, Types
  <2>2. TypeOK
    BY <2>1 DEF InstallIInv, Types, TypeOK
  <2> QED
    BY <2>2, InstallAssumption DEF InstallIInv, InstallInv, Files, Manager
<1> QED
  BY <1>1, InstallIInvariant, PTL

(* On Linux and macOS a service runs as an account of its own only over    *)
(* folders it was given, unless an install as another account took them    *)
(* and has not started the service since (account.rs give).                *)
THEOREM RunsAsGiven == Spec => []RunsGiven
<1>1. InstallIInv => RunsGiven
  BY DEF InstallIInv, RunsGiven, Manager, Covered
<1> QED
  BY <1>1, InstallIInvariant, PTL

(* An install that said OK left a node that runs, starts with the machine  *)
(* and is told where its audit goes, and it still does after the machine   *)
(* restarted (install.rs register).                                        *)
THEOREM InstalledNodeRuns == Spec => []InstalledRuns
<1>1. InstallIInv => InstalledRuns
  BY DEF InstallIInv, InstalledRuns, Installing
<1> QED
  BY <1>1, InstallIInvariant, PTL

(* An uninstall that said OK, or that there was nothing, left no service   *)
(* (install.rs deregister).                                                *)
THEOREM UninstalledNodeIsGone == Spec => []UninstalledIsGone
<1>1. InstallIInv => UninstalledIsGone
  BY DEF InstallIInv, UninstalledIsGone, Uninstalling
<1> QED
  BY <1>1, InstallIInvariant, PTL

(* The steps that write a configuration.                                   *)
Writing == Starter \/ WriteCluster \/ Slice \/ WriteNode

(* A step of the program that writes none leaves both as they are.         *)
LEMMA OthersKeepConfiguration ==
    ASSUME Program, ~Writing
    PROVE  UNCHANGED <<cluster, node>>
BY DEF Program, Writing, fileVars, Look, LookCluster, Starter, WriteCluster, Slice, WriteNode, Layout, Define, Give,
       Create, Settings, StartService, WriteUnit, Reload, Enable, Restart, RunPlist,
       RunOut, RunIn, WritePlist, Out, In, Read, Open, StopService, Drained, Delete,
       Exists, Disable, Bootout, Remove, RunRemove

(* A configuration there when an install looks for it is never written     *)
(* over, and an uninstall deletes none (install.rs installed, uninstalled).*)
THEOREM ConfigurationIsKept == Spec => ConfigurationKept
<1> DEFINE Kept ==
        /\ cluster \in {"starter", "operator"} /\ "cluster" \notin late
             => cluster' = cluster
        /\ node \in {"sliced", "operator"} /\ "node" \notin late
             => node' = node
<1>1. ASSUME InstallIInv, [Next]_vars PROVE [Kept]_vars
  <2>1. CASE Program
    <3>1. CASE Writing
      BY <1>1, <3>1 DEF Writing, Starter, WriteCluster, Slice, WriteNode, InstallIInv, Files
    <3>2. CASE ~Writing
      BY <2>1, <3>2, OthersKeepConfiguration
    <3> QED
      BY <3>1, <3>2
  <2>2. ASSUME NEW m, NEW a, Call(m, a) PROVE Kept
    BY <2>2 DEF Call, fileVars
  <2>3. CASE Drain \/ Kill \/ Reboot
    BY <2>3 DEF Drain, Kill, Reboot, fileVars
  <2>4. ASSUME NEW file, Deploy(file) PROVE Kept
    BY <2>4 DEF Deploy
  <2>5. CASE UNCHANGED vars
    BY <2>5
  <2> HIDE DEF Kept
  <2> QED
    BY <1>1, <2>1, <2>2, <2>3, <2>4, <2>5 DEF Next
<1> QED
  BY <1>1, InstallIInvariant, PTL DEF Spec, ConfigurationKept

(* The steps that may refuse of what they find.                            *)
Refusing ==
    \/ Slice \/ Define \/ Read \/ Bootout
    \/ StartService \/ StopService \/ Drained \/ Disable \/ RunIn \/ In

(* Every other step that says refused has failed of itself.                *)
LEMMA OthersRefuseNothing ==
    ASSUME Program, ~Refusing, outcome # "refused", outcome' = "refused"
    PROVE  failed' = TRUE
BY DEF Program, Refusing, Goes, GoesTo, Ends, Fails, Look, LookCluster, Starter,
       WriteCluster, WriteNode, Layout, Give, Create, Settings, WriteUnit, Reload,
       Enable, Restart, RunPlist, RunOut, WritePlist, Out, Open, Delete,
       Exists, Remove, RunRemove

(* A call is refused only because a step failed of itself, or for one of   *)
(* the leftovers RefusedForCause lists: whatever else an interrupted call  *)
(* left behind refuses no later one (install.rs register, deregister).     *)
THEOREM RefusedOnlyForCause == Spec => RefusedForCause
<1> DEFINE Caused ==
        (outcome # "refused" /\ outcome' = "refused" /\ ~failed') =>
            \/ node = "torn" \/ running = "draining"
            \/ mode = "install" /\ cluster = "torn"
            \/ mode = "uninstall" /\ (node = "none" \/ identity = "torn")
            \/ platform = "macos" /\ mode = "uninstall" /\ loaded = "none"
            \/ platform = "macos" /\ pc \in {"runIn", "in"}
<1>1. ASSUME InstallIInv, [Next]_vars PROVE [Caused]_vars
  <2>1. CASE Program
    <3>1. AtStep /\ mode \in {"install", "uninstall"}
      BY <1>1 DEF InstallIInv, Types
    <3>2. /\ pc = "slice" => mode = "install"
          /\ pc \in {"read", "disable", "bootout", "stop", "drained"} => mode = "uninstall"
          /\ pc \in {"bootout", "runIn", "in"} => platform = "macos"
          /\ pc = "drained" => platform = "windows"
      BY <3>1 DEF AtStep, LayingOut, WindowsIn, LinuxIn, MacIn, WindowsOut, LinuxOut,
                  MacOut
    <3> USE DEF Goes, Ends, Refused, Fails
    <3>3. CASE Slice \/ Define
      BY <3>2, <3>3 DEF Slice, Define
    <3>4. CASE Read
      BY <3>2, <3>4 DEF Read
    <3>5. CASE StartService \/ StopService
      BY <3>5 DEF StartService, StopService
    <3>6. CASE Drained
      BY <1>1, <3>2, <3>6 DEF Drained, InstallIInv, Types, Uninstalling
    <3>7. CASE Disable
      BY <3>2, <3>7 DEF Disable
    <3>8. CASE Bootout
      BY <3>2, <3>8 DEF Bootout
    <3>9. CASE RunIn \/ In
      BY <3>2, <3>9 DEF RunIn, In
    <3>10. CASE ~Refusing
      BY <2>1, <3>10, OthersRefuseNothing
    <3> QED
      BY <3>3, <3>4, <3>5, <3>6, <3>7, <3>8, <3>9, <3>10 DEF Refusing
  <2>2. ASSUME NEW m, NEW a, Call(m, a) PROVE Caused
    BY <2>2 DEF Call
  <2>3. CASE Drain \/ Kill \/ Reboot
    BY <2>3 DEF Drain, Kill, Reboot
  <2>4. ASSUME NEW file, Deploy(file) PROVE Caused
    BY <2>4 DEF Deploy
  <2>5. CASE UNCHANGED vars
    BY <2>5
  <2> HIDE DEF Caused
  <2> QED
    BY <1>1, <2>1, <2>2, <2>3, <2>4, <2>5 DEF Next
<1> QED
  BY <1>1, InstallIInvariant, PTL DEF Spec, RefusedForCause
==============================================================================
