------------------------------- MODULE Install -------------------------------
(***************************************************************************)
(* xmip-service --install and --uninstall (.src/service/install.rs,        *)
(* account.rs, definition.rs): a node laid out from its cluster's file,    *)
(* its service registered with the platform's service manager and started, *)
(* and removed again.                                                      *)
(*                                                                         *)
(* One node on one machine.  Every step may fail, the program may be       *)
(* killed between any two, and the machine may restart, which starts what  *)
(* is registered to start with it.  The service managers are external:     *)
(* what their commands do is modelled from how install.rs uses them.       *)
(***************************************************************************)
EXTENDS Naturals, Sequences

CONSTANTS
    Platform,   \* the platforms: "windows", "linux", "macos"
    Account,    \* what --account may say, "default" where it is not given
    MaxCalls,   \* times --install or --uninstall is run
    MaxFaults   \* kills, restarts of the machine, files an operator puts there

ASSUME InstallAssumption ==
    /\ Platform \subseteq {"windows", "linux", "macos"}
    /\ "default" \in Account
    /\ Account \cap {"none", "torn", "no", "draining"} = {}
    /\ MaxCalls \in Nat /\ MaxFaults \in Nat

VARIABLES
    platform,   \* the one the program was built for
    cluster,    \* cluster.xmip: "none", "torn", "starter" or "operator"
    node,       \* node.xmip: "none", "torn", "sliced" or "operator"
    layout,     \* modules and logs are there
    audit,      \* the data directory and the audit's under it are there
    identity,   \* the account of the definition on the machine, "none" without
                \* one, "torn" where it is half written
    settled,    \* it says where the audit goes and how a failure is answered
    enabled,    \* it starts with the machine
    loaded,     \* the definition the manager holds, by its account
    running,    \* the account the service runs as, "no" or "draining"
    given,      \* the accounts that have what the node reads and writes
    tried,      \* the accounts given it since an install started the service
                \* (history)
    runDaemon,  \* macOS: the endpoints' folder's daemon: plist and loaded
    pc,         \* the step the program is at, "idle" without one
    mode,       \* "install" or "uninstall"
    account,    \* what this call's --account says
    outcome,    \* how the last call ended
    failed,     \* a step of this call failed of itself (history)
    late,       \* the files put there after this call looked for them (history)
    calls, faults

fileVars == <<cluster, node, layout, audit>>
owners == <<given, tried>>
managerVars == <<identity, settled, enabled, loaded, running, owners, runDaemon>>
callVars == <<platform, mode, account, calls, late>>
vars == <<platform, cluster, node, layout, audit, identity, settled, enabled,
          loaded, running, owners, runDaemon, pc, mode, account, outcome, failed, late,
          calls, faults>>

(* Mutant of Register: the unit is started and not enabled.                *)
Register_Unenabled ==
    CASE platform = "windows" -> <<"create", "settings", "give", "start">>
      [] platform = "linux" -> <<"give", "unit", "reload", "restart">>
      [] OTHER -> <<"give", "runPlist", "runOut", "runIn", "plist", "out", "in">>

(* What registers the service, in order, and what removes it.              *)
Register ==
    CASE platform = "windows" -> <<"create", "settings", "give", "start">>
      [] platform = "linux" -> <<"give", "unit", "reload", "enable", "restart">>
      [] OTHER -> <<"give", "runPlist", "runOut", "runIn", "plist", "out", "in">>

Deregister ==
    CASE platform = "windows" -> <<"open", "stop", "drained", "delete">>
      [] platform = "linux" -> <<"exists", "disable", "remove", "reload">>
      [] OTHER -> <<"exists", "bootout", "remove", "runOut", "runRemove">>

Script ==
    IF mode = "install"
    THEN <<"look", "lookCluster", "starter", "writeCluster", "slice", "writeNode",
           "layout", "define">> \o Register
    ELSE <<"read">> \o Deregister

(* The step after `at`, or the end of the call.                            *)
After(at) ==
    IF at = Script[Len(Script)] THEN "idle"
    ELSE Script[1 + CHOOSE i \in DOMAIN Script : Script[i] = at]

(* The step succeeds and the program goes on.                              *)
Goes ==
    /\ pc' = After(pc) /\ failed' = failed
    /\ outcome' = IF pc' = "idle" THEN "ok" ELSE outcome

GoesTo(step) == pc' = step /\ UNCHANGED <<failed, outcome>>

Ends(how) == pc' = "idle" /\ outcome' = how /\ failed' = failed

(* The step is refused because of what it found ...                        *)
Refused == Ends("refused")

(* ... or it fails: a disk, a right, a command that exits with an error.   *)
Fails == pc' = "idle" /\ outcome' = "refused" /\ failed' = TRUE

------------------------------------------------------------------------------
Init ==
    /\ platform \in Platform
    /\ cluster \in {"none", "operator"} /\ node \in {"none", "operator"}
    /\ layout = FALSE /\ audit = FALSE
    /\ identity = "none" /\ settled = FALSE /\ enabled = FALSE
    /\ loaded = "none" /\ running = "no" /\ given = {} /\ tried = {}
    /\ runDaemon = [there |-> "no", loaded |-> FALSE]
    /\ pc = "idle" /\ mode = "install" /\ account = "default"
    /\ outcome = "none" /\ failed = FALSE /\ late = {} /\ calls = 0 /\ faults = 0

Call(m, a) ==
    /\ pc = "idle" /\ calls < MaxCalls /\ calls' = calls + 1
    /\ mode' = m /\ account' = a /\ outcome' = "none" /\ failed' = FALSE /\ late' = {}
    /\ pc' = IF m = "install" THEN "look" ELSE "read"
    /\ UNCHANGED <<platform, fileVars, managerVars, faults>>

(* Mutant of Look: the node's configuration is always sliced anew.         *)
Look_Always ==
    /\ pc = "look"
    /\ GoesTo("lookCluster")
    /\ UNCHANGED <<fileVars, managerVars, callVars, faults>>

(* A node given its slice is laid out by it alone.                         *)
Look ==
    /\ pc = "look"
    /\ GoesTo(IF node # "none" THEN "layout" ELSE "lookCluster")
    /\ UNCHANGED <<fileVars, managerVars, callVars, faults>>

(* A cluster's file that is there is read as it is.                        *)
LookCluster ==
    /\ pc = "lookCluster"
    /\ GoesTo(IF cluster # "none" THEN "slice" ELSE "starter")
    /\ UNCHANGED <<fileVars, managerVars, callVars, faults>>

(* std::fs::write: the file is made empty, then written.                   *)
Starter ==
    /\ pc = "starter"
    /\ \/ Goes /\ cluster' = "torn"
       \/ Fails /\ cluster' = cluster
    /\ UNCHANGED <<node, layout, audit, managerVars, callVars, faults>>

WriteCluster ==
    /\ pc = "writeCluster"
    /\ \/ Goes /\ cluster' = "starter"
       \/ Fails /\ cluster' = cluster
    /\ UNCHANGED <<node, layout, audit, managerVars, callVars, faults>>

(* The slice of the cluster's file, signed; an empty file declares no node *)
(* and is refused.                                                         *)
Slice ==
    /\ pc = "slice"
    /\ \/ cluster # "torn" /\ Goes /\ node' = "torn"
       \/ cluster = "torn" /\ Refused /\ node' = node
       \/ Fails /\ node' = node
    /\ UNCHANGED <<cluster, layout, audit, managerVars, callVars, faults>>

WriteNode ==
    /\ pc = "writeNode"
    /\ \/ Goes /\ node' = "sliced"
       \/ Fails /\ node' = node
    /\ UNCHANGED <<cluster, layout, audit, managerVars, callVars, faults>>

Layout ==
    /\ pc = "layout"
    /\ \/ Goes /\ layout' = TRUE
       \/ Fails /\ layout' \in {layout, TRUE}
    /\ UNCHANGED <<cluster, node, audit, managerVars, callVars, faults>>

(* Mutant of Define: the definition is made without reading the node's     *)
(* configuration.                                                          *)
Define_Unread ==
    /\ pc = "define" /\ Goes /\ audit' = TRUE
    /\ UNCHANGED <<cluster, node, layout, managerVars, callVars, faults>>

(* definition::node_service reads the node's configuration; then the       *)
(* audit's directory is made.                                              *)
Define ==
    /\ pc = "define"
    /\ \/ node # "torn" /\ Goes /\ audit' = TRUE
       \/ node = "torn" /\ Refused /\ audit' = audit
       \/ Fails /\ audit' = audit
    /\ UNCHANGED <<cluster, node, layout, managerVars, callVars, faults>>

(* Mutant of Give: the account is given nothing.                           *)
Give_Nothing ==
    /\ pc = "give" /\ Goes
    /\ UNCHANGED <<fileVars, identity, settled, enabled, loaded, running, owners,
                   runDaemon, callVars, faults>>

(* account::give, folder by folder, for a service that runs as an account  *)
(* of its own.  icacls grants beside what is granted; chown takes the      *)
(* folders from the account that had them.                                 *)
StillGiven == IF platform = "windows" THEN given ELSE given \cap {account}

Give ==
    /\ pc = "give"
    /\ \/ account = "default" /\ Goes /\ UNCHANGED owners
       \/ /\ account # "default"
          /\ \/ Goes /\ given' = StillGiven \cup {account}
             \/ GoesTo("give") /\ given' = StillGiven
          /\ tried' = tried \cup {account}
       \/ account # "default" /\ Fails /\ UNCHANGED owners
    /\ UNCHANGED <<fileVars, identity, settled, enabled, loaded, running,
                   runDaemon, callVars, faults>>

------------------------------------------------------------------------------
(* Mutant of Create: a service that is there already is refused.           *)
Create_Once ==
    /\ pc = "create"
    /\ IF identity = "none"
       THEN /\ Goes /\ enabled' = TRUE /\ loaded' = account
            /\ identity' = account /\ settled' = FALSE
       ELSE Refused /\ UNCHANGED <<identity, settled, enabled, loaded>>
    /\ UNCHANGED <<fileVars, running, owners, runDaemon, callVars, faults>>

(* Windows.  sc.exe create registers it to start with the machine; where   *)
(* it is there already (1073) it stays as it is, its account too.          *)
Create ==
    /\ pc = "create"
    /\ \/ /\ Goes /\ enabled' = TRUE
          /\ IF identity = "none"
             THEN identity' = account /\ loaded' = account /\ settled' = FALSE
             ELSE UNCHANGED <<identity, loaded, settled>>
       \/ Fails /\ UNCHANGED <<identity, settled, enabled, loaded>>
    /\ UNCHANGED <<fileVars, running, owners, runDaemon, callVars, faults>>

Settings ==
    /\ pc = "settings"
    /\ \/ Goes /\ settled' = TRUE
       \/ Fails /\ settled' = settled
    /\ UNCHANGED <<fileVars, identity, enabled, loaded, running, owners,
                   runDaemon, callVars, faults>>

(* A service that still drains refuses to start.                           *)
StartService ==
    /\ pc = "start"
    /\ \/ running # "draining" /\ Goes /\ running' = identity
       \/ running = "draining" /\ Refused /\ running' = running
       \/ Fails /\ running' = running
    /\ UNCHANGED <<fileVars, identity, settled, enabled, loaded, owners,
                   runDaemon, callVars, faults>>

(* Linux.  The unit is written over whatever unit was there: made empty,   *)
(* then written.                                                           *)
WriteUnit ==
    /\ pc = "unit"
    /\ \/ identity # "torn" /\ GoesTo("unit") /\ identity' = "torn" /\ settled' = FALSE
       \/ identity = "torn" /\ Goes /\ identity' = account /\ settled' = TRUE
       \/ Fails /\ UNCHANGED <<identity, settled>>
    /\ UNCHANGED <<fileVars, enabled, loaded, running, owners, runDaemon,
                   callVars, faults>>

Reload ==
    /\ pc = "reload"
    /\ \/ Goes /\ loaded' = identity
       \/ Fails /\ loaded' = loaded
    /\ UNCHANGED <<fileVars, identity, settled, enabled, running, owners,
                   runDaemon, callVars, faults>>

Enable ==
    /\ pc = "enable"
    /\ \/ Goes /\ enabled' = TRUE
       \/ Fails /\ enabled' = enabled
    /\ UNCHANGED <<fileVars, identity, settled, loaded, running, owners,
                   runDaemon, callVars, faults>>

(* A restart starts a stopped unit; one that fails may leave it stopped.   *)
Restart ==
    /\ pc = "restart"
    /\ \/ Goes /\ running' = loaded /\ tried' = {}
       \/ Fails /\ running' \in {running, "no"} /\ tried' = tried
    /\ UNCHANGED <<fileVars, identity, settled, enabled, loaded, given,
                   runDaemon, callVars, faults>>

(* macOS.  First the daemon that makes the endpoints' folder ...           *)
RunPlist ==
    /\ pc = "runPlist"
    /\ \/ /\ runDaemon.there # "torn" /\ GoesTo("runPlist")
          /\ runDaemon' = [runDaemon EXCEPT !.there = "torn"]
       \/ /\ runDaemon.there = "torn" /\ Goes
          /\ runDaemon' = [runDaemon EXCEPT !.there = "whole"]
       \/ Fails /\ runDaemon' = runDaemon
    /\ UNCHANGED <<fileVars, identity, settled, enabled, loaded, running, owners,
                   callVars, faults>>

(* ... put out, a failure ignored, and loaded again; launchctl refuses to  *)
(* load what is loaded.                                                    *)
RunOut ==
    /\ pc = "runOut" /\ Goes
    /\ runDaemon' \in {runDaemon, [runDaemon EXCEPT !.loaded = FALSE]}
    /\ UNCHANGED <<fileVars, identity, settled, enabled, loaded, running, owners,
                   callVars, faults>>

RunIn ==
    /\ pc = "runIn"
    /\ \/ /\ ~runDaemon.loaded /\ Goes
          /\ runDaemon' = [runDaemon EXCEPT !.loaded = TRUE]
       \/ runDaemon.loaded /\ Refused /\ runDaemon' = runDaemon
       \/ Fails /\ runDaemon' = runDaemon
    /\ UNCHANGED <<fileVars, identity, settled, enabled, loaded, running, owners,
                   callVars, faults>>

(* Then the node's own, which the machine loads when it starts.            *)
WritePlist ==
    /\ pc = "plist"
    /\ \/ /\ identity # "torn" /\ GoesTo("plist")
          /\ identity' = "torn" /\ settled' = FALSE /\ enabled' = enabled
       \/ /\ identity = "torn" /\ Goes
          /\ identity' = account /\ settled' = TRUE /\ enabled' = TRUE
       \/ Fails /\ UNCHANGED <<identity, settled, enabled>>
    /\ UNCHANGED <<fileVars, loaded, running, owners, runDaemon, callVars, faults>>

(* An upgrade finds the daemon loaded: it is put out, and a failure to is  *)
(* ignored.                                                                *)
Out ==
    /\ pc = "out" /\ Goes
    /\ \/ loaded' = "none" /\ running' = "no"
       \/ loaded # "none" /\ UNCHANGED <<loaded, running>>
    /\ UNCHANGED <<fileVars, identity, settled, enabled, owners, runDaemon,
                   callVars, faults>>

In ==
    /\ pc = "in"
    /\ \/ loaded = "none" /\ Goes /\ loaded' = identity /\ running' = identity
                          /\ tried' = {}
       \/ loaded # "none" /\ Refused /\ UNCHANGED <<loaded, running, tried>>
       \/ Fails /\ UNCHANGED <<loaded, running, tried>>
    /\ UNCHANGED <<fileVars, identity, settled, enabled, given, runDaemon,
                   callVars, faults>>

------------------------------------------------------------------------------
(* --uninstall reads the node's configuration for the service's name.      *)
Read ==
    /\ pc = "read"
    /\ IF node \in {"none", "torn"} THEN Refused ELSE Goes \/ Fails
    /\ UNCHANGED <<fileVars, managerVars, callVars, faults>>

(* Windows: open_service, then its state.                                  *)
Open ==
    /\ pc = "open"
    /\ \/ identity = "none" /\ Ends("nothing")
       \/ identity # "none" /\ running = "no" /\ GoesTo("delete")
       \/ identity # "none" /\ running # "no" /\ Goes
       \/ Fails
    /\ UNCHANGED <<fileVars, managerVars, callVars, faults>>

(* Mutant of StopService: the stop is asked and the drain not waited for.  *)
StopService_Unwaited ==
    /\ pc = "stop" /\ GoesTo("delete") /\ running' = "draining"
    /\ UNCHANGED <<fileVars, identity, settled, enabled, loaded, owners,
                   runDaemon, callVars, faults>>

(* The stop is asked; a service that drains already may refuse to be.      *)
StopService ==
    /\ pc = "stop"
    /\ \/ Goes /\ running' = IF running \in Account THEN "draining" ELSE running
       \/ running = "draining" /\ Refused /\ running' = running
       \/ Fails /\ running' = running
    /\ UNCHANGED <<fileVars, identity, settled, enabled, loaded, owners,
                   runDaemon, callVars, faults>>

(* Polled until it stopped, or until the drain took 60 s.                  *)
Drained ==
    /\ pc = "drained"
    /\ \/ running = "no" /\ Goes
       \/ running # "no" /\ Refused
    /\ UNCHANGED <<fileVars, managerVars, callVars, faults>>

Delete ==
    /\ pc = "delete"
    /\ \/ /\ Goes /\ identity' = "none" /\ settled' = FALSE
          /\ enabled' = FALSE /\ loaded' = "none"
       \/ Fails /\ UNCHANGED <<identity, settled, enabled, loaded>>
    /\ UNCHANGED <<fileVars, running, owners, runDaemon, callVars, faults>>

(* Linux and macOS: the unit, or the plist, is there or nothing is.        *)
Exists ==
    /\ pc = "exists"
    /\ IF identity = "none" THEN Ends("nothing") ELSE Goes
    /\ UNCHANGED <<fileVars, managerVars, callVars, faults>>

(* systemctl disable --now stops it, waiting for the drain; it may refuse  *)
(* a unit it cannot read.                                                  *)
Disable ==
    /\ pc = "disable"
    /\ \/ identity = "torn" /\ Refused /\ UNCHANGED <<enabled, running>>
       \/ Goes /\ enabled' = FALSE /\ running' = "no"
       \/ Fails /\ enabled' \in {enabled, FALSE} /\ running' = running
    /\ UNCHANGED <<fileVars, identity, settled, loaded, owners, runDaemon,
                   callVars, faults>>

(* launchctl bootout, which refuses a daemon that is not loaded.           *)
Bootout ==
    /\ pc = "bootout"
    /\ \/ loaded # "none" /\ Goes /\ loaded' = "none" /\ running' = "no"
       \/ loaded = "none" /\ Refused /\ UNCHANGED <<loaded, running>>
       \/ Fails /\ UNCHANGED <<loaded, running>>
    /\ UNCHANGED <<fileVars, identity, settled, enabled, owners, runDaemon,
                   callVars, faults>>

Remove ==
    /\ pc = "remove"
    /\ \/ /\ Goes /\ identity' = "none" /\ settled' = FALSE
          /\ enabled' = FALSE
       \/ Fails /\ UNCHANGED <<identity, settled, enabled>>
    /\ UNCHANGED <<fileVars, loaded, running, owners, runDaemon, callVars, faults>>

RunRemove ==
    /\ pc = "runRemove" /\ Goes
    /\ runDaemon' \in {runDaemon, [runDaemon EXCEPT !.there = "no"]}
    /\ UNCHANGED <<fileVars, identity, settled, enabled, loaded, running, owners,
                   callVars, faults>>

------------------------------------------------------------------------------
(* The service, asked to stop, has drained.                                *)
Drain ==
    /\ running = "draining" /\ running' = "no"
    /\ UNCHANGED <<fileVars, identity, settled, enabled, loaded, owners,
                   runDaemon, pc, callVars, outcome, failed, faults>>

Fault == faults < MaxFaults /\ faults' = faults + 1

(* The program is killed.                                                  *)
Kill ==
    /\ Fault /\ pc # "idle" /\ pc' = "idle" /\ outcome' = "killed"
    /\ UNCHANGED <<fileVars, managerVars, callVars, failed>>

(* The machine restarts: the manager loads what is on its disk, launchd    *)
(* only what it can read, and starts what starts with the machine.         *)
Reboot ==
    /\ Fault
    /\ pc' = "idle" /\ outcome' = IF pc = "idle" THEN outcome ELSE "killed"
    /\ loaded' = IF platform = "macos" /\ identity = "torn" THEN "none" ELSE identity
    /\ running' = IF identity \in Account /\ enabled THEN identity ELSE "no"
    /\ runDaemon' = [runDaemon EXCEPT !.loaded = runDaemon.there = "whole"]
    /\ UNCHANGED <<fileVars, identity, settled, enabled, owners, callVars, failed>>

(* An operator puts a whole file where none, or a torn one, is; the call   *)
(* under way may have looked for it before.                                *)
Deploy(file) ==
    /\ Fault
    /\ \/ /\ file = "node" /\ node \in {"none", "torn"} /\ pc # "writeNode"
          /\ node' = "operator" /\ cluster' = cluster
          /\ late' = IF pc \in {"lookCluster", "starter", "writeCluster", "slice"}
                     THEN late \cup {file} ELSE late
       \/ /\ file = "cluster" /\ cluster \in {"none", "torn"} /\ pc # "writeCluster"
          /\ cluster' = "operator" /\ node' = node
          /\ late' = IF pc = "starter" THEN late \cup {file} ELSE late
    /\ UNCHANGED <<layout, audit, managerVars, platform, mode, account, calls,
                   pc, outcome, failed>>

Program ==
    \/ Look \/ LookCluster \/ Starter \/ WriteCluster \/ Slice \/ WriteNode
    \/ Layout \/ Define \/ Give \/ Create \/ Settings \/ StartService
    \/ WriteUnit \/ Reload \/ Enable \/ Restart
    \/ RunPlist \/ RunOut \/ RunIn \/ WritePlist \/ Out \/ In
    \/ Read \/ Open \/ StopService \/ Drained \/ Delete
    \/ Exists \/ Disable \/ Bootout \/ Remove \/ RunRemove

Next ==
    \/ \E m \in {"install", "uninstall"}, a \in Account : Call(m, a)
    \/ Program \/ Drain \/ Kill \/ Reboot
    \/ \E file \in {"cluster", "node"} : Deploy(file)

Spec == Init /\ [][Next]_vars

------------------------------------------------------------------------------
(* Type invariant.                                                         *)
TypeOK ==
    /\ platform \in Platform
    /\ cluster \in {"none", "torn", "starter", "operator"}
    /\ node \in {"none", "torn", "sliced", "operator"}
    /\ layout \in BOOLEAN /\ audit \in BOOLEAN
    /\ identity \in Account \cup {"none", "torn"}
    /\ settled \in BOOLEAN /\ enabled \in BOOLEAN
    /\ loaded \in Account \cup {"none", "torn"}
    /\ running \in Account \cup {"no", "draining"}
    /\ given \subseteq Account /\ tried \subseteq Account
    /\ runDaemon \in [there : {"no", "torn", "whole"}, loaded : BOOLEAN]
    /\ mode \in {"install", "uninstall"} /\ account \in Account
    /\ outcome \in {"none", "ok", "nothing", "refused", "killed"}
    /\ failed \in BOOLEAN /\ late \subseteq {"cluster", "node"}
    /\ calls \in 0..MaxCalls /\ faults \in 0..MaxFaults
    /\ pc = "idle" \/ \E i \in DOMAIN Script : Script[i] = pc

(* No service is registered over a half-made node: whenever a definition   *)
(* is with the manager its configuration is whole and its folders are      *)
(* there, whatever was killed or failed on the way (install.rs installed:  *)
(* everything is laid out and read before register).                       *)
RegisteredIsLaidOut ==
    identity # "none" => node \in {"sliced", "operator"} /\ layout /\ audit

(* The types, a service that only ever runs or starts with the machine     *)
(* while one is registered, and RegisteredIsLaidOut.                       *)
InstallInv ==
    /\ TypeOK
    /\ running \in Account => identity # "none"
    /\ RegisteredIsLaidOut

(* A service runs as an account of its own only over folders it was given  *)
(* (account.rs: given before the unit starts), or that were taken from it  *)
(* for another account by an install that has not started the service      *)
(* since: chown comes before the unit, so an install that ends there       *)
(* leaves the earlier account's service over the other's folders, and a    *)
(* restart of the machine starts it so.  Not on Windows, where the account *)
(* is there only once the service is registered to start with the machine. *)
RunsGiven ==
    (platform # "windows" /\ running \in Account \ {"default"}) =>
        running \in given \/ tried \ {running} # {}

(* An install that said OK left a node that runs by the definition that is *)
(* on the machine and starts with it, and is told where its audit goes; on *)
(* Linux and macOS as the account asked for, which has its folders         *)
(* (install.rs register).                                                  *)
InstalledRuns ==
    (pc = "idle" /\ mode = "install" /\ outcome = "ok") =>
        /\ running \in Account /\ running = identity /\ loaded = identity
        /\ enabled /\ settled
        /\ platform # "windows" => /\ identity = account
                                   /\ account \in given \cup {"default"}

(* An uninstall that said OK, or that there was nothing, left no service:  *)
(* none registered, none that starts with the machine, none running        *)
(* (install.rs deregister).                                                *)
UninstalledIsGone ==
    (pc = "idle" /\ mode = "uninstall" /\ outcome \in {"ok", "nothing"}) =>
        identity = "none" /\ ~enabled /\ running = "no"

(* A call is refused only because a step failed of itself or for one of    *)
(* these leftovers: a configuration or a unit half written, no             *)
(* configuration to uninstall by, a Windows service that still drains, and *)
(* launchd's daemons - one that is not loaded cannot be put out, and one   *)
(* that could not be put out cannot be loaded.  Whatever else an           *)
(* interrupted call left refuses no later one (install.rs register,        *)
(* deregister).                                                            *)
RefusedForCause ==
    [][(outcome # "refused" /\ outcome' = "refused" /\ ~failed') =>
            \/ node = "torn" \/ running = "draining"
            \/ mode = "install" /\ cluster = "torn"
            \/ mode = "uninstall" /\ (node = "none" \/ identity = "torn")
            \/ platform = "macos" /\ mode = "uninstall" /\ loaded = "none"
            \/ platform = "macos" /\ pc \in {"runIn", "in"}]_vars

(* A configuration there when an install looks for it, the operator's or   *)
(* an earlier install's, is never written over, and an uninstall deletes   *)
(* none (install.rs installed, uninstalled).  One put there between the    *)
(* look and the write is not kept: the two are separate steps.             *)
ConfigurationKept ==
    [][/\ cluster \in {"starter", "operator"} /\ "cluster" \notin late
            => cluster' = cluster
       /\ node \in {"sliced", "operator"} /\ "node" \notin late
            => node' = node]_vars
==============================================================================
