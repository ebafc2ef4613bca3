# Xmip: a TLA+ verification project

This directory holds TLA+ models of the parts of this repository that keep
state and race with each other, the TLC configurations that check them, and
TLAPS proofs of what matters most about the service. `PROJECT.json` maps every
definition to the lines it models and lists the runs, hazards and theorems.

Run a configuration with `tlc -config <cfg> <module>`, check a proof module with
`tlapm <module>.tla`.

## 1. Inventory

Xmip is an integration platform. This repository is its superproject: the
service a node runs as (`.src/service`, Rust), the operators' and maintainers'
module (`Xmip`, PowerShell), deployment, documents, and the platform's modules
as git submodules, which are empty here.

| Component | State | Operations | Interacts with | Hard about it | Correct when |
|---|---|---|---|---|---|
| Service lifecycle (`run.rs`, `orders.rs`, `console.rs`, `control_manager.rs`) | the node, its listener, watch and declaration; the channel `told`; what the manager was told | start with eight steps each of which may refuse, look for orders, hear a burst, publish, drain | watch thread, operate listener thread, console or Service Control Manager thread, all through one channel | lost wake-ups, bursts, racing stops, early returns | no order or act is forgotten, a refused start leaves nothing, the first stop is named, the manager hears the truth |
| Publication (`publication.rs`) | when last written, since when failing, whether audited | publish, stopped, due, next | the file's readers, who may hold it | three clocks, retries | asks on, is never stale, audits once, ends |
| Install (`install.rs`, `account.rs`, `definition.rs`) | configuration files, folders, the registered service, its account's grants | install, uninstall, on three platforms | service managers, reboots | a crash between any two of a dozen steps | what is registered is whole, an OK is true, leftovers never block |
| Landing (`Publish-XmipChange.ps1` and what it calls) | every repository's files, commits, branch, what origin has | verify, push, submit, pin | git, origin, the operator editing meanwhile | many repositories pushed one by one, interrupted anywhere | origin's platform can always be checked out; nothing untested or unverified lands |
| Estate test run (`Start-XmipEstateSuite.ps1`, ...) | a record file per run, its process and id | start, list, stop, complete | several consoles and the detached run, over files without locks | ids used again, reading then asking | verdicts stand, listings are true, stops are whole |
| Essentials roll (`Start-XmipEssentialsRoll.ps1`, `Stop-XmipTest.ps1`, ...) | build record, run record, roll, cluster and node processes | start, build, spawn, list, stop | consoles, detached build, the process tree that respawns nodes | check-then-act over minutes, trees that grow while being ended | one roll per cluster, a stop leaves nothing |
| Process (`main.rs`, `arguments.rs`, `console.rs`, `control_manager.rs`, `readiness.rs`, `slice.rs`) | the line read so far, the handlers, the manager's last report, the exit code put by, where an authority is kept | read the line, run a mode, report, exit | the service manager, which stops and restarts it; signals at any instant | a stop before, during and after the start; reports that fail; fourteen parameters in any order | the line means what the usage text says, the exit code is true, a stop the manager can send ends it |
| What a node listens on (`listening.rs`, `authority.rs`, `operated` and `authorized` of `run.rs`, `built.rs`) | the addresses held, the configuration read twice, what `--listening` said, what the build links | start, serve the authority, list, admit | the environment's firewall, which opens what `--listening` says; other processes' addresses | two programs read one file for themselves, while it is replaced | what is said is what is held, in every build the strongest claim counts |
| Choice of tests, operation web, composition, deployment, prerequisites (PowerShell) | records, images, repositories, machines | see `PROJECT.json` | | partial failure | planned below |
| Packages, maps and pages, reporting, database, documents | | | | text and I/O | not modelled |

The components interact as follows. `serve` (run.rs) owns a `Publisher`; the
watch, the operate listener and the stop handler only send on `told`. `install`
registers with the manager the service that `serve` is. Estate runs and rolls are both
listed by `Get-XmipTestStatus` and ended by `Stop-XmipTest`; what they share is
record files. The firewall follows `--listening`, which no start consults. Landing is separate from all of these.

`PROJECT.json` "hazards" lists, at its line, each thing here that is hard to
test, with the properties that would catch it going wrong.

## 2. Modules

### Service, ServicePromise

One process of `xmip-service` and its restarts. `pc` is where the service's
thread is within `serve`/`served`/`hear`; `told` is the channel; `running`,
`operate`, `watching`, `declared` are what the run holds; `reported` is what the
manager was last told; `dir`, `batch`, `handled` are orders in the directory, in
hand and answered; `notices` the changes the watch has seen and not told, `telling` the acts
the listener has taken and not told; `version` the node's state, raised by
every act and applied order; `board`, `file`, `last`, `text` what is published and
about to be. One action per step between which another thread can run:
`TakeStopHandler`, `Start`, `Operate`, `Authorize`, `Watch`, `Declare` and `Ready`
are the start (each may `Refuse`), `Take`, `Apply`, `AllApplied`, `Due`, `Write` a
round, `Hear` and `HearMore` the burst, `Stopping`, `Drain`, `Stopped` the end; `Stop`,
`Leave`, `Notify`, `Act`, `TellAct`, `StartAgain` are the other threads and the
world. The drain, the node and the contents of orders are abstract.

`ServicePromise` is the abstract specification: starting, serving, draining,
stopped or refused; a queue of orders answered oldest first. `Service!Promise`
is the refinement mapping (`queue` is the batch in hand followed by the
directory).

### Arguments, Program

`Arguments` reads one line a word at a time: `Value`, `Switched`, `Unknown` are the
loop of `parse`, `Settle` what follows it. Beside it stands a reference that looks at
a whole line: `WellFormed`, `Asks`, `Proper` over `Takes` and `Needs`, the usage text's
table. A value is abstract but for the two purposes and for lists that name nobody.

`Program` extends it with the process: `Dispatch` is `main`, `Printing` the modes that
print and end, `Sliced` and `Sign` the steps of `--slice`, `SetHandler` the console's
start, `StartDispatcher` and `Register` Windows', `Ready`, `Stopping`, `Drained` the three
moments of `run::serve` the manager is told of. The end on Windows is three steps of two threads: `Ended`
puts the code by, `TellStopped` reports Stopped, and `Returned`, the dispatcher's, ends the process once the manager
has heard that, the service's main returned or not; where it has not heard, the dispatcher never returns. The
run itself is an instance of `ServicePromise`, which `Service` is shown to refine, so
`Program` composes the process with what a run promises rather than with its threads.
`report` and `notify` may fail at every call. `Ask`, `Deliver`, `Crash` and `Again` are
the operator and the service manager; a signal that comes before its handler kills.

### Built, Listening

`Built` has one operator per function of `built.rs` over a build, the set of its features
and its platform. `Listening` has `listening` (the list `--listening` prints) and the
start that binds: `Start` (the runtime's, external, by its own reading of the
document: `Started`), `Operate`, `Authorize` (which reads again), `Publish`, each refused
where an address is taken. `Edit` places another slice at any time, `Others` takes and
leaves addresses, `Ask` is `--listening`, `Arrive` an arrival at the gates. A document is
what `start::read` finds, which keeps to the slice accepted last where a file does
not verify (ADR-0031, amendment 2026-11-06). Each filter of the code is `Those`, what a
sequence has at the positions it names; `Lines` keeps a port where it is named first, and says it over TCP.
A socket has a protocol and an address: a UDP Location's clashes with no TCP one, and a Location at port 0 is held at a
port the system picks. Whether a Location waits is a field of it, as its transport is asked of each
(`LinkedTransport::waits`).

### Publisher

The publisher's times, in ticks. `now` moves while the thread waits and by up to
`Slip` within a write, where `elapsed()` is read three times. `Written` and
`Refused` are the two outcomes of `write`; `due`, `next` are the code's; `Look`, `Told`,
`Timeout`, `Stop`, `Drained`, `StoppedWrite`, `Slept` the loop around it.

### Install

`Script` is the sequence of steps of the call in hand on `platform`, `pc` the step
about to be taken; each step has its action. Any step may fail (`Fails`), the
process may be killed (`Kill`), the machine may restart (`Reboot`, which starts
what is registered to start); a draining service ends by itself (`Drain`). A
write may be torn by a kill: the configurations, the unit and the two plists are each made empty and then
written. `given` has the account the folders belong to: `Give` is `chown -R`, which takes them from the one before
(on Windows `icacls /grant`, which adds). `tried` is history, the accounts given them since an install last started the
service. A failure that the code ignores (`launchctl bootout` in an install) leaves the daemon loaded, and
the `bootstrap` after it is refused. The world starts with or without an operator's
configuration, and an operator may put one there at any time (`Deploy`); `late` is history, the
files put there after the call in hand had looked for them.

### Landing

`log[r]` is a repository's commits, each a function from its submodules to the
commit it pins; `origin[r]` how many of them origin has; `files[r]` its
uncommitted changes by kind; `branch[r]` what is checked out. `Publish` is the survey and
its refusals; `Verify`, `VerifyRoot` test one tree; `NextPhase` moves between
verification, pushing what is ahead, submitting, nested parents and the platform; `Submit`,
`Push`, `Said` are one repository's commit, push and report. `Builds` is what Cargo builds a module on, `Needs` adds its
tests' own dependencies, `References` is what its .NET projects name: the order is by the first alone, the consumers
are by the other two (`Uses`). `Edit`, `HandCommit`,
`Switch` are the operator, `Interrupted` is Ctrl+C. `tested` and `swept` are
history: what was tested, and what was committed untested; `late` what was edited after the run verified it.

### EstateRun

`record[r]` is what a run's file says, `proc[r]` where its pwsh is, `pid`/`table`
the operating system's ids, handed out again by `Reuse` and `Launch`; `con[c]` is a
console's command in progress. All records are read (`Read`), then each run's process is asked for
(`Judge`): the one with its id is taken for it where it is a pwsh begun within five seconds of the recorded start, which the
constant `Alike[r]` lists (in the run, both runs are alike and one other process is not). Launching and recording the start are two steps too, as are picking a run and ending it.

### Roll

`build`, `brec`, `roll`, `rrec`, `clus`, `node` are the detached build, its record,
the roll, its record, the cluster process and its nodes, per attempt to start one
cluster. Every question asked of a record and every process spawned, recorded
or ended is an action; the two sweeps a start begins with are two. A stop that is refused goes on to the next run of its
list (`NextOf`). `whole`, `missed` and `raced` are history for the properties: `raced` has the
pairs of starts of which one asked between the other's asking and its record.
The cluster respawns nodes at any time; a node declares itself after it is up. `image` is
whether the cluster's images are there: `Link` makes them, the end of the roll and `RemoveImages`
take them.

### Proof modules

`ServiceProofs`, `PublisherProofs`, `EstateRunProofs`, `InstallProofs`, `RollProofs`, `LandingProofs`,
`ProgramProofs` (which is about Arguments as well) and `ListeningProofs` (which is about Built as well) extend the modules they are about. `MC*` modules
add only constants' values and symmetry sets.

## 3. Runs

| Run | Checks | Bounds |
|---|---|---|
| `service_signal` | `ServiceInv`, `NoLostOrder`, `NoLostAct`, `EndsClean` | 2 orders (a burst and an order), 2 stops from 2 stoppers (a race), 1 act; 0.77 M states |
| `service_scm` | `FileNeverBack`, `StopEnds`, `OrderAnswered`, `ChangeShown`, `PromiseKept` | 1 order, 1 stop, 1 act, 2 runs of the service (a restart); 87 k states |
| `publisher` | `PublisherInv`, `KeepsAsking`, `NeverStale`, `FailsInTime`, `StopsInTime` | a round of 4, a retry of 1, writes of up to 2, 24 ticks: six rounds, enough to fail, be audited and recover; 144 k states |
| `landing` | `EstateCheckable`, `SuccessIsWhole` | a platform, a host with a nested module, a user of both, a new module; 4 edits, 3 runs, the operator waiting; 491 k states |
| `landing_all` | `LandingInv`, `DependenciesLandFirst`, `ConsumersChecked`, `TestedFirst` | the same estate, the host not verifiable, every switch, kind of edit and branch, 2 edits before or during 1 run; 782 k states |
| `install` | `RunsGiven`, `InstalledRuns`, `InstallInv`, `UninstalledIsGone`, `RefusedForCause`, `ConfigurationKept` | the three platforms, 3 calls, 2 faults (a kill, a reboot or a file put there), without `--account` and with two accounts; 298 k states |
| `program` | `ReadsRight`, `ExitTells`, `ReportsForward`, `AskedEnds` | every line of up to 3 of 18 items and the two longest of the usage text with 2 more put in anywhere, 3 platforms, 2 processes; 462 k states |
| `listening` | `FirewallFits`, `CredentialFirst` | 60 configurations over sockets that clash or not, UDP and port 0 among them, 4 builds, 5 kinds of arrival, 1 edit; 1.1 M states |
| `estate_run` | `EstateInv`, `StoppedLeavesNothing`, `RunningKeepsRecord`, `VerdictStands`, `ListedAlive` | 2 consoles, 2 runs, one other process, 2 ids; 2.9 M states |
| `roll` | `OneRollPerCluster`, `RollInv`, `StoppedTree` | two consoles that start, one of which stops too, 2 starts, 1 node place, 1 fault; 3.6 M states |

Why these bounds: every race above is between two actors over one object, or is a
step interrupted and met by one later call, and each instance has two of
each actor and one more call than the fault needs. The mutants in `PROJECT.json` show that
each property is violated within its run's bounds by a plausible change of the code.

`CHECK_DEADLOCK FALSE` is set for every run but `listening`: each of those models may come to
rest (a service or a process ended, edits or calls used up, every run over).

`ServiceInv` and `PublisherInv` are conjunctions that hold the smaller statements the proofs give
names to: `OldestFirst`, `FirstStopNamed`, `StopShown`, and at most one audit of a lasting refusal.

Where the code does not keep a promise outright, the property says exactly how far it does and the exception is part of it, so
that a second way to break the promise would be found: `OneRollPerCluster` allows two rolls only where the starts raced
or a record was lost, `TestedFirst` only files edited after the run verified them or of a skipped mounting
module, `RunsGiven` only folders taken for another account since the last start, `AskedEnds` only a Windows process whose
Running or Stopped the manager did not hear (`Unreached`; a lost StartPending or StopPending is no excuse), `FirewallFits` only UDP and
port 0, `RefusedForCause` only the leftovers it lists. Each of these cases happens in its run; the next section says what each is
in the code.

### Fairness

`service_scm` assumes weak fairness of the service's thread (`Thread`), of the watch
(`Notify`) and of the listener's telling (`TellAct`), which are operating-system
threads that wait for nothing else: `recv_timeout` returns, a send on an
unbounded channel does not block, and a write of a publication ends. Nothing is
assumed of operators, acts, stops or restarts.

`program` assumes weak fairness of the process's thread (`Main`), which waits only for a stop once
it serves, and of the manager's sending the stop it was asked for (`Deliver`); not of
the asking, of a crash or of a restart. The other models state safety only.

### Disagreements between the code and what is said of it

Two are runs of their own that TLC ends with a counterexample; `PROJECT.json`
"findings" quotes both sides, and of two of the documents' statements that a passing run's property contradicts.

| Run | Property | What it shows |
|---|---|---|
| `failure_audited` | `FailureAudited` | `since.elapsed()` is read three times (publication.rs:173-188): a failure may be kept as audited and never audited |
| `landing_pin` | `EstateCheckable` | `-Pin` pins a module that is both changed and ahead without pushing it (Publish-XmipChange.ps1:201) |

Of the others, where a definition is named, giving it to TLC as the only property
of the run in brackets shows the counterexample.

- `KillsItsRun` [`estate_run`]: a stop ends whichever process has the run's id by then: the name and
  start time compared when it was listed are not compared again (Stop-XmipTest.ps1:354; 333-335 says
  "that pwsh and everything it started").
- `FailurePushesNothing` (in `LandingInv`) holds, and the help of the command says the opposite: "Each module is tested and landed
  before the next is tested" and "A failure halfway leaves the earlier ones landed and says so"
  (Publish-XmipChange.ps1:57-61; 50-54 gives the reason). The code verifies the whole tree first
  (Publish-XmipChange.ps1:312-337, whose comment says so: "verified whole, then landed whole") and then lands it.
- `DependenciesLandFirst` is about Cargo's dependencies, by which alone Sort-XmipModuleDependency orders
  (Get-XmipDeclaredModule.ps1:338-361). It says of itself "nothing is landed before what it depends on" (299): a .NET
  module may land before a module its projects reference.
- `TestedFirst` allows a file edited after its module was verified: `git add -A` (Submit-XmipModule.ps1:200) takes it, and it
  lands untested.
- `OneRollPerCluster` allows starts that raced: the records are asked, the roll is spawned
  and only then recorded, so two starts that ask in between both roll (Start-XmipEssentialsRollProcess.ps1:49-98;
  Start-XmipEssentialsRoll.ps1:256-258 says two under one name overwrite each other). So does a roll whose
  record could not be written, or whose build died before writing it: the next start does not see it.
- `ImagesNeverTaken` [`roll`]: a stop takes the run record before the images (Stop-XmipTest.ps1:269-279), so a
  build waiting for that record links its images and loses them before its roll or its cluster begins
  (New-XmipEssentialsImage.ps1:161-163 says they are removed once a tree has stopped and before the next starts).
- `NodesOnlyWithSlice` [`program`]: `--nodes ,` names nobody and is taken for no `--nodes`, with any
  mode and without `--bind` (arguments.rs:124-131; 196 says together, and only with `--slice`).
- `AskedEnds` leaves out two cases on Windows, as a report that fails is printed and not sent again (control_manager.rs:110-112).
  Where Running is lost the manager, which last heard StartPending with no control accepted, never sends the stop.
  Where Stopped is lost, or the handler could not be registered and no state is ever reported
  (control_manager.rs:86-94), the service's main has returned and the dispatcher waits for a Stopped that does not come: the
  process stays, and no stop ends it.
- `ConfigurationKept` leaves out a file put there after the install looked: `exists()` and `write` are two
  steps (install.rs:98-111), so an operator's `node.xmip` placed in between is written over.
- A start reads the configuration twice (run.rs:78 and 317); with another slice placed in between the node
  holds the ports of both, which `FirewallFits` says exactly and no one `--listening` does.
- `FirewallFits` leaves closed a Location over UDP, whose port is said over TCP (listening.rs:15-17 says so: "until a transport
  declares the protocol it listens on"), so that the firewall opens the port for TCP alone; and one at port 0, which is not said
  (listening.rs:108-118) and is held at whatever port the system picked.
- `HeardActShown` [`service_signal`]: a stop in the same burst as an act drops the act (run.rs:224),
  and the stopped publication, built from the last one, does not have it (publication.rs:12-16 says an
  act shows in the next publication).
- `AskedAgain` [`publisher`]: a refused write wakes the loop `AGAIN` later, but is asked only when a
  round has passed since the last success (run.rs:202; publication.rs:24-26 says asked again `AGAIN` later).
- `SkippedLeftAlone` [`landing_all`]: a skipped nested parent's own files are committed with its gitlink
  (Publish-XmipPin.ps1:49-56; Publish-XmipChange.ps1:89-90 says it is left alone).
- `PinMovesGitlinks` [`landing_all`]: `-Pin` commits files too (Submit-XmipModule.ps1:200 `git add -A`;
  Publish-XmipChange.ps1:97 says gitlinks and nothing else).
- `EndedWroteNothing` [`estate_run`]: a run that writes its verdict and exits while being listed is listed as
  ended without one (Get-XmipEstateRun.ps1:92-105, against 38-42).
- `NothingOrphaned` [`roll`]: a node not yet declared when its cluster is swept outlives the stop
  (Stop-XmipTestCluster.ps1:62-83; Stop-XmipTest.ps1:19-20 says nothing is orphaned).
- `FailedBuildHasNoRoll` [`roll`]: a build quicker than the recording of its start is listed as FAILED
  while its roll runs (Start-XmipEssentialsBuild.ps1:81-86; Get-XmipEssentialsBuild.ps1:31-32).
- `RefusedForARoll` [`roll`]: a build is refused for a roll that has ended
  (Start-XmipEssentialsRollProcess.ps1:49 removes no stale record; Start-XmipEssentialsRoll.ps1:53-54).
- Get-XmipTestStatus.ps1:91-96 lists the rolls before the builds: a run that turns from one to the other in
  between is in neither list, and a stop leaves it running.
- `RunsGiven` leaves Windows out: `sc.exe create` registers the service to start with the machine before
  `give` runs (install.rs:230-236), so a reboot between the two starts it as an account given nothing
  (account.rs:8-11). The same service keeps its first account when installed again (1073).
- `RunsGiven` allows folders taken for another account: `chown -R` (account.rs:92-97) comes before the unit and the plist, so an
  install as a second account that fails, is killed or meets a reboot there leaves the service registered as the
  first over folders it no longer owns, and running, or started by the reboot. account.rs:8-11 says the account is given what
  the node reads and writes before the unit starts.
- `RefusedForCause` lists what an earlier call may leave that refuses a later one: a configuration or a unit half written; a Windows
  service still draining, which neither starts (install.rs:236) nor, perhaps, stops again; on macOS a daemon that is
  not loaded, as an install ended between its plist and its `bootstrap` leaves it, which `bootout` refuses
  (install.rs:379-386), and one whose `bootout` failed and was ignored, which `bootstrap` refuses (install.rs:267-297).
- `UninstalledIsGone` says nothing of the run-folder daemon on macOS, whose removal may fail and is ignored
  (install.rs:388-395).
- `ListedAlive` allows another pwsh with the run's id begun within five seconds of it (Get-XmipEstateRun.ps1:168-177).

## 4. Proofs

`ServiceProofs` (1649 obligations) proves `Spec => []ServiceInv` for any set of
orders and stoppers and any bounds, and from it `NoLostOrder`, `NoLostAct`, `ReadyIsTrue`,
`EndsClean`, `FirstStopNamed`, `OldestFirst`, `StopShown`, the action property
`FileNeverBack` and the refinement of `ServicePromise!Spec`.

None of these is inductive alone. `ServiceInv` adds: `LifeInv`, which ties what
is held, reported and published to where the thread is (the early returns and `ReadyIsTrue` rest
on it); `ActInv`, `NoLostAct` from the first publication rather than from the report on; `StopInv`,
that the first stop sent is the first stop in the channel until one is heard; `ShownInv`, that
the file shows no more than what is about to replace it, which is why it never
goes back. There is one lemma per conjunct, each split by action, over lemmas about the
elements of a channel that is appended to or taken from.

`PublisherProofs` (233 obligations) proves `Spec => []PublisherInv` and the five bounds for
every round, retry, write time and horizon under `PublisherAssumption`.
`PublisherInv` bounds the thread's wake by the last write, ask, refusal or beginning
(`Bounds`) over the order of those times (`Clock`); a property about `now` alone is not inductive, since what
a wait may last depends on which of them set it.

`EstateRunProofs` (730 obligations) proves `EstateInv`, `StoppedLeavesNothing` and the action
properties `RunningKeepsRecord`, `VerdictStands` and `ListedAlive` for any consoles, runs and process ids. The
inductive invariant `EstateIInv` adds: `Processes`, that an id names the run it was given to while that run
lives; `Records` and `Consoles`, that what a record says, a console has read and a list shows of a run was so
(`Sound`), which is what lets a console act on a record it read some steps ago; and `OneWriter`, that until the
one console that let a run loose has recorded the start nobody has read it or stopped the run. Without the last a stopped
run's record could come back. Which processes pass for a run (`Alike`) is any relation in which it passes for itself.

`InstallProofs` (1305 obligations) proves `InstallInv`, `RunsGiven`, `InstalledRuns`, `UninstalledIsGone`
and the action properties `ConfigurationKept` and `RefusedForCause` on the three platforms, for any accounts and any number of calls,
kills, reboots and files put there. `InstallIInv` says what holds at each step of each script: which steps may be
taken there (`AtStep`, over lemmas that give the step after each step of each platform's script), what of the
files is whole by then (`Files`), what the manager keeps (`Manager`, with `Covered`: an account of its own has its folders or they were given
to another since the last start, which is `RunsGiven` of what is registered as well as of what runs), and what an install or an uninstall has done so far
(`Installing`, `Uninstalling`), each true also of a call that begins on what a killed one left.

`RollProofs` (1761 obligations) proves `OneRollPerCluster`, `RollInv` and `StoppedTree` for any number of
consoles that start and stop, of starts, nodes and faults. `RollIInv` says that a roll, its record and its cluster begin once and in that
order (`Attempts`), and what a stopping console knows of its run at each of its steps (`Consoles`); `Forward`, what no step of anybody
undoes, carries that knowledge over the others' steps. `OneRollPerCluster` speaks of rolls that run and is not inductive:
`Races` says the same of every start from its second question on, its roll spawned or not. A start that goes on found no record; so
each other one that is past its question has not recorded its roll yet, and has raced with it, or its record is lost.

`ProgramProofs` (1060 obligations) proves `ReadsRight` for every command line of any length, of the reading by itself
(`ReadSpec`) and of the process (`Spec`), and `ExitTells` and `ReportsForward` of the process on every platform.
`ReadIInv` says of the words read so far what the reference says of a whole line: each is in its place (`Placed`), each flag has the
value it was last given (`Valued`), the switches are the ones met (`Met`); a word out of place is
one whatever follows, so a refusal half way through is the whole line's. `ProgramIInv` adds where the node's run is
(`Lived`) and what the manager may have heard (`Heard`) by where the program is, and which lines lead there (`Led`): Stopped is heard
only after the code was put by, which is why the dispatcher may return first.

`LandingProofs` (3655 obligations) proves two results of different reach, for any tree of modules of any depth and any dependencies,
cyclic ones included. Whatever the switches, and whatever the operator edits, commits and switches during a run, `LandingInv`,
`DependenciesLandFirst`, `ConsumersChecked` and `TestedFirst` hold: `IInv` says what each phase has to do (`PhaseOK`), that all that was found is
verified, skipped or still to verify (`FoundOK`), and that what is verified, to do and landed is one list in which nothing comes
before what Cargo builds it on (`OrderOK`). `TestedOK` adds that from the end of verification on every file there is was tested, is
late or is of a skipped module.

`EstateCheckable` and `SuccessIsWhole` are proved under `Calm`: the operator waits for the run, `-Pin` is not
used, and nothing can be skipped. Each part is needed. With `-Pin` the run `landing_pin` shows a clone that cannot be checked out; with
`Meanwhile = TRUE` in the `landing` run both are violated (a commit made by hand after the
survey is pinned and not pushed); with
a module taken out of `Verifiable` there a skipped module that is also ahead is pinned and not pushed. `CalmInv` follows what
origin lacks through the phases: it was found (`KnownOK`), then there is something to commit under it (`Rises`) and that is in
the list of what is to submit (`SubmitOK`) or, deepest first, of the nested parents to pin (`NestedOK`), so that when the platform is pinned all
under it is whole (`PinOK`). A commit moves the lack up to the repository that mounts it, which comes later in
the list (`DeepRest`). For `EstateCheckable` the invariant is that there is a set of commits on origin that has the
platform's main and whatever a member pins (`Cloneable`); it is the same set until the platform is pushed.

`ListeningProofs` (1488 obligations) proves `FirewallFits` and `CredentialFirst` for every configuration (any number of Locations
and applications, any addresses and ports), every build and any number of edits and of other processes. `FirewallFits` says nothing of a node
that is still starting, and nothing of what it has bound so far. `IInv` adds what a step needs: the documents the node
read and that the first could be started (`ReadOK`), what each call of a start has bound of them (`BoundOK`: `StartHeld`,
`OperateHeld`, `ServeHeld`, `ListHeld`), and that what was said of a document is still to be said (`SaidOK`, as no step
changes the build). That the two readings meet is a fact about the operators, not about the steps: the Locations `--listening` lists
are those the runtime starts (`ReceivesStarted`); a document that can be started has none whose technology is unknown, so
what waits for the one waits for the other (`StartableWaits`); and what `Lines` keeps has each named port in
one line (`LinesSay`, where the first position of a port is the least of its positions and the lines are counted by a
bijection to the ports). The ports held are those of the lines (`PortsHeld`), whichever reading each
is of; which of them a line opens is then a matter of the protocol. `CredentialFirst` is inductive
by itself; it rests on the gate's list being in the order of worth and on `Those` keeping that order twice, as the build leaves
parts out and as the arrival presents some (`AskedInOrder`, `FirstRead`).

What a recursive function computes is proved by induction in its set form: a set of numbers that has 0 and with each number the
next has them all (`EveryNat`, from the well-foundedness of the numbers), and a function defined in stages exists
(`Stages`). From these follow what `Only`, `Ordered`, `NestedParents`, `Users` and `Asked` return, and `Those` of Built. `Under` and `Consumers`
are least closed sets, which need no induction.

The proofs rest on the modules' ASSUMEs alone: that the values which stand for nothing differ from those which stand for something,
that bounds are numbers, for Arguments, that the kinds of words are disjoint, for Listening, that a document
has the fields the code reads, each of its type, and, for Landing, that .gitmodules names a module once and a
parent before what it mounts. No theorem bounds the sets of
the constants.

Only model-checked are the leads-to properties `StopEnds`, `OrderAnswered`, `ChangeShown`, `AskedEnds` and the fair half of
`PromiseKept`: liveness under fairness is beyond the prover. Every invariant a passing run checks, and every action property,
is stated by a theorem, the two of `Calm` under the condition named above.

## 5. What is not modelled, and why

`PROJECT.json` lists every component. Text (formatting, parsing of TOML, units,
plists, maps, pages, packages) is left out: no property here is about it. The
contents of git submodules are not in the repository. Within what is modelled:
the node is a version number, a drain ends, a test passes or fails, cargo builds or does not. Each
address is a host and a port, each build a set of features, and what the runtime binds, verifies and
admits is modelled from what `.src/service` hands it. `Roll` has one cluster: several in one stop, and the
five seconds a node is given to leave, are left out. The tests of `.src/test` and the modules' own `tests` are
read for what they say of the code, and not modelled.

## 6. Plan

Done: Service, ServicePromise, Publisher, Install, EstateRun, Roll with its images, Arguments and Program over
ServicePromise, Landing, Built and Listening, all with proofs. Every operation of `.src/service` that
changes state is now an action of a module.

Next, in this order:

1. Roll: several clusters in one stop, choice of targets (`Select-XmipTestRoll`,
   `Resolve-XmipEssentialsChoice`, `Start-XmipTestNode`).
2. `OperationWeb`: start, find and stop, with its snapshot and its answering test.
3. `Compose`: `Sync-XmipEstate`, `Invoke-XmipCompose`, `New-XmipRepository`, `Move-XmipSubmodule`
   over Landing's repositories; an abstract `Estate` that both refine (what origin has can always be checked out).
4. `Prerequisite` and `Deploy`: per-machine steps, each failing, run again.
