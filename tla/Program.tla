------------------------------- MODULE Program -------------------------------
(***************************************************************************)
(* The process of xmip-service: its main (main.rs), the modes that print   *)
(* and end (definition.rs, slice.rs, listening.rs, install.rs), and the    *)
(* two that run a node - a console, systemd or launchd through signals     *)
(* (console.rs, readiness.rs), Windows through the Service Control Manager *)
(* (control_manager.rs).  The line is read by module Arguments; a run of   *)
(* the node is what ServicePromise says of it, which module Service        *)
(* implements.  The manager is external: it asks a process to stop and     *)
(* starts a crashed one again.                                             *)
(***************************************************************************)
EXTENDS Arguments

CONSTANTS
    Platform,   \* a subset of {"linux", "macos", "windows"}
    MaxStarts   \* processes started

(* The exit codes, ExitCode::SUCCESS and registration::REFUSED.            *)
SUCCESS == "0"
REFUSED == "2"

ASSUME ProgramAssumption ==
    /\ None \notin {SUCCESS, REFUSED, "killed", "crashed"}
    /\ Platform \subseteq {"linux", "macos", "windows"}
    /\ MaxStarts \in Nat

VARIABLES
    platform,
    pc,         \* where main's thread is, or the service's main on Windows
    code,       \* how the process ended: None, a code, "killed" or "crashed"
    handler,    \* the stop's handler, or the control handler, is taken
    input,      \* a thread waits for the end of the input
    stops,      \* the stops in the channel
    life,       \* the run of the node, as ServicePromise tells it
    served,     \* this process accepted work (history)
    heard,      \* what the manager heard last: [state, code]
    ENDED,      \* control_manager's ENDED: None or a code
    asked,      \* the manager's stop: "no", "asked" or "delivered"
    starts,     \* processes started so far
    kept        \* where a cluster's authority is kept: "beside", "named"

processVars == <<code, handler, input, stops, life, served, ENDED>>
managerVars == <<heard, asked, starts>>
vars == <<lineVars, platform, pc, processVars, managerVars, kept>>

Unheard == [state |-> "nothing", code |-> SUCCESS]

(* One run of the node; the orders it answers are module Service's.        *)
Node == INSTANCE ServicePromise WITH Order <- {}, queue <- <<>>, done <- <<>>

Runs == mode \in {"service", "--console"}
Windows == platform = "windows" /\ mode = "service"

Init ==
    /\ ReadInit
    /\ pc = "main" /\ code = None /\ handler = FALSE /\ input = FALSE
    /\ stops = <<>> /\ life = "starting" /\ served = FALSE /\ ENDED = None
    /\ heard = Unheard
    /\ platform \in Platform /\ asked = "no" /\ starts = 1 /\ kept = {}

------------------------------------------------------------------------------
(* The process ends, its threads and its channel with it.                  *)
Exit(c) ==
    /\ pc' = "exited" /\ code' = c
    /\ handler' = FALSE /\ input' = FALSE /\ stops' = <<>>

(* A report reaches the manager, or it fails, is said on stderr and the    *)
(* run goes on.                                                            *)
report(state, c) ==
    \/ heard' = [state |-> state, code |-> c]
    \/ heard' = heard

(* READY=1 and STOPPING=1 to systemd; a console has nobody to tell and     *)
(* launchd is told nothing.                                                *)
notify(state) ==
    IF platform = "linux" /\ mode = "service" THEN report(state, SUCCESS)
    ELSE heard' = heard

Tell(state) == IF Windows THEN report(state, SUCCESS) ELSE notify(state)

Reading ==
    /\ pc = "main" /\ Read
    /\ UNCHANGED <<platform, pc, processVars, managerVars, kept>>

(* main: a line refused is said and ends the process; a mode is run.       *)
Dispatch ==
    /\ pc = "main" /\ result # "reading"
    /\ IF result = "refused"
       THEN Exit(REFUSED) /\ UNCHANGED <<life, served, ENDED>>
       ELSE /\ pc' = CASE Windows -> "dispatcher"
                       [] Runs /\ ~Windows -> "handler"
                       [] mode = "--slice" -> "read"
                       [] OTHER -> "print"
            /\ UNCHANGED processVars
    /\ UNCHANGED <<lineVars, platform, managerVars, kept>>

(* --definition, --listening, --install and --uninstall: done and said, or *)
(* refused in words.                                                       *)
Printing ==
    /\ pc = "print"
    /\ \E c \in {SUCCESS, REFUSED} : Exit(c)
    /\ UNCHANGED <<lineVars, platform, life, served, ENDED, managerVars, kept>>

(* --slice: the cluster's file is read, its Locations placed where --bind  *)
(* asks for it, the node's part cut out of it, and that signed.            *)
Sliced ==
    /\ pc \in {"read", "place", "cut"}
    /\ \/ /\ \/ pc = "read" /\ pc' = IF Is("--bind") THEN "place" ELSE "cut"
             \/ pc = "place" /\ pc' = "cut"
             \/ pc = "cut" /\ pc' = "sign"
          /\ UNCHANGED processVars
       \/ Exit(REFUSED) /\ UNCHANGED <<life, served, ENDED>>
    /\ UNCHANGED <<lineVars, platform, managerVars, kept>>

Authority == IF Is("--authority") THEN "named" ELSE "beside"

(* ... by the authority kept in --authority, or beside the cluster's file, *)
(* made there where none is.  A signing that fails may have made it.       *)
Sign ==
    /\ pc = "sign"
    /\ \/ Exit(SUCCESS) /\ kept' = kept \cup {Authority}
       \/ Exit(REFUSED) /\ kept' \in {kept, kept \cup {Authority}}
    /\ UNCHANGED <<lineVars, platform, life, served, ENDED, managerVars>>

(* console::run: the stop's handler before the node starts; in a console,  *)
(* for a test, a thread that waits for the input to end.                   *)
SetHandler ==
    /\ pc = "handler"
    /\ \/ /\ pc' = "run" /\ handler' = TRUE
          /\ input' = (mode = "--console" /\ given["--purpose"] = "test")
          /\ UNCHANGED <<code, stops, life, served, ENDED>>
       \/ Exit(REFUSED) /\ UNCHANGED <<life, served, ENDED>>
    /\ UNCHANGED <<lineVars, platform, managerVars, kept>>

(* control_manager::run hands the process to the manager, which calls the  *)
(* service's main.                                                         *)
StartDispatcher ==
    /\ pc = "dispatcher"
    /\ \/ pc' = "register" /\ UNCHANGED processVars
       \/ Exit(REFUSED) /\ UNCHANGED <<life, served, ENDED>>
    /\ UNCHANGED <<lineVars, platform, managerVars, kept>>

(* Mutant of Register: the node is said to run before it was started.      *)
Register_Runs ==
    /\ pc = "register"
    /\ pc' = "run" /\ handler' = TRUE /\ ENDED' = ENDED
    /\ report("Running", SUCCESS)
    /\ UNCHANGED <<lineVars, platform, code, input, stops, life, served,
                   asked, starts, kept>>

(* The control handler; with none the service's main returns, REFUSED, and *)
(* no state is ever reported.                                              *)
Register ==
    /\ pc = "register"
    /\ \/ /\ pc' = "run" /\ handler' = TRUE /\ ENDED' = ENDED
          /\ report("StartPending", SUCCESS)
       \/ /\ pc' = "returned" /\ ENDED' = REFUSED
          /\ UNCHANGED <<handler, heard>>
    /\ UNCHANGED <<lineVars, platform, code, input, stops, life, served,
                   asked, starts, kept>>

(* Mutant of Ready: the stops that came during the start are left behind.  *)
Ready_Forgets ==
    /\ pc = "run" /\ Node!Settle
    /\ IF life' = "serving"
       THEN Tell("Running") /\ served' = TRUE /\ pc' = pc
       ELSE pc' = "ending" /\ UNCHANGED <<heard, served>>
    /\ stops' = <<>>
    /\ UNCHANGED <<lineVars, platform, code, handler, input, ENDED,
                   asked, starts, kept>>

(* run::serve: the node accepts work and `ready` is told, or it is refused.*)
Ready ==
    /\ pc = "run" /\ Node!Settle
    /\ IF life' = "serving"
       THEN Tell("Running") /\ served' = TRUE /\ pc' = pc
       ELSE pc' = "ending" /\ UNCHANGED <<heard, served>>
    /\ UNCHANGED <<lineVars, platform, code, handler, input, stops, ENDED,
                   asked, starts, kept>>

(* The stop is heard and `stopping` told, before the drain.                *)
Stopping ==
    /\ pc = "run" /\ stops # <<>> /\ Node!Stop
    /\ stops' = Tail(stops) /\ Tell("StopPending")
    /\ UNCHANGED <<lineVars, platform, pc, code, handler, input, served, ENDED,
                   asked, starts, kept>>

Drained ==
    /\ pc = "run" /\ Node!Drained
    /\ pc' = "ending"
    /\ UNCHANGED <<lineVars, platform, code, handler, input, stops, served,
                   ENDED, managerVars, kept>>

(* Ended::code: 0 for a drain, REFUSED for a refusal.                      *)
Code == IF life = "stopped" THEN SUCCESS ELSE REFUSED

(* Mutant of Ended: the manager hears of the end before the code is put    *)
(* by.                                                                     *)
Ended_ToldFirst ==
    /\ pc = "ending"
    /\ IF Windows
       THEN /\ pc' = "put" /\ ENDED' = ENDED
            /\ report("Stopped", Code)
            /\ UNCHANGED <<code, handler, input, stops>>
       ELSE Exit(Code) /\ UNCHANGED <<ENDED, heard>>
    /\ UNCHANGED <<lineVars, platform, life, served, asked, starts, kept>>

(* The run ended: a console's process with it; on Windows the code is put  *)
(* by for the dispatcher's return, on another thread ...                   *)
Ended ==
    /\ pc = "ending"
    /\ IF Windows
       THEN /\ pc' = "put" /\ ENDED' = Code
            /\ UNCHANGED <<code, handler, input, stops>>
       ELSE Exit(Code) /\ ENDED' = ENDED
    /\ UNCHANGED <<lineVars, platform, life, served, heard, asked, starts, kept>>

(* ... then the manager is told it is Stopped, and the service's main      *)
(* returns.                                                                *)
TellStopped ==
    /\ pc = "put" /\ pc' = "returned"
    /\ report("Stopped", Code)
    /\ UNCHANGED <<lineVars, platform, processVars, asked, starts, kept>>

(* The dispatcher returns once the manager has the service Stopped, the    *)
(* service's main returned or not: the process ends with what was put by.  *)
(* Where the manager was not told, it does not return.                     *)
Returned ==
    /\ Windows /\ heard.state = "Stopped" /\ pc # "exited"
    /\ Exit(IF ENDED = None THEN SUCCESS ELSE ENDED)
    /\ UNCHANGED <<lineVars, platform, life, served, ENDED, managerVars, kept>>

------------------------------------------------------------------------------
(* The operator, or the system shutting down, wants the node stopped.      *)
Ask ==
    /\ Runs /\ result = "accepted" /\ asked = "no"
    /\ asked' = "asked"
    /\ UNCHANGED <<lineVars, platform, pc, processVars, heard, starts, kept>>

(* The stop is sent once: a control only to a service that accepts it,     *)
(* which it does while it was last heard Running; a signal at once, which  *)
(* ends a process that has not taken it in hand.                           *)
Deliver ==
    /\ asked = "asked" /\ pc # "exited"
    /\ Windows => handler /\ heard.state = "Running"
    /\ asked' = "delivered"
    /\ IF handler
       THEN stops' = Append(stops, "stop") /\ UNCHANGED <<pc, code, handler, input>>
       ELSE Exit("killed")
    /\ UNCHANGED <<lineVars, platform, life, served, ENDED, heard,
                   starts, kept>>

(* The test that started the node ends its input.                          *)
InputEnds ==
    /\ input
    /\ input' = FALSE /\ stops' = Append(stops, "its input ending")
    /\ UNCHANGED <<lineVars, platform, pc, code, handler, life, served, ENDED,
                   managerVars, kept>>

(* The process dies of itself: a panic, or the operating system ends it.   *)
Crash ==
    /\ pc \notin {"main", "exited"} /\ Runs
    /\ Exit("crashed")
    /\ UNCHANGED <<lineVars, platform, life, served, ENDED, managerVars, kept>>

(* The manager owns restarts: a crashed service is started again with the  *)
(* same line unless it was asked to stop.                                  *)
Again ==
    /\ pc = "exited" /\ code = "crashed" /\ mode = "service" /\ asked = "no"
    /\ starts < MaxStarts /\ starts' = starts + 1
    /\ pc' = "main" /\ code' = None /\ handler' = FALSE /\ input' = FALSE
    /\ stops' = <<>> /\ life' = "starting" /\ served' = FALSE /\ ENDED' = None
    /\ heard' = Unheard
    /\ at' = 0 /\ given' = [f \in Flag |-> None] /\ switches' = <<>>
    /\ result' = "reading"
    /\ UNCHANGED <<line, platform, asked, kept>>

Main ==
    \/ Reading \/ Dispatch \/ Printing \/ Sliced \/ Sign \/ SetHandler
    \/ StartDispatcher \/ Register \/ Ready \/ Stopping \/ Drained \/ Ended
    \/ TellStopped \/ Returned

Next == Main \/ Ask \/ Deliver \/ InputEnds \/ Crash \/ Again

Spec == Init /\ [][Next]_vars

(* The operating system runs the process's thread and the manager sends    *)
(* the stop it was asked for.                                              *)
FairSpec == Spec /\ WF_vars(Main) /\ WF_vars(Deliver)

------------------------------------------------------------------------------
(* Type invariant, with what the line may make of the machine.             *)
ProgramTypes ==
    /\ code \in {None, SUCCESS, REFUSED, "killed", "crashed"}
    /\ pc = "exited" <=> code # None
    /\ ENDED \in {None, SUCCESS, REFUSED}
    /\ heard.state \in {"nothing", "StartPending", "Running", "StopPending",
                        "Stopped"}
    /\ asked \in {"no", "asked", "delivered"}
    /\ kept \subseteq {"beside", "named"}

(* The exit code tells the truth (main.rs, Ended::code, ENDED): REFUSED is *)
(* a process that never accepted work, 0 a node that drained or a print    *)
(* that was made; no stop ends a node that serves but by the drain, and    *)
(* what Windows was told of the end is what the process ends with.  A line *)
(* that is refused, and a slice refused before it signs, keep nothing; one *)
(* that signs keeps its authority only where the line says.                *)
ExitTells ==
    /\ ProgramTypes
    /\ code = REFUSED => ~served
    /\ code = SUCCESS /\ Runs => served /\ life = "stopped"
    /\ code = "killed" => ~served
    /\ heard.state = "Stopped" => code \in {None, heard.code, "crashed"}
    /\ Windows /\ heard.state = "Stopped" => ENDED = heard.code
    /\ kept # {} =>
         /\ result = "accepted" /\ mode = "--slice" /\ code # None
         /\ kept = {IF Says(line, Len(line), "--authority", None)
                    THEN "beside" ELSE "named"}

Step(s) == CASE s = "nothing" -> 0 [] s = "StartPending" -> 1
             [] s = "Running" -> 2 [] s = "StopPending" -> 3
             [] s = "Stopped" -> 4

(* The manager hears a process's states in order, whichever of its reports *)
(* were lost, hears Running only of a node that accepts work, and hears    *)
(* nothing of one whose line or handler was refused (control_manager.rs    *)
(* serve, readiness.rs).                                                   *)
ReportsForward ==
    [][heard' # heard =>
          \/ heard' = Unheard /\ pc = "exited"
          \/ /\ Step(heard'.state) > Step(heard.state)
             /\ heard'.state = "Running" <=> life' = "serving"
             /\ handler']_vars

(* A Windows process that a stop cannot end: the manager did not hear that *)
(* its node runs, so sends it none; or the service's main returned and the *)
(* manager did not hear it is Stopped, so the dispatcher waits on.         *)
Unreached ==
    /\ Windows
    /\ \/ pc = "run" /\ life = "serving" /\ heard.state # "Running"
       \/ pc = "returned" /\ heard.state # "Stopped"

(* A stop that is asked for ends the process, before its handler is taken, *)
(* while the node starts, serves or drains (console.rs: "a stop during the *)
(* start is not lost") - but for a Windows process of whose run, or of     *)
(* whose end, the manager has not heard.  A lost StartPending or           *)
(* StopPending is no such case.                                            *)
AskedEnds ==
    asked = "asked" ~> (pc = "exited" \/ Unreached)
==============================================================================
