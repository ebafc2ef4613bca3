------------------------------ MODULE EstateRun ------------------------------
(***************************************************************************)
(* A run of the estate's Pester suite: a pwsh of its own, detached, that   *)
(* one or several consoles start, list and stop through one record file    *)
(* per run (Xmip/Start-XmipEstateSuite.ps1, Complete-XmipEstateRun.ps1,    *)
(* Get-XmipEstateRun.ps1, Stop-XmipTest.ps1).                              *)
(*                                                                         *)
(* Nothing locks the records: the console that started the run, the run    *)
(* itself and every other console read, write and delete them, and a       *)
(* process id may be given to another process once its run is gone.  A     *)
(* record file is replaced whole (Write-XmipToml moves it into place), so  *)
(* reading or writing one is one step, and what a console read is what it  *)
(* acts on later.                                                          *)
(***************************************************************************)
EXTENDS Naturals, FiniteSets

CONSTANTS
    Console,    \* the sessions that start, list and stop runs
    Run,        \* the runs there may be, each named for its start time
    Pid,        \* the process ids the machine gives out
    Nobody,     \* a process id no process has
    Others,     \* the processes that are no estate run
    Alike,      \* Alike[r]: the processes that pass for the pwsh of run r
    None        \* no run, no process id

ASSUME EstateAssumption ==
    /\ {Nobody, None} \cap (Run \cup Pid \cup Others) = {}
    /\ Others \cap Run = {}
    /\ Alike \in [Run -> SUBSET (Run \cup Others)]
    /\ \A r \in Run : r \in Alike[r]

VARIABLES
    proc,       \* proc[r]: where run r's own pwsh is
    outcome,    \* outcome[r]: what Invoke-Pester came to in it
    verdict,    \* verdict[r]: the verdict it has written, kept as history
    record,     \* record[r]: what its record file says, "none" if no file
    pid,        \* pid[r]: the process id it was given
    table,      \* table[p]: which process has the id p now
    con,        \* con[c]: what console c is doing
    stopped     \* the runs a Stop-XmipTest reported stopped, as history

vars == <<proc, outcome, verdict, record, pid, table, con, stopped>>

-----------------------------------------------------------------------------
(* The records, and how a console reads them.                              *)

\* The files Get-ChildItem finds: estate-*.xmip.
Recorded == {r \in Run : record[r] # "none"}

\* What a console may be doing: the command, the step of it, the files still
\* to be read, the run it deals with, what it read and has not judged, and
\* what it listed.
Session ==
    [op : {"none", "start", "stop"},
     at : {"idle", "list", "write", "kill", "take"},
     todo : SUBSET Run, run : Run \cup {None},
     read : [Run -> {"none", "start", "OK", "FAILED"}],
     seen : [Run -> {"none", "running", "ended", "OK", "FAILED"}]]

NoRun == [r \in Run |-> "none"]

\* A console doing nothing.
Idle == [op |-> "none", at |-> "idle", todo |-> {}, run |-> None, read |-> NoRun, seen |-> NoRun]

\* Every record there was has been read, and listed.
HasListed(c) == con[c].at = "list" /\ con[c].todo = {} /\ con[c].read = NoRun

\* Mutant of Alive: whatever process has the id is taken for the run's.
Alive_ById(r) == table[pid[r]] # Nobody

\* Test-XmipDetachedAlive: the process that has the id the record names is
\* a pwsh begun within five seconds of the run, so its own or one alike.
Alive(r) == table[pid[r]] \in Alike[r]

\* Mutant of State: a record without a verdict is ended, no process asked.
State_Unasked(r, s) == IF s = "start" THEN "ended" ELSE s

\* ConvertTo-XmipEstateRun: the state a record that says s is listed with.
State(r, s) ==
    CASE s # "start" -> s
      [] s = "start" /\ Alive(r) -> "running"
      [] s = "start" /\ ~Alive(r) -> "ended"      \* FAILED, "without a verdict"

Init ==
    /\ proc = [r \in Run |-> "unborn"]
    /\ outcome = [r \in Run |-> "none"]
    /\ verdict = [r \in Run |-> "none"]
    /\ record = [r \in Run |-> "none"]
    /\ pid = [r \in Run |-> None]
    /\ table = [p \in Pid |-> Nobody]
    /\ con = [c \in Console |-> Idle]
    /\ stopped = {}

-----------------------------------------------------------------------------
(* A console.  Start, list and stop all begin by listing every record.     *)

\* The command begins: the files there now are the ones it will read.
Begin(c, op) ==
    /\ con[c].at = "idle"
    /\ con' = [con EXCEPT ![c] = [Idle EXCEPT !.op = op, !.at = "list", !.todo = Recorded]]
    /\ UNCHANGED <<proc, outcome, verdict, record, pid, table, stopped>>

\* Read-XmipRunRecord: Read-XmipToml of one file after another.  One deleted
\* since Get-ChildItem found it cannot be read, and the command ends there.
Read(c, r) ==
    /\ con[c].at = "list"
    /\ r \in con[c].todo
    /\ con' = [con EXCEPT ![c] =
                IF record[r] = "none" THEN Idle
                ELSE [@ EXCEPT !.todo = con[c].todo \ {r}, !.read[r] = record[r]]]
    /\ UNCHANGED <<proc, outcome, verdict, record, pid, table, stopped>>

\* All are read; what each is listed as: its verdict, or whether its process
\* lives, asked now and not when the record was read.
Judge(c, r) ==
    /\ con[c].at = "list" /\ con[c].todo = {}
    /\ con[c].read[r] # "none"
    /\ con' = [con EXCEPT ![c] = [@ EXCEPT !.read[r] = "none",
                                           !.seen[r] = State(r, con[c].read[r])]]
    /\ UNCHANGED <<proc, outcome, verdict, record, pid, table, stopped>>

\* Remove-XmipEstateFinished: the records of the runs listed as not running
\* go, one file after another.
Remove(c, r) ==
    /\ con[c].op = "start" /\ HasListed(c)
    /\ con[c].seen[r] \notin {"none", "running"}
    /\ record' = [record EXCEPT ![r] = "none"]
    /\ con' = [con EXCEPT ![c].seen[r] = "none"]
    /\ UNCHANGED <<proc, outcome, verdict, pid, table, stopped>>

\* Start-Process: the run's pwsh begins, with an id no process has.
Launch(c, r, p) ==
    /\ con[c].op = "start" /\ HasListed(c)
    /\ \A q \in Run : con[c].seen[q] \in {"none", "running"}
    /\ proc[r] = "unborn"
    /\ table[p] = Nobody
    /\ proc' = [proc EXCEPT ![r] = "testing"]
    /\ pid' = [pid EXCEPT ![r] = p]
    /\ table' = [table EXCEPT ![p] = r]
    /\ con' = [con EXCEPT ![c] = [Idle EXCEPT !.op = "start", !.at = "write", !.run = r]]
    /\ UNCHANGED <<outcome, verdict, record, stopped>>

\* Mutant of WriteStart: the start is written over whatever is there.
WriteStart_Clobbers(c) ==
    /\ con[c].at = "write"
    /\ record' = [record EXCEPT ![con[c].run] = "start"]
    /\ con' = [con EXCEPT ![c] = Idle]
    /\ UNCHANGED <<proc, outcome, verdict, pid, table, stopped>>

\* Write-XmipEstateStart: the start is recorded only where no file is yet.
WriteStart(c) ==
    /\ con[c].at = "write"
    /\ record' = [record EXCEPT ![con[c].run] = IF @ = "none" THEN "start" ELSE @]
    /\ con' = [con EXCEPT ![c] = Idle]
    /\ UNCHANGED <<proc, outcome, verdict, pid, table, stopped>>

\* Stop-XmipTest picks a run it listed as running.
Pick(c, r) ==
    /\ con[c].op = "stop" /\ HasListed(c)
    /\ con[c].seen[r] = "running"
    /\ con' = [con EXCEPT ![c].at = "kill", ![c].run = r]
    /\ UNCHANGED <<proc, outcome, verdict, record, pid, table, stopped>>

\* Listed and no more: Get-XmipTestStatus ends here, and so does a
\* Stop-XmipTest that found nothing running, or REFUSED a run that had ended.
Listed(c) ==
    /\ con[c].op = "stop" /\ HasListed(c)
    /\ con' = [con EXCEPT ![c] = Idle]
    /\ UNCHANGED <<proc, outcome, verdict, record, pid, table, stopped>>

\* The process that holds the id p ends, and with it whatever it started.
Ends(p) ==
    /\ table' = [table EXCEPT ![p] = Nobody]
    /\ proc' = [r \in Run |-> IF table[p] = r THEN "gone" ELSE proc[r]]

\* Mutant of Kill: the process is asked to end, and not ended.
Kill_Asked(c) ==
    /\ con[c].at = "kill"
    /\ con' = [con EXCEPT ![c] = IF table[pid[con[c].run]] = Nobody THEN Idle ELSE [@ EXCEPT !.at = "take"]]
    /\ UNCHANGED <<proc, outcome, verdict, record, pid, table, stopped>>

\* Stop-XmipDetachedRun: GetProcessById(Id).Kill of whichever process has
\* the id by now; REFUSED when none has.
Kill(c) ==
    /\ con[c].at = "kill"
    /\ \/ /\ table[pid[con[c].run]] = Nobody
          /\ con' = [con EXCEPT ![c] = Idle]
          /\ UNCHANGED <<proc, table>>
       \/ /\ table[pid[con[c].run]] # Nobody
          /\ Ends(pid[con[c].run])
          /\ con' = [con EXCEPT ![c].at = "take"]
    /\ UNCHANGED <<outcome, verdict, record, pid, stopped>>

\* The ended run's record is taken, its log kept, and the next run picked
\* from the same list is stopped.
Take(c) ==
    /\ con[c].at = "take"
    /\ record' = [record EXCEPT ![con[c].run] = "none"]
    /\ stopped' = stopped \cup {con[c].run}
    /\ con' = [con EXCEPT ![c] = [@ EXCEPT !.at = "list", !.run = None, !.seen[con[c].run] = "none"]]
    /\ UNCHANGED <<proc, outcome, verdict, pid, table>>

\* The console is closed, or the command is interrupted, between two steps.
Closed(c) ==
    /\ con[c].at # "idle"
    /\ con' = [con EXCEPT ![c] = Idle]
    /\ UNCHANGED <<proc, outcome, verdict, record, pid, table, stopped>>

-----------------------------------------------------------------------------
(* The run, in its own pwsh.                                               *)

\* Invoke-Pester returns its result, or throws or returns nothing.
Pester(r, o) ==
    /\ proc[r] = "testing"
    /\ proc' = [proc EXCEPT ![r] = "judged"]
    /\ outcome' = [outcome EXCEPT ![r] = o]
    /\ UNCHANGED <<verdict, record, pid, table, con, stopped>>

\* Mutant of Judged: a run of which nothing failed is a run that passed.
Judged_NoFault(o) == IF o \in {"passed", "nothing"} THEN "OK" ELSE "FAILED"

\* Complete-XmipEstateRun: passed only where there is a result, it passed
\* and nothing was thrown.
Judged(o) == IF o = "passed" THEN "OK" ELSE "FAILED"

\* The run writes its verdict over whatever its record says.
Complete(r) ==
    /\ proc[r] = "judged"
    /\ proc' = [proc EXCEPT ![r] = "told"]
    /\ record' = [record EXCEPT ![r] = Judged(outcome[r])]
    /\ verdict' = [verdict EXCEPT ![r] = Judged(outcome[r])]
    /\ UNCHANGED <<outcome, pid, table, con, stopped>>

\* The run's pwsh ends: after its verdict, or having died on the way.
Exit(r) ==
    /\ proc[r] \in {"testing", "judged", "told"}
    /\ Ends(pid[r])
    /\ UNCHANGED <<outcome, verdict, record, pid, con, stopped>>

\* Another process is given an id, or ends.
Reuse(p) ==
    /\ \/ table[p] = Nobody /\ \E o \in Others : table' = [table EXCEPT ![p] = o]
       \/ table[p] \in Others /\ table' = [table EXCEPT ![p] = Nobody]
    /\ UNCHANGED <<proc, outcome, verdict, record, pid, con, stopped>>

-----------------------------------------------------------------------------
Next ==
    \/ \E c \in Console : \/ \E op \in {"start", "stop"} : Begin(c, op)
                          \/ WriteStart(c) \/ Listed(c)
                          \/ Kill(c) \/ Take(c) \/ Closed(c)
                          \/ \E r \in Run : \/ Read(c, r) \/ Judge(c, r)
                                            \/ Remove(c, r) \/ Pick(c, r)
                          \/ \E r \in Run, p \in Pid : Launch(c, r, p)
    \/ \E r \in Run : \/ \E o \in {"passed", "failed", "nothing"} : Pester(r, o)
                      \/ Complete(r) \/ Exit(r)
    \/ \E p \in Pid : Reuse(p)

Spec == Init /\ [][Next]_vars

-----------------------------------------------------------------------------
(* What the tooling promises.                                              *)

\* The variables keep their types.
TypeOK ==
    /\ proc \in [Run -> {"unborn", "testing", "judged", "told", "gone"}]
    /\ outcome \in [Run -> {"none", "passed", "failed", "nothing"}]
    /\ verdict \in [Run -> {"none", "OK", "FAILED"}]
    /\ record \in [Run -> {"none", "start", "OK", "FAILED"}]
    /\ pid \in [Run -> Pid \cup {None}]
    /\ table \in [Pid -> Run \cup Others \cup {Nobody}]
    /\ stopped \subseteq Run
    /\ con \in [Console -> Session]

\* A run that is still testing, whose start was recorded and which no
\* Stop-XmipTest is ending, keeps its record: a new start clears the ended
\* runs alone, however long ago it listed them.
RunningKeepsRecord ==
    [][\A r \in Run :
          record[r] # "none" /\ record'[r] = "none" => proc[r] \notin {"testing", "judged"}]_vars

\* The console never overwrites a verdict: what the run wrote stands in its
\* record until the record is deleted, though the console records the start
\* after the run was let loose.
VerdictStands ==
    [][\A r \in Run : record[r] \in {"OK", "FAILED"} => record'[r] \in {record[r], "none"}]_vars

\* A run is listed OK only if Pester returned a result in it and that passed:
\* never for a run where it threw or returned nothing, or that was stopped or died.
OnlyPassedIsOK ==
    \A c \in Console, r \in Run : con[c].seen[r] = "OK" => outcome[r] = "passed"

\* The types; a run's process is the one its id names for as long as it
\* lives, and no longer; and a run is listed OK only if it passed.
EstateInv ==
    /\ TypeOK
    /\ \A r \in Run : /\ pid[r] = None <=> proc[r] = "unborn"
                      /\ pid[r] # None =>
                            (table[pid[r]] = r <=> proc[r] \in {"testing", "judged", "told"})
    /\ OnlyPassedIsOK

\* A run is newly listed as running only while its own pwsh lives, or its id
\* has gone to another pwsh begun within five seconds of it; and as ended
\* without a verdict only when it is gone, though its record was read before
\* its process was asked for and its id may be anybody's by now.
ListedAlive ==
    [][\A c \in Console, r \in Run :
          con'[c].seen[r] # con[c].seen[r] =>
             /\ con'[c].seen[r] = "running" =>
                   \/ proc[r] \in {"testing", "judged", "told"}
                   \/ \E q \in Alike[r] \ {r} : table[pid[r]] = q
             /\ con'[c].seen[r] = "ended" => proc[r] = "gone"]_vars

\* Nothing of a run that Stop-XmipTest reported stopped is left: its process
\* has ended and no record of it comes back.
StoppedLeavesNothing ==
    \A r \in stopped : proc[r] = "gone" /\ record[r] = "none"

\* Get-XmipEstateRun: a run listed as ended without a verdict wrote none.
EndedWroteNothing ==
    \A c \in Console, r \in Run : con[c].seen[r] = "ended" => verdict[r] = "none"

\* Stop-XmipDetachedRun ends the run it names, and no other process.
KillsItsRun ==
    [][\A c \in Console :
          con[c].at = "kill" /\ con'[c].at = "take" => table[pid[con[c].run]] = con[c].run]_vars
=============================================================================
