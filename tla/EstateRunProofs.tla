--------------------------- MODULE EstateRunProofs ---------------------------
(***************************************************************************)
(* Proofs about EstateRun, for any number of consoles, runs and process    *)
(* ids: the inductive invariant EstateIInv, and from it the invariants and *)
(* the action properties the model is checked for.                         *)
(***************************************************************************)
EXTENDS EstateRun, TLAPS

(* A run's pwsh is there, and it has at least told its verdict.            *)
Living == {"testing", "judged", "told"}
Told == {"told", "gone"}

(* A run's process holds the id it was given for as long as it lives, and  *)
(* no process holds an id its run was not given.                           *)
Processes ==
    /\ \A r \in Run : /\ pid[r] = None <=> proc[r] = "unborn"
                      /\ pid[r] # None => (table[pid[r]] = r <=> proc[r] \in Living)
    /\ \A p \in Pid, r \in Run : table[p] = r => pid[r] = p

(* What may be said of run r, in its record, by a console that has read it *)
(* or in a list: nothing before it began, a verdict once it told one, and  *)
(* OK for a run that passed.                                               *)
Sound(r, says) ==
    /\ says # "none" => proc[r] # "unborn"
    /\ says \in {"OK", "FAILED", "ended"} => proc[r] \in Told
    /\ says = "OK" => outcome[r] = "passed"

Records == \A r \in Run : Sound(r, record[r])

(* A console deals with a run that has begun, takes the record of one that *)
(* is gone, and read and listed what was so when it did.                   *)
Consoles ==
    \A c \in Console :
        /\ con[c].at \in {"write", "kill", "take"} =>
              con[c].run \in Run /\ proc[con[c].run] # "unborn"
        /\ con[c].at = "take" => proc[con[c].run] = "gone"
        /\ \A r \in Run : Sound(r, con[c].read[r]) /\ Sound(r, con[c].seen[r])

(* Console c is to record that run r started, and console c has read that  *)
(* it did.                                                                 *)
Writes(c, r) == con[c].at = "write" /\ con[c].run = r
Knows(c, r) ==
    \/ con[c].at \in {"kill", "take"} /\ con[c].run = r
    \/ con[c].read[r] = "start"
    \/ con[c].seen[r] \in {"running", "ended"}

(* The start of a run is recorded once: until it is, by the one console    *)
(* that let the run loose, nobody has read it and nobody has stopped the   *)
(* run.                                                                    *)
OneWriter ==
    \A c \in Console, r \in Run : Writes(c, r) =>
        /\ record[r] # "start" /\ r \notin stopped
        /\ \A d \in Console : ~Knows(d, r) /\ (Writes(d, r) => d = c)

(* The inductive invariant.                                                *)
EstateIInv ==
    /\ TypeOK /\ Processes /\ Records /\ Consoles /\ OneWriter
    /\ StoppedLeavesNothing

------------------------------------------------------------------------------
(* What a step makes of the console that takes it.                         *)

(* A console that reads a record has one less to read, and keeps it.       *)
LEMMA ReadMakes ==
    ASSUME TypeOK, NEW c \in Console, NEW r \in Run, Read(c, r), record[r] # "none"
    PROVE  /\ con'[c].at = "list" /\ con'[c].run = con[c].run
           /\ con'[c].read = [con[c].read EXCEPT ![r] = record[r]]
           /\ con'[c].seen = con[c].seen
           /\ con' \in [Console -> Session]
<1>1. con[c] \in Session
  BY DEF TypeOK
<1>2. con'[c] = [op |-> con[c].op, at |-> con[c].at, todo |-> con[c].todo \ {r},
                 run |-> con[c].run, read |-> [con[c].read EXCEPT ![r] = record[r]],
                 seen |-> con[c].seen]
  BY <1>1 DEF TypeOK, Session, Read
<1>3. [con[c].read EXCEPT ![r] = record[r]] \in [Run -> {"none", "start", "OK", "FAILED"}]
  BY <1>1 DEF Session, TypeOK
<1>4. con'[c] \in Session
  BY <1>1, <1>2, <1>3 DEF Session
<1> QED
  BY <1>2, <1>4 DEF TypeOK, Read

(* A console that judges lists the run by what it read and what it asks.   *)
LEMMA JudgeMakes ==
    ASSUME TypeOK, NEW c \in Console, NEW r \in Run, Judge(c, r)
    PROVE  /\ con'[c].at = "list" /\ con'[c].run = con[c].run
           /\ con'[c].read = [con[c].read EXCEPT ![r] = "none"]
           /\ con'[c].seen = [con[c].seen EXCEPT ![r] = State(r, con[c].read[r])]
           /\ con' \in [Console -> Session]
<1>1. con[c] \in Session
  BY DEF TypeOK
<1>2. con'[c] = [op |-> con[c].op, at |-> con[c].at, todo |-> con[c].todo,
                 run |-> con[c].run, read |-> [con[c].read EXCEPT ![r] = "none"],
                 seen |-> [con[c].seen EXCEPT ![r] = State(r, con[c].read[r])]]
  BY <1>1 DEF TypeOK, Session, Judge
<1>3. con[c].read[r] \in {"none", "start", "OK", "FAILED"}
  BY <1>1 DEF Session
<1>4. State(r, con[c].read[r]) \in {"none", "running", "ended", "OK", "FAILED"}
  BY <1>3 DEF State
<1>5. [con[c].seen EXCEPT ![r] = State(r, con[c].read[r])]
          \in [Run -> {"none", "running", "ended", "OK", "FAILED"}]
  BY <1>1, <1>4 DEF Session
<1>6. [con[c].read EXCEPT ![r] = "none"] \in [Run -> {"none", "start", "OK", "FAILED"}]
  BY <1>1 DEF Session
<1>7. con'[c] \in Session
  BY <1>1, <1>2, <1>5, <1>6 DEF Session
<1> QED
  BY <1>2, <1>7 DEF TypeOK, Judge

(* A console that removes a record no longer lists its run.                *)
LEMMA RemoveMakes ==
    ASSUME TypeOK, NEW c \in Console, NEW r \in Run, Remove(c, r)
    PROVE  /\ con'[c].at = con[c].at /\ con'[c].read = con[c].read
           /\ con'[c].seen = [con[c].seen EXCEPT ![r] = "none"]
           /\ con' \in [Console -> Session]
<1>1. con[c] \in Session
  BY DEF TypeOK
<1>2. con'[c] = [op |-> con[c].op, at |-> con[c].at, todo |-> con[c].todo,
                 run |-> con[c].run, read |-> con[c].read,
                 seen |-> [con[c].seen EXCEPT ![r] = "none"]]
  BY <1>1 DEF TypeOK, Session, Remove
<1>3. [con[c].seen EXCEPT ![r] = "none"]
          \in [Run -> {"none", "running", "ended", "OK", "FAILED"}]
  BY <1>1 DEF Session
<1>4. con'[c] \in Session
  BY <1>1, <1>2, <1>3 DEF Session
<1> QED
  BY <1>2, <1>4 DEF TypeOK, Remove

(* A console that picks a run is about to end it.                          *)
LEMMA PickMakes ==
    ASSUME TypeOK, NEW c \in Console, NEW r \in Run, Pick(c, r)
    PROVE  /\ con'[c].at = "kill" /\ con'[c].run = r
           /\ con'[c].read = con[c].read /\ con'[c].seen = con[c].seen
           /\ con' \in [Console -> Session]
<1>1. con[c] \in Session
  BY DEF TypeOK
<1>2. con'[c] = [op |-> con[c].op, at |-> "kill", todo |-> con[c].todo,
                 run |-> r, read |-> con[c].read, seen |-> con[c].seen]
  BY <1>1 DEF TypeOK, Session, Pick
<1>3. con'[c] \in Session
  BY <1>1, <1>2 DEF Session
<1> QED
  BY <1>2, <1>3 DEF TypeOK, Pick

(* A console whose command has ended.                                      *)
LEMMA IdleMakes ==
    ASSUME TypeOK, NEW c \in Console, con' = [con EXCEPT ![c] = Idle]
    PROVE  /\ con'[c] = Idle /\ con' \in [Console -> Session]
           /\ \A d \in Console : d # c => con'[d] = con[d]
<1>1. NoRun \in [Run -> {"none", "start", "OK", "FAILED"}]
      /\ NoRun \in [Run -> {"none", "running", "ended", "OK", "FAILED"}]
  BY DEF NoRun
<1>2. Idle \in Session
  BY <1>1 DEF Idle, Session
<1> QED
  BY <1>2 DEF TypeOK

(* A console that ends a process found none, or one that is ended.         *)
LEMMA KillMakes ==
    ASSUME TypeOK, NEW c \in Console, Kill(c)
    PROVE  /\ \/ /\ con'[c].at = "idle" /\ con'[c].read = NoRun /\ con'[c].seen = NoRun
                 /\ UNCHANGED <<proc, table>>
              \/ /\ table[pid[con[c].run]] # Nobody /\ Ends(pid[con[c].run])
                 /\ con'[c].at = "take" /\ con'[c].run = con[c].run
                 /\ con'[c].read = con[c].read /\ con'[c].seen = con[c].seen
           /\ con' \in [Console -> Session]
<1>1. con[c] \in Session
  BY DEF TypeOK
<1>2. CASE con' = [con EXCEPT ![c] = Idle] /\ UNCHANGED <<proc, table>>
  BY <1>2, IdleMakes DEF Idle
<1>3. CASE /\ table[pid[con[c].run]] # Nobody /\ Ends(pid[con[c].run])
           /\ con' = [con EXCEPT ![c].at = "take"]
  <2>1. con'[c] = [op |-> con[c].op, at |-> "take", todo |-> con[c].todo,
                   run |-> con[c].run, read |-> con[c].read, seen |-> con[c].seen]
    BY <1>1, <1>3 DEF TypeOK, Session
  <2>2. con'[c] \in Session
    BY <1>1, <2>1 DEF Session
  <2> QED
    BY <1>3, <2>1, <2>2 DEF TypeOK
<1> QED
  BY <1>2, <1>3 DEF Kill

(* A console that takes a record goes on with its list.                    *)
LEMMA TakeMakes ==
    ASSUME TypeOK, NEW c \in Console, Take(c), con[c].run \in Run
    PROVE  /\ con'[c].at = "list" /\ con'[c].read = con[c].read
           /\ con'[c].seen = [con[c].seen EXCEPT ![con[c].run] = "none"]
           /\ con' \in [Console -> Session]
<1>1. con[c] \in Session
  BY DEF TypeOK
<1>2. con'[c] = [op |-> con[c].op, at |-> "list", todo |-> con[c].todo,
                 run |-> None, read |-> con[c].read,
                 seen |-> [con[c].seen EXCEPT ![con[c].run] = "none"]]
  BY <1>1 DEF TypeOK, Session, Take
<1>3. [con[c].seen EXCEPT ![con[c].run] = "none"]
          \in [Run -> {"none", "running", "ended", "OK", "FAILED"}]
  BY <1>1 DEF Session
<1>4. con'[c] \in Session
  BY <1>1, <1>2, <1>3 DEF Session
<1> QED
  BY <1>2, <1>4 DEF TypeOK, Take

(* A step that touches no record and of one console alone, which is then   *)
(* to record no start and knows of none that it did not know of.           *)
LEMMA LearnsNothing ==
    ASSUME OneWriter, NEW c \in Console, UNCHANGED <<record, stopped>>,
           \A d \in Console : d # c => con'[d] = con[d],
           \A r \in Run : Knows(c, r)' => Knows(c, r),
           \A r \in Run : ~Writes(c, r)'
    PROVE  OneWriter'
<1> SUFFICES ASSUME NEW d \in Console, NEW r \in Run, Writes(d, r)'
             PROVE  /\ record'[r] # "start" /\ r \notin stopped'
                    /\ \A e \in Console : ~Knows(e, r)' /\ (Writes(e, r)' => e = d)
  BY DEF OneWriter
<1>1. d # c /\ Writes(d, r)
  BY DEF Writes
<1>2. ASSUME NEW e \in Console PROVE ~Knows(e, r)' /\ (Writes(e, r)' => e = d)
  BY <1>1 DEF OneWriter, Knows, Writes
<1> QED
  BY <1>1, <1>2 DEF OneWriter

(* Judging a record is knowing no more than reading it was.                *)
LEMMA JudgeLearnsNothing ==
    ASSUME TypeOK, OneWriter, NEW c \in Console, NEW q \in Run, Judge(c, q)
    PROVE  OneWriter'
<1>1. con[c] \in Session
  BY DEF TypeOK
<1>2. /\ con[c].read \in [Run -> {"none", "start", "OK", "FAILED"}]
      /\ con[c].seen \in [Run -> {"none", "running", "ended", "OK", "FAILED"}]
  BY <1>1 DEF Session
<1>3. State(q, con[c].read[q]) \in {"running", "ended"} => con[c].read[q] = "start"
  BY <1>2 DEF State
<1>4. /\ con'[c].at = "list"
      /\ con'[c].read = [con[c].read EXCEPT ![q] = "none"]
      /\ con'[c].seen = [con[c].seen EXCEPT ![q] = State(q, con[c].read[q])]
  BY JudgeMakes
<1>5. ASSUME NEW r \in Run, Knows(c, r)' PROVE Knows(c, r)
  <2>1. CASE r = q
    <3>1. con'[c].read[q] = "none" /\ con'[c].seen[q] = State(q, con[c].read[q])
      BY <1>2, <1>4
    <3> QED
      BY <1>3, <1>4, <1>5, <2>1, <3>1 DEF Knows
  <2>2. CASE r # q
    <3>1. con'[c].read[r] = con[c].read[r] /\ con'[c].seen[r] = con[c].seen[r]
      BY <1>2, <1>4, <2>2
    <3> QED
      BY <1>4, <1>5, <3>1 DEF Knows
  <2> QED
    BY <2>1, <2>2
<1>6. \A r \in Run : ~Writes(c, r)'
  BY <1>4 DEF Writes
<1>7. UNCHANGED <<record, stopped>> /\ \A d \in Console : d # c => con'[d] = con[d]
  BY DEF Judge, TypeOK
<1> QED
  BY <1>5, <1>6, <1>7, LearnsNothing

(* A run that is picked was listed as running.                             *)
LEMMA PickLearnsNothing ==
    ASSUME TypeOK, OneWriter, NEW c \in Console, NEW q \in Run, Pick(c, q)
    PROVE  OneWriter'
<1>1. /\ con'[c].at = "kill" /\ con'[c].run = q
      /\ con'[c].read = con[c].read /\ con'[c].seen = con[c].seen
  BY PickMakes
<1>2. ASSUME NEW r \in Run, Knows(c, r)' PROVE Knows(c, r)
  BY <1>1, <1>2 DEF Knows, Pick
<1>3. \A r \in Run : ~Writes(c, r)'
  BY <1>1 DEF Writes
<1>4. UNCHANGED <<record, stopped>> /\ \A d \in Console : d # c => con'[d] = con[d]
  BY DEF Pick, TypeOK
<1> QED
  BY <1>2, <1>3, <1>4, LearnsNothing

(* A run that is ended was picked.                                         *)
LEMMA KillLearnsNothing ==
    ASSUME TypeOK, OneWriter, NEW c \in Console, Kill(c)
    PROVE  OneWriter'
<1>1. \/ con'[c].at = "idle" /\ con'[c].read = NoRun /\ con'[c].seen = NoRun
      \/ /\ con'[c].at = "take" /\ con'[c].run = con[c].run
         /\ con'[c].read = con[c].read /\ con'[c].seen = con[c].seen
  BY KillMakes
<1>2. ASSUME NEW r \in Run, Knows(c, r)' PROVE Knows(c, r)
  BY <1>1, <1>2 DEF Knows, Kill, NoRun
<1>3. \A r \in Run : ~Writes(c, r)'
  BY <1>1 DEF Writes
<1>4. UNCHANGED <<record, stopped>> /\ \A d \in Console : d # c => con'[d] = con[d]
  BY DEF Kill, TypeOK
<1> QED
  BY <1>2, <1>3, <1>4, LearnsNothing

(* The run a console ends is gone, whoever held its id, and no other run   *)
(* is the less known for it.                                               *)
LEMMA KillEnds ==
    ASSUME TypeOK, Processes, Consoles, NEW c \in Console, Kill(c)
    PROVE  Consoles'
<1> DEFINE q == con[c].run
<1>1. q \in Run /\ proc[q] # "unborn" /\ pid[q] \in Pid
  BY DEF Kill, Consoles, Processes, TypeOK
<1>2. \A r \in Run : /\ proc'[r] = "unborn" <=> proc[r] = "unborn"
                     /\ proc[r] \in Told => proc'[r] \in Told
                     /\ proc[r] = "gone" => proc'[r] = "gone"
  BY <1>1, EstateAssumption DEF Kill, Ends, TypeOK, Processes, Living, Told
<1>3. ASSUME NEW r \in Run, NEW says, Sound(r, says) PROVE Sound(r, says)'
  BY <1>2, <1>3 DEF Sound, Kill
<1>4. con'[c].at = "take" => proc'[q] = "gone"
  <2>1. CASE con'[c].at = "idle"
    BY <2>1
  <2>2. CASE Ends(pid[q]) /\ table[pid[q]] = q
    BY <1>1, <2>2 DEF Ends
  <2>3. CASE Ends(pid[q]) /\ table[pid[q]] # q
    BY <1>1, <1>2, <2>3, EstateAssumption DEF Processes, Living, TypeOK
  <2> QED
    BY <2>1, <2>2, <2>3, KillMakes
<1>5. ASSUME NEW d \in Console, d # c PROVE con'[d] = con[d]
  BY <1>5 DEF Kill, TypeOK
<1>6. \A r \in Run : Sound(r, "none")'
  BY DEF Sound
<1>7. \/ con'[c].at = "idle" /\ con'[c].read = NoRun /\ con'[c].seen = NoRun
      \/ /\ con'[c].at = "take" /\ con'[c].run = q
         /\ con'[c].read = con[c].read /\ con'[c].seen = con[c].seen
  BY KillMakes
<1>8. /\ con'[c].at \in {"write", "kill", "take"} =>
            con'[c].run \in Run /\ proc'[con'[c].run] # "unborn"
      /\ con'[c].at = "take" => proc'[con'[c].run] = "gone"
      /\ \A r \in Run : Sound(r, con[c].read[r])' /\ Sound(r, con[c].seen[r])'
  BY <1>1, <1>2, <1>3, <1>4, <1>6, <1>7 DEF Consoles, NoRun
<1>9. ASSUME NEW d \in Console, d # c
      PROVE  /\ con'[d].at \in {"write", "kill", "take"} =>
                   con'[d].run \in Run /\ proc'[con'[d].run] # "unborn"
             /\ con'[d].at = "take" => proc'[con'[d].run] = "gone"
             /\ \A r \in Run : Sound(r, con[d].read[r])' /\ Sound(r, con[d].seen[r])'
  BY <1>2, <1>3, <1>5, <1>9 DEF Consoles
<1> QED
  BY <1>8, <1>9 DEF Consoles

------------------------------------------------------------------------------
(* The types: a console is left in a session it may be in.                 *)
LEMMA TypeOKStep == EstateIInv /\ [Next]_vars => TypeOK'
<1> SUFFICES ASSUME EstateIInv, [Next]_vars PROVE TypeOK'
  OBVIOUS
<1> USE EstateAssumption DEF EstateIInv, TypeOK, Consoles
<1>1. ASSUME NEW c \in Console, NEW op \in {"start", "stop"}, Begin(c, op)
      PROVE  TypeOK'
  BY <1>1 DEF Begin, Idle, NoRun, Recorded, Session
<1>2. ASSUME NEW c \in Console, NEW r \in Run, Judge(c, r)
      PROVE  TypeOK'
  BY <1>2, JudgeMakes DEF Judge
<1>3. ASSUME NEW c \in Console, WriteStart(c)
      PROVE  TypeOK'
  BY <1>3 DEF WriteStart, Idle, NoRun, Session
<1>4. ASSUME NEW c \in Console, Listed(c)
      PROVE  TypeOK'
  BY <1>4 DEF Listed, Idle, NoRun, Session
<1>5. ASSUME NEW c \in Console, Kill(c)
      PROVE  TypeOK'
  <2>1. proc' \in [Run -> {"unborn", "testing", "judged", "told", "gone"}]
    BY <1>5 DEF Kill, Ends
  <2>2. table' \in [Pid -> Run \cup Others \cup {Nobody}]
    BY <1>5 DEF Kill, Ends
  <2> QED
    BY <2>1, <2>2, <1>5, KillMakes DEF Kill
<1>6. ASSUME NEW c \in Console, Take(c)
      PROVE  TypeOK'
  <2>1. con[c].run \in Run
    BY <1>6 DEF Take
  <2>2. record' \in [Run -> {"none", "start", "OK", "FAILED"}] /\ stopped' \subseteq Run
    BY <1>6, <2>1 DEF Take
  <2>3. con' \in [Console -> Session]
    BY <1>6, <2>1, TakeMakes
  <2> QED
    BY <1>6, <2>2, <2>3 DEF Take
<1>7. ASSUME NEW c \in Console, Closed(c)
      PROVE  TypeOK'
  BY <1>7 DEF Closed, Idle, NoRun, Session
<1>8. ASSUME NEW c \in Console, NEW r \in Run, Read(c, r)
      PROVE  TypeOK'
  <2>1. CASE record[r] = "none"
    BY <1>8, <2>1 DEF Read, Idle, NoRun, Session
  <2>2. CASE record[r] # "none"
    BY <1>8, <2>2, ReadMakes DEF Read
  <2> QED
    BY <2>1, <2>2
<1>9. ASSUME NEW c \in Console, NEW r \in Run, Remove(c, r)
      PROVE  TypeOK'
  BY <1>9, RemoveMakes DEF Remove
<1>10. ASSUME NEW c \in Console, NEW r \in Run, Pick(c, r)
      PROVE  TypeOK'
  BY <1>10, PickMakes DEF Pick
<1>11. ASSUME NEW c \in Console, NEW r \in Run, NEW p \in Pid, Launch(c, r, p)
      PROVE  TypeOK'
  BY <1>11 DEF Launch, Idle, NoRun, Session
<1>12. ASSUME NEW r \in Run, NEW o \in {"passed", "failed", "nothing"}, Pester(r, o)
      PROVE  TypeOK'
  BY <1>12 DEF Pester
<1>13. ASSUME NEW r \in Run, Complete(r)
      PROVE  TypeOK'
  BY <1>13 DEF Complete, Judged
<1>14. ASSUME NEW r \in Run, Exit(r)
      PROVE  TypeOK'
  BY <1>14 DEF Exit, Ends
<1>15. ASSUME NEW p \in Pid, Reuse(p)
      PROVE  TypeOK'
  BY <1>15 DEF Reuse
<1>16. CASE UNCHANGED vars
  BY <1>16 DEF vars
<1> HIDE DEF EstateIInv, TypeOK, Consoles
<1> QED
  BY <1>1, <1>2, <1>3, <1>4, <1>5, <1>6, <1>7, <1>8, <1>9, <1>10, <1>11,
     <1>12, <1>13, <1>14, <1>15, <1>16
     DEF Next

(* A run's process and its id: an id is given only while no process has    *)
(* it, and whoever ends the process that has it, the console or the run    *)
(* itself, ends that one.                                                  *)
LEMMA ProcessesStep == EstateIInv /\ [Next]_vars => Processes'
<1> SUFFICES ASSUME EstateIInv, [Next]_vars PROVE Processes'
  OBVIOUS
<1> USE EstateAssumption DEF EstateIInv, TypeOK, Processes, Living, Consoles
<1>1. ASSUME NEW c \in Console, NEW op \in {"start", "stop"}, Begin(c, op)
      PROVE  Processes'
  BY <1>1 DEF Begin, Idle, NoRun, Recorded
<1>2. ASSUME NEW c \in Console, NEW r \in Run, Judge(c, r)
      PROVE  Processes'
  BY <1>2 DEF Judge, State, Alive
<1>3. ASSUME NEW c \in Console, WriteStart(c)
      PROVE  Processes'
  BY <1>3 DEF WriteStart, Idle, NoRun
<1>4. ASSUME NEW c \in Console, Listed(c)
      PROVE  Processes'
  BY <1>4 DEF Listed, Idle, NoRun
<1>5. ASSUME NEW c \in Console, Kill(c)
      PROVE  Processes'
  <2>1. con[c].run \in Run /\ pid[con[c].run] \in Pid
    BY <1>5 DEF Kill
  <2>2. CASE UNCHANGED <<proc, table>>
    BY <1>5, <2>2 DEF Kill
  <2>3. CASE Ends(pid[con[c].run])
    BY <1>5, <2>1, <2>3 DEF Kill, Ends
  <2> QED
    BY <1>5, <2>2, <2>3 DEF Kill
<1>6. ASSUME NEW c \in Console, Take(c)
      PROVE  Processes'
  BY <1>6 DEF Take
<1>7. ASSUME NEW c \in Console, Closed(c)
      PROVE  Processes'
  BY <1>7 DEF Closed, Idle, NoRun
<1>8. ASSUME NEW c \in Console, NEW r \in Run, Read(c, r)
      PROVE  Processes'
  BY <1>8 DEF Read, Idle, NoRun
<1>9. ASSUME NEW c \in Console, NEW r \in Run, Remove(c, r)
      PROVE  Processes'
  BY <1>9 DEF Remove
<1>10. ASSUME NEW c \in Console, NEW r \in Run, Pick(c, r)
      PROVE  Processes'
  BY <1>10 DEF Pick
<1>11. ASSUME NEW c \in Console, NEW r \in Run, NEW p \in Pid, Launch(c, r, p)
      PROVE  Processes'
  BY <1>11 DEF Launch, Idle, NoRun
<1>12. ASSUME NEW r \in Run, NEW o \in {"passed", "failed", "nothing"}, Pester(r, o)
      PROVE  Processes'
  BY <1>12 DEF Pester
<1>13. ASSUME NEW r \in Run, Complete(r)
      PROVE  Processes'
  BY <1>13 DEF Complete, Judged
<1>14. ASSUME NEW r \in Run, Exit(r)
      PROVE  Processes'
  BY <1>14 DEF Exit, Ends
<1>15. ASSUME NEW p \in Pid, Reuse(p)
      PROVE  Processes'
  BY <1>15 DEF Reuse
<1>16. CASE UNCHANGED vars
  BY <1>16 DEF vars
<1> HIDE DEF EstateIInv, TypeOK, Processes, Living, Consoles
<1> QED
  BY <1>1, <1>2, <1>3, <1>4, <1>5, <1>6, <1>7, <1>8, <1>9, <1>10, <1>11,
     <1>12, <1>13, <1>14, <1>15, <1>16
     DEF Next

(* What a record says of its run: the start is written for a run that      *)
(* began, the verdict by the run.                                          *)
LEMMA RecordsStep == EstateIInv /\ [Next]_vars => Records'
<1> SUFFICES ASSUME EstateIInv, [Next]_vars PROVE Records'
  OBVIOUS
<1> USE EstateAssumption DEF EstateIInv, TypeOK, Processes, Living, Records, Consoles, Sound, Told
<1>1. ASSUME NEW c \in Console, NEW op \in {"start", "stop"}, Begin(c, op)
      PROVE  Records'
  BY <1>1 DEF Begin, Idle, NoRun, Recorded
<1>2. ASSUME NEW c \in Console, NEW r \in Run, Judge(c, r)
      PROVE  Records'
  BY <1>2 DEF Judge, State, Alive
<1>3. ASSUME NEW c \in Console, WriteStart(c)
      PROVE  Records'
  BY <1>3 DEF WriteStart, Idle, NoRun
<1>4. ASSUME NEW c \in Console, Listed(c)
      PROVE  Records'
  BY <1>4 DEF Listed, Idle, NoRun
<1>5. ASSUME NEW c \in Console, Kill(c)
      PROVE  Records'
  BY <1>5 DEF Kill, Ends, Idle, NoRun
<1>6. ASSUME NEW c \in Console, Take(c)
      PROVE  Records'
  BY <1>6 DEF Take
<1>7. ASSUME NEW c \in Console, Closed(c)
      PROVE  Records'
  BY <1>7 DEF Closed, Idle, NoRun
<1>8. ASSUME NEW c \in Console, NEW r \in Run, Read(c, r)
      PROVE  Records'
  BY <1>8 DEF Read, Idle, NoRun
<1>9. ASSUME NEW c \in Console, NEW r \in Run, Remove(c, r)
      PROVE  Records'
  BY <1>9 DEF Remove
<1>10. ASSUME NEW c \in Console, NEW r \in Run, Pick(c, r)
      PROVE  Records'
  BY <1>10 DEF Pick
<1>11. ASSUME NEW c \in Console, NEW r \in Run, NEW p \in Pid, Launch(c, r, p)
      PROVE  Records'
  BY <1>11 DEF Launch, Idle, NoRun
<1>12. ASSUME NEW r \in Run, NEW o \in {"passed", "failed", "nothing"}, Pester(r, o)
      PROVE  Records'
  BY <1>12 DEF Pester
<1>13. ASSUME NEW r \in Run, Complete(r)
      PROVE  Records'
  BY <1>13 DEF Complete, Judged
<1>14. ASSUME NEW r \in Run, Exit(r)
      PROVE  Records'
  BY <1>14 DEF Exit, Ends
<1>15. ASSUME NEW p \in Pid, Reuse(p)
      PROVE  Records'
  BY <1>15 DEF Reuse
<1>16. CASE UNCHANGED vars
  BY <1>16 DEF vars
<1> HIDE DEF EstateIInv, TypeOK, Processes, Living, Records, Consoles, Sound, Told
<1> QED
  BY <1>1, <1>2, <1>3, <1>4, <1>5, <1>6, <1>7, <1>8, <1>9, <1>10, <1>11,
     <1>12, <1>13, <1>14, <1>15, <1>16
     DEF Next

(* What a console read or listed stays true of a run, because a run never  *)
(* begins again, tells once and stays gone.                                *)
LEMMA ConsolesStep == EstateIInv /\ [Next]_vars => Consoles'
<1> SUFFICES ASSUME EstateIInv, [Next]_vars PROVE Consoles'
  OBVIOUS
<1> USE EstateAssumption DEF EstateIInv, TypeOK, Processes, Living, Records, Consoles, Sound, Told
<1>1. ASSUME NEW c \in Console, NEW op \in {"start", "stop"}, Begin(c, op)
      PROVE  Consoles'
  BY <1>1 DEF Begin, Idle, NoRun, Recorded
<1>2. ASSUME NEW c \in Console, NEW r \in Run, Judge(c, r)
      PROVE  Consoles'
  BY <1>2 DEF Judge, State, Alive
<1>3. ASSUME NEW c \in Console, WriteStart(c)
      PROVE  Consoles'
  BY <1>3 DEF WriteStart, Idle, NoRun
<1>4. ASSUME NEW c \in Console, Listed(c)
      PROVE  Consoles'
  BY <1>4 DEF Listed, Idle, NoRun
<1>5. ASSUME NEW c \in Console, Kill(c)
      PROVE  Consoles'
  <2> HIDE DEF TypeOK, Processes, Consoles
  <2> QED
    BY <1>5, KillEnds
<1>6. ASSUME NEW c \in Console, Take(c)
      PROVE  Consoles'
  BY <1>6 DEF Take
<1>7. ASSUME NEW c \in Console, Closed(c)
      PROVE  Consoles'
  BY <1>7 DEF Closed, Idle, NoRun
<1>8. ASSUME NEW c \in Console, NEW r \in Run, Read(c, r)
      PROVE  Consoles'
  BY <1>8 DEF Read, Idle, NoRun
<1>9. ASSUME NEW c \in Console, NEW r \in Run, Remove(c, r)
      PROVE  Consoles'
  BY <1>9 DEF Remove
<1>10. ASSUME NEW c \in Console, NEW r \in Run, Pick(c, r)
      PROVE  Consoles'
  BY <1>10 DEF Pick
<1>11. ASSUME NEW c \in Console, NEW r \in Run, NEW p \in Pid, Launch(c, r, p)
      PROVE  Consoles'
  BY <1>11 DEF Launch, Idle, NoRun
<1>12. ASSUME NEW r \in Run, NEW o \in {"passed", "failed", "nothing"}, Pester(r, o)
      PROVE  Consoles'
  BY <1>12 DEF Pester
<1>13. ASSUME NEW r \in Run, Complete(r)
      PROVE  Consoles'
  BY <1>13 DEF Complete, Judged
<1>14. ASSUME NEW r \in Run, Exit(r)
      PROVE  Consoles'
  BY <1>14 DEF Exit, Ends
<1>15. ASSUME NEW p \in Pid, Reuse(p)
      PROVE  Consoles'
  BY <1>15 DEF Reuse
<1>16. CASE UNCHANGED vars
  BY <1>16 DEF vars
<1> HIDE DEF EstateIInv, TypeOK, Processes, Living, Records, Consoles, Sound, Told
<1> QED
  BY <1>1, <1>2, <1>3, <1>4, <1>5, <1>6, <1>7, <1>8, <1>9, <1>10, <1>11,
     <1>12, <1>13, <1>14, <1>15, <1>16
     DEF Next

(* The start of a run is recorded by the console that let it loose alone.  *)
LEMMA OneWriterStep == EstateIInv /\ [Next]_vars => OneWriter'
<1> SUFFICES ASSUME EstateIInv, [Next]_vars PROVE OneWriter'
  OBVIOUS
<1> USE EstateAssumption DEF EstateIInv, TypeOK, Records, Consoles, Sound, Told, OneWriter, Writes, Knows,
       StoppedLeavesNothing
<1>1. ASSUME NEW c \in Console, NEW op \in {"start", "stop"}, Begin(c, op)
      PROVE  OneWriter'
  BY <1>1 DEF Begin, Idle, NoRun, Recorded
<1>2. ASSUME NEW c \in Console, NEW r \in Run, Judge(c, r)
      PROVE  OneWriter'
  <2> HIDE DEF TypeOK, OneWriter
  <2> QED
    BY <1>2, JudgeLearnsNothing
<1>3. ASSUME NEW c \in Console, WriteStart(c)
      PROVE  OneWriter'
  BY <1>3 DEF WriteStart, Idle, NoRun
<1>4. ASSUME NEW c \in Console, Listed(c)
      PROVE  OneWriter'
  BY <1>4 DEF Listed, Idle, NoRun
<1>5. ASSUME NEW c \in Console, Kill(c)
      PROVE  OneWriter'
  <2> HIDE DEF TypeOK, OneWriter
  <2> QED
    BY <1>5, KillLearnsNothing
<1>6. ASSUME NEW c \in Console, Take(c)
      PROVE  OneWriter'
  BY <1>6 DEF Take
<1>7. ASSUME NEW c \in Console, Closed(c)
      PROVE  OneWriter'
  BY <1>7 DEF Closed, Idle, NoRun
<1>8. ASSUME NEW c \in Console, NEW r \in Run, Read(c, r)
      PROVE  OneWriter'
  BY <1>8 DEF Read, Idle, NoRun
<1>9. ASSUME NEW c \in Console, NEW r \in Run, Remove(c, r)
      PROVE  OneWriter'
  BY <1>9 DEF Remove
<1>10. ASSUME NEW c \in Console, NEW r \in Run, Pick(c, r)
      PROVE  OneWriter'
  <2> HIDE DEF TypeOK, OneWriter
  <2> QED
    BY <1>10, PickLearnsNothing
<1>11. ASSUME NEW c \in Console, NEW r \in Run, NEW p \in Pid, Launch(c, r, p)
      PROVE  OneWriter'
  BY <1>11 DEF Launch, Idle, NoRun
<1>12. ASSUME NEW r \in Run, NEW o \in {"passed", "failed", "nothing"}, Pester(r, o)
      PROVE  OneWriter'
  BY <1>12 DEF Pester
<1>13. ASSUME NEW r \in Run, Complete(r)
      PROVE  OneWriter'
  BY <1>13 DEF Complete, Judged
<1>14. ASSUME NEW r \in Run, Exit(r)
      PROVE  OneWriter'
  BY <1>14 DEF Exit, Ends
<1>15. ASSUME NEW p \in Pid, Reuse(p)
      PROVE  OneWriter'
  BY <1>15 DEF Reuse
<1>16. CASE UNCHANGED vars
  BY <1>16 DEF vars
<1> HIDE DEF EstateIInv, TypeOK, Records, Consoles, Sound, Told, OneWriter, Writes, Knows,
       StoppedLeavesNothing
<1> QED
  BY <1>1, <1>2, <1>3, <1>4, <1>5, <1>6, <1>7, <1>8, <1>9, <1>10, <1>11,
     <1>12, <1>13, <1>14, <1>15, <1>16
     DEF Next

(* What is stopped stays so: only the writer of its start and the run      *)
(* itself write its record.                                                *)
LEMMA StoppedLeavesNothingStep == EstateIInv /\ [Next]_vars => StoppedLeavesNothing'
<1> SUFFICES ASSUME EstateIInv, [Next]_vars PROVE StoppedLeavesNothing'
  OBVIOUS
<1> USE EstateAssumption DEF EstateIInv, TypeOK, Processes, Consoles, OneWriter, Writes, Knows,
       StoppedLeavesNothing, Living
<1>1. ASSUME NEW c \in Console, NEW op \in {"start", "stop"}, Begin(c, op)
      PROVE  StoppedLeavesNothing'
  BY <1>1 DEF Begin, Idle, NoRun, Recorded
<1>2. ASSUME NEW c \in Console, NEW r \in Run, Judge(c, r)
      PROVE  StoppedLeavesNothing'
  BY <1>2 DEF Judge, State, Alive
<1>3. ASSUME NEW c \in Console, WriteStart(c)
      PROVE  StoppedLeavesNothing'
  BY <1>3 DEF WriteStart, Idle, NoRun
<1>4. ASSUME NEW c \in Console, Listed(c)
      PROVE  StoppedLeavesNothing'
  BY <1>4 DEF Listed, Idle, NoRun
<1>5. ASSUME NEW c \in Console, Kill(c)
      PROVE  StoppedLeavesNothing'
  BY <1>5 DEF Kill, Ends, Idle, NoRun
<1>6. ASSUME NEW c \in Console, Take(c)
      PROVE  StoppedLeavesNothing'
  BY <1>6 DEF Take
<1>7. ASSUME NEW c \in Console, Closed(c)
      PROVE  StoppedLeavesNothing'
  BY <1>7 DEF Closed, Idle, NoRun
<1>8. ASSUME NEW c \in Console, NEW r \in Run, Read(c, r)
      PROVE  StoppedLeavesNothing'
  BY <1>8 DEF Read, Idle, NoRun
<1>9. ASSUME NEW c \in Console, NEW r \in Run, Remove(c, r)
      PROVE  StoppedLeavesNothing'
  BY <1>9 DEF Remove
<1>10. ASSUME NEW c \in Console, NEW r \in Run, Pick(c, r)
      PROVE  StoppedLeavesNothing'
  BY <1>10 DEF Pick
<1>11. ASSUME NEW c \in Console, NEW r \in Run, NEW p \in Pid, Launch(c, r, p)
      PROVE  StoppedLeavesNothing'
  BY <1>11 DEF Launch, Idle, NoRun
<1>12. ASSUME NEW r \in Run, NEW o \in {"passed", "failed", "nothing"}, Pester(r, o)
      PROVE  StoppedLeavesNothing'
  BY <1>12 DEF Pester
<1>13. ASSUME NEW r \in Run, Complete(r)
      PROVE  StoppedLeavesNothing'
  BY <1>13 DEF Complete, Judged
<1>14. ASSUME NEW r \in Run, Exit(r)
      PROVE  StoppedLeavesNothing'
  BY <1>14 DEF Exit, Ends
<1>15. ASSUME NEW p \in Pid, Reuse(p)
      PROVE  StoppedLeavesNothing'
  BY <1>15 DEF Reuse
<1>16. CASE UNCHANGED vars
  BY <1>16 DEF vars
<1> HIDE DEF EstateIInv, TypeOK, Processes, Consoles, OneWriter, Writes, Knows,
       StoppedLeavesNothing, Living
<1> QED
  BY <1>1, <1>2, <1>3, <1>4, <1>5, <1>6, <1>7, <1>8, <1>9, <1>10, <1>11,
     <1>12, <1>13, <1>14, <1>15, <1>16
     DEF Next

------------------------------------------------------------------------------
(* EstateIInv is inductive: every step of a console, of a run and of the   *)
(* machine keeps it.                                                       *)
THEOREM EstateIInvariant == Spec => []EstateIInv
<1>1. Init => EstateIInv
  BY EstateAssumption
     DEF Init, EstateIInv, TypeOK, Session, Idle, NoRun, Processes, Records, Consoles, Sound,
         OneWriter, Writes, StoppedLeavesNothing
<1>2. EstateIInv /\ [Next]_vars => EstateIInv'
  BY TypeOKStep, ProcessesStep, RecordsStep, ConsolesStep, OneWriterStep,
     StoppedLeavesNothingStep
     DEF EstateIInv
<1> QED
  BY <1>1, <1>2, PTL DEF Spec

(* However many consoles start, list and stop runs: the types, a run's     *)
(* process is the one its id names for as long as it lives, and a run is   *)
(* listed OK only if Pester returned a result in it that passed            *)
(* (Complete-XmipEstateRun.ps1, Get-XmipEstateRun.ps1).                    *)
THEOREM EstateInvariant == Spec => []EstateInv
<1>1. EstateIInv => EstateInv
  BY DEF EstateIInv, EstateInv, Processes, Living, Consoles, Sound, OnlyPassedIsOK
<1> QED
  BY <1>1, EstateIInvariant, PTL

(* A run that Stop-XmipTest reported stopped has ended and no record of it *)
(* comes back: the console that let it loose has long recorded its start,  *)
(* and the run itself can tell no verdict any more (Stop-XmipTest.ps1,     *)
(* Start-XmipEstateSuite.ps1).                                             *)
THEOREM StoppedStays == Spec => []StoppedLeavesNothing
<1>1. EstateIInv => StoppedLeavesNothing
  BY DEF EstateIInv
<1> QED
  BY <1>1, EstateIInvariant, PTL

(* What a step may make of a record: its start where there was none, the   *)
(* verdict of the run that has one to tell, or nothing, of a run that told *)
(* or is gone.                                                             *)
RecordChanges(r) ==
    \/ record'[r] = record[r]
    \/ record[r] = "none" /\ record'[r] = "start"
    \/ proc[r] = "judged" /\ record'[r] \in {"OK", "FAILED"}
    \/ proc[r] \in Told /\ record'[r] = "none"

(* Every step makes one of these of a record, or leaves it.                *)
LEMMA RecordStep ==
    EstateIInv /\ [Next]_vars => \A q \in Run : RecordChanges(q)
<1> SUFFICES ASSUME EstateIInv, [Next]_vars, NEW q \in Run PROVE RecordChanges(q)
  OBVIOUS
<1> USE EstateAssumption DEF EstateIInv, TypeOK, Records, Consoles, Sound, Told, RecordChanges
<1>1. ASSUME NEW c \in Console, NEW op \in {"start", "stop"}, Begin(c, op)
      PROVE  RecordChanges(q)
  BY <1>1 DEF Begin, Idle, NoRun, Recorded
<1>2. ASSUME NEW c \in Console, NEW r \in Run, Judge(c, r)
      PROVE  RecordChanges(q)
  BY <1>2 DEF Judge, State, Alive
<1>3. ASSUME NEW c \in Console, WriteStart(c)
      PROVE  RecordChanges(q)
  BY <1>3 DEF WriteStart, Idle, NoRun
<1>4. ASSUME NEW c \in Console, Listed(c)
      PROVE  RecordChanges(q)
  BY <1>4 DEF Listed, Idle, NoRun
<1>5. ASSUME NEW c \in Console, Kill(c)
      PROVE  RecordChanges(q)
  BY <1>5 DEF Kill, Ends, Idle, NoRun
<1>6. ASSUME NEW c \in Console, Take(c)
      PROVE  RecordChanges(q)
  BY <1>6 DEF Take
<1>7. ASSUME NEW c \in Console, Closed(c)
      PROVE  RecordChanges(q)
  BY <1>7 DEF Closed, Idle, NoRun
<1>8. ASSUME NEW c \in Console, NEW r \in Run, Read(c, r)
      PROVE  RecordChanges(q)
  BY <1>8 DEF Read, Idle, NoRun
<1>9. ASSUME NEW c \in Console, NEW r \in Run, Remove(c, r)
      PROVE  RecordChanges(q)
  <2>1. con[c].seen[r] \in {"ended", "OK", "FAILED"}
    BY <1>9 DEF Remove, Session
  <2> QED
    BY <1>9, <2>1 DEF Remove
<1>10. ASSUME NEW c \in Console, NEW r \in Run, Pick(c, r)
      PROVE  RecordChanges(q)
  BY <1>10 DEF Pick
<1>11. ASSUME NEW c \in Console, NEW r \in Run, NEW p \in Pid, Launch(c, r, p)
      PROVE  RecordChanges(q)
  BY <1>11 DEF Launch, Idle, NoRun
<1>12. ASSUME NEW r \in Run, NEW o \in {"passed", "failed", "nothing"}, Pester(r, o)
      PROVE  RecordChanges(q)
  BY <1>12 DEF Pester
<1>13. ASSUME NEW r \in Run, Complete(r)
      PROVE  RecordChanges(q)
  BY <1>13 DEF Complete, Judged
<1>14. ASSUME NEW r \in Run, Exit(r)
      PROVE  RecordChanges(q)
  BY <1>14 DEF Exit, Ends
<1>15. ASSUME NEW p \in Pid, Reuse(p)
      PROVE  RecordChanges(q)
  BY <1>15 DEF Reuse
<1>16. CASE UNCHANGED vars
  BY <1>16 DEF vars
<1> HIDE DEF EstateIInv, TypeOK, Records, Consoles, Sound, Told, RecordChanges
<1> QED
  BY <1>1, <1>2, <1>3, <1>4, <1>5, <1>6, <1>7, <1>8, <1>9, <1>10, <1>11,
     <1>12, <1>13, <1>14, <1>15, <1>16
     DEF Next

(* A run that is still testing keeps its record: a start clears the ended  *)
(* runs alone, however long ago it listed them, and a stop takes the       *)
(* record of a run that is gone (Remove-XmipEstateFinished, Stop-XmipTest).*)
THEOREM RunningRecordKept == Spec => RunningKeepsRecord
<1>1. ASSUME EstateIInv, [Next]_vars
      PROVE  [\A r \in Run : record[r] # "none" /\ record'[r] = "none"
                                 => proc[r] \notin {"testing", "judged"}]_vars
  BY <1>1, RecordStep DEF RecordChanges, Told
<1> QED
  BY <1>1, EstateIInvariant, PTL DEF Spec, RunningKeepsRecord

(* The verdict a run wrote stands in its record until the record is        *)
(* deleted, though the console records the start after the run was let     *)
(* loose (Write-XmipEstateStart).                                          *)
THEOREM VerdictKept == Spec => VerdictStands
<1>1. ASSUME EstateIInv, [Next]_vars
      PROVE  [\A r \in Run : record[r] \in {"OK", "FAILED"}
                                 => record'[r] \in {record[r], "none"}]_vars
  BY <1>1, RecordStep DEF RecordChanges, Told, EstateIInv, Records, Sound
<1> QED
  BY <1>1, EstateIInvariant, PTL DEF Spec, VerdictStands

(* What a step may list newly as running.                                  *)
ListChanges(c, r) ==
    con'[c].seen[r] # con[c].seen[r] =>
        /\ con'[c].seen[r] = "running" =>
              proc[r] \in Living \/ \E q \in Alike[r] \ {r} : table[pid[r]] = q
        /\ con'[c].seen[r] = "ended" => proc[r] = "gone"

(* A run is newly listed by judging it, and its process is asked for then. *)
LEMMA ListStep ==
    EstateIInv /\ [Next]_vars => \A d \in Console, q \in Run : ListChanges(d, q)
<1> SUFFICES ASSUME EstateIInv, [Next]_vars, NEW d \in Console, NEW q \in Run
             PROVE  ListChanges(d, q)
  OBVIOUS
<1> USE EstateAssumption DEF EstateIInv, TypeOK, Processes, Consoles, ListChanges
<1>1. ASSUME NEW c \in Console, NEW op \in {"start", "stop"}, Begin(c, op)
      PROVE  ListChanges(d, q)
  BY <1>1 DEF Begin, Idle, NoRun, Recorded
<1>2. ASSUME NEW c \in Console, NEW r \in Run, Judge(c, r)
      PROVE  ListChanges(d, q)
  <2>1. d # c => con'[d] = con[d]
    BY <1>2 DEF Judge
  <2>2. /\ con[c].read \in [Run -> {"none", "start", "OK", "FAILED"}]
        /\ con[c].seen \in [Run -> {"none", "running", "ended", "OK", "FAILED"}]
    BY DEF Session
  <2>3. proc[r] # "unborn" /\ pid[r] # None
    BY <1>2 DEF Judge, Sound
  <2>4. State(r, con[c].read[r]) = "running" =>
            proc[r] \in Living \/ \E o \in Alike[r] \ {r} : table[pid[r]] = o
    BY <2>2, <2>3 DEF State, Alive
  <2>5. State(r, con[c].read[r]) = "ended" => proc[r] = "gone"
    BY <2>2, <2>3 DEF State, Alive, Living
  <2> HIDE DEF EstateIInv, TypeOK, Processes, Consoles
  <2>6. TypeOK
    BY DEF EstateIInv
  <2>7. con'[c].seen = [con[c].seen EXCEPT ![r] = State(r, con[c].read[r])]
    BY <1>2, <2>6, JudgeMakes
  <2>8. q # r => con'[c].seen[q] = con[c].seen[q]
    BY <2>2, <2>7
  <2>9. con'[c].seen[r] = State(r, con[c].read[r])
    BY <2>2, <2>7
  <2> QED
    BY <2>1, <2>4, <2>5, <2>8, <2>9 DEF ListChanges
<1>3. ASSUME NEW c \in Console, WriteStart(c)
      PROVE  ListChanges(d, q)
  BY <1>3 DEF WriteStart, Idle, NoRun
<1>4. ASSUME NEW c \in Console, Listed(c)
      PROVE  ListChanges(d, q)
  BY <1>4 DEF Listed, Idle, NoRun
<1>5. ASSUME NEW c \in Console, Kill(c)
      PROVE  ListChanges(d, q)
  <2>1. d # c => con'[d] = con[d]
    BY <1>5 DEF Kill
  <2> HIDE DEF EstateIInv, TypeOK, Processes, Consoles
  <2>2. con'[c].seen = NoRun \/ con'[c].seen = con[c].seen
    BY <1>5, KillMakes DEF EstateIInv
  <2>3. NoRun[q] = "none"
    BY DEF NoRun
  <2> QED
    BY <2>1, <2>2, <2>3 DEF ListChanges
<1>6. ASSUME NEW c \in Console, Take(c)
      PROVE  ListChanges(d, q)
  BY <1>6 DEF Take
<1>7. ASSUME NEW c \in Console, Closed(c)
      PROVE  ListChanges(d, q)
  BY <1>7 DEF Closed, Idle, NoRun
<1>8. ASSUME NEW c \in Console, NEW r \in Run, Read(c, r)
      PROVE  ListChanges(d, q)
  BY <1>8 DEF Read, Idle, NoRun
<1>9. ASSUME NEW c \in Console, NEW r \in Run, Remove(c, r)
      PROVE  ListChanges(d, q)
  BY <1>9 DEF Remove
<1>10. ASSUME NEW c \in Console, NEW r \in Run, Pick(c, r)
      PROVE  ListChanges(d, q)
  BY <1>10 DEF Pick
<1>11. ASSUME NEW c \in Console, NEW r \in Run, NEW p \in Pid, Launch(c, r, p)
      PROVE  ListChanges(d, q)
  BY <1>11 DEF Launch, Idle, NoRun
<1>12. ASSUME NEW r \in Run, NEW o \in {"passed", "failed", "nothing"}, Pester(r, o)
      PROVE  ListChanges(d, q)
  BY <1>12 DEF Pester
<1>13. ASSUME NEW r \in Run, Complete(r)
      PROVE  ListChanges(d, q)
  BY <1>13 DEF Complete, Judged
<1>14. ASSUME NEW r \in Run, Exit(r)
      PROVE  ListChanges(d, q)
  BY <1>14 DEF Exit, Ends
<1>15. ASSUME NEW p \in Pid, Reuse(p)
      PROVE  ListChanges(d, q)
  BY <1>15 DEF Reuse
<1>16. CASE UNCHANGED vars
  BY <1>16 DEF vars
<1> HIDE DEF EstateIInv, TypeOK, Processes, Consoles, ListChanges
<1> QED
  BY <1>1, <1>2, <1>3, <1>4, <1>5, <1>6, <1>7, <1>8, <1>9, <1>10, <1>11,
     <1>12, <1>13, <1>14, <1>15, <1>16
     DEF Next

(* A run is newly listed as running only while its own pwsh lives, or      *)
(* another begun within five seconds of it has its id, and as ended only   *)
(* when it is gone (Test-XmipDetachedAlive).                               *)
THEOREM ListedIsAlive == Spec => ListedAlive
<1>1. ASSUME EstateIInv, [Next]_vars
      PROVE  [\A c \in Console, r \in Run :
                con'[c].seen[r] # con[c].seen[r] =>
                   /\ con'[c].seen[r] = "running" =>
                         \/ proc[r] \in {"testing", "judged", "told"}
                         \/ \E q \in Alike[r] \ {r} : table[pid[r]] = q
                   /\ con'[c].seen[r] = "ended" => proc[r] = "gone"]_vars
  BY <1>1, ListStep DEF ListChanges, Living
<1> QED
  BY <1>1, EstateIInvariant, PTL DEF Spec, ListedAlive
==============================================================================
