---------------------------- MODULE ProgramProofs ----------------------------
(***************************************************************************)
(* Proofs about Arguments and Program: for every command line, however     *)
(* long, and every platform.  The reading keeps an invariant of the words  *)
(* read so far, from which the verdict on the whole line follows; the      *)
(* process keeps where it is in step with the node's run, with what the    *)
(* manager heard of it and with what a slice keeps.                        *)
(***************************************************************************)
EXTENDS Program, SequenceTheorems, TLAPS

(* What is read so far: the types, every word read in its place, each flag *)
(* with its last value, the switches as they were met, and what was made   *)
(* of it.                                                                  *)
ReadTypes ==
    /\ line \in Lines /\ at \in 0..Len(line)
    /\ given \in [Flag -> Plain \cup {None}] /\ switches \in Seq(Switch)
    /\ result \in {"reading", "accepted", "refused"}

Placed ==
    \A i \in 1..at :
        /\ line[i] \notin Strange
        /\ line[i] \in Flag => /\ i < at /\ line[i + 1] \in Plain
                               /\ Declared(line[i], line[i + 1])
        /\ line[i] \in Plain => i > 1 /\ line[i - 1] \in Flag

Valued == \A f \in Flag : Says(line, at, f, given[f])

Met ==
    /\ switches = <<>> => \A i \in 1..at : line[i] \notin Switch
    /\ switches # <<>> => \E i \in 1..at : line[i] = switches[1]
    /\ Len(switches) = 1 =>
          \A i, j \in 1..at : line[i] \in Switch /\ line[j] \in Switch => i = j
    /\ Len(switches) > 1 =>
          \E i, j \in 1..at : i # j /\ line[i] \in Switch /\ line[j] \in Switch

Judged ==
    /\ result = "accepted" => at = Len(line) /\ Fits
    /\ result = "refused" => ~WellFormed(line) \/ (at = Len(line) /\ ~Fits)

ReadIInv == ReadTypes /\ Placed /\ Valued /\ Met /\ Judged

(* The types of the process and of what the manager keeps.                 *)
Early == {"main", "print", "read", "place", "cut", "sign", "handler", "dispatcher",
          "register"}
Slicing == {"read", "place", "cut", "sign"}

ProcessTypes ==
    /\ pc \in Early \cup {"run", "ending", "put", "returned", "exited"}
    /\ code \in {None, SUCCESS, REFUSED, "killed", "crashed"}
    /\ pc = "exited" <=> code # None
    /\ ENDED \in {None, SUCCESS, REFUSED}
    /\ heard \in [state : {"nothing", "StartPending", "Running", "StopPending", "Stopped"},
                  code : {SUCCESS, REFUSED}]
    /\ asked \in {"no", "asked", "delivered"}
    /\ kept \subseteq {"beside", "named"}
    /\ handler \in BOOLEAN /\ served \in BOOLEAN

(* Each place of the program is reached by the lines that lead there.      *)
Led ==
    /\ pc \notin {"main", "exited"} => result = "accepted"
    /\ pc = "print" => ~Runs
    /\ pc \in Slicing => mode = "--slice"
    /\ pc \in {"handler", "dispatcher", "register", "run", "ending", "put", "returned"} => Runs
    /\ pc = "handler" => ~Windows
    /\ pc \in {"dispatcher", "register", "put", "returned"} => Windows

(* Where the node's run is, and that it took work, by where the program is.*)
Lived ==
    /\ pc \in Early => life = "starting" /\ ~served /\ ENDED = None /\ ~handler
    /\ pc = "run" => /\ life \in {"starting", "serving", "draining"}
                     /\ served = (life # "starting") /\ ENDED = None /\ handler
    /\ pc = "ending" => /\ life \in {"stopped", "refused"}
                        /\ served = (life = "stopped") /\ ENDED = None /\ handler
    /\ pc = "put" => life \in {"stopped", "refused"} /\ ENDED = Code /\ handler
    /\ pc \in {"put", "returned"} => /\ ENDED = SUCCESS => served /\ life = "stopped"
                                     /\ ENDED # SUCCESS => ~served /\ ENDED = REFUSED
    /\ code = REFUSED => ~served
    /\ code = SUCCESS /\ Runs => served /\ life = "stopped"
    /\ code = "killed" => ~served

(* What the manager may have heard, by where the program and the run are.  *)
Heard ==
    /\ pc \in Early => heard = Unheard
    /\ pc = "run" /\ life = "starting" => heard.state \in {"nothing", "StartPending"}
    /\ pc = "run" /\ life = "serving" =>
          heard.state \in {"nothing", "StartPending", "Running"}
    /\ heard.state = "Stopped" => pc \in {"returned", "exited"}
    /\ Windows /\ heard.state = "Stopped" => ENDED = heard.code
    /\ heard.state = "Stopped" => code \in {None, heard.code, "crashed"}

(* An authority is kept by a slice that has ended, where the line says.    *)
Kept ==
    kept # {} => /\ result = "accepted" /\ mode = "--slice" /\ pc = "exited"
                 /\ kept = {Authority}

ProgramIInv == ReadIInv /\ ProcessTypes /\ Led /\ Lived /\ Heard /\ Kept

------------------------------------------------------------------------------
(* A line is a sequence of words, and each word is of one kind.            *)
LEMMA LineWords ==
    ASSUME ReadTypes
    PROVE  /\ line \in Seq(Word) /\ Len(line) \in Nat
           /\ \A i \in 1..Len(line) : line[i] \in Word
           /\ DOMAIN line = 1..Len(line)
BY ArgumentsAssumption DEF ReadTypes

(* A value that flag f is given in the words read stays its last one while *)
(* f is not read again.                                                    *)
LEMMA SaysOn ==
    ASSUME NEW l, NEW n \in Nat, NEW k \in Nat, n <= k, NEW f, NEW v, Says(l, n, f, v),
           \A i \in (n + 1)..k : l[i] # f
    PROVE  Says(l, k, f, v)
<1>1. CASE v = None
  BY <1>1 DEF Says
<1>2. CASE v # None
  <2>1. PICK i \in 1..(n - 1) :
           l[i] = f /\ l[i + 1] = v /\ \A j \in (i + 1)..n : l[j] # f
    BY <1>2 DEF Says
  <2>2. i \in 1..(k - 1) /\ \A j \in (i + 1)..k : l[j] # f
    BY <2>1
  <2> QED
    BY <1>2, <2>1, <2>2 DEF Says
<1> QED
  BY <1>1, <1>2

(* The last value of a flag is one.                                        *)
LEMMA SaysOne ==
    ASSUME NEW l, NEW n \in Nat, NEW f, NEW v, NEW w, v # None, w # None,
           Says(l, n, f, v), Says(l, n, f, w)
    PROVE  v = w
<1>1. PICK i \in 1..(n - 1) :
         l[i] = f /\ l[i + 1] = v /\ \A j \in (i + 1)..n : l[j] # f
  BY DEF Says
<1>2. PICK k \in 1..(n - 1) :
         l[k] = f /\ l[k + 1] = w /\ \A j \in (k + 1)..n : l[j] # f
  BY DEF Says
<1>3. ~(i < k) /\ ~(k < i)
  BY <1>1, <1>2
<1> QED
  BY <1>1, <1>2, <1>3

(* A flag just read with its value behind it has that value.               *)
LEMMA SaysNow ==
    ASSUME NEW l, NEW k \in Nat, k > 0, NEW f, NEW v, l[k] = f, l[k + 1] = v, v # f, v # None
    PROVE  Says(l, k + 1, f, v)
<1>1. k \in 1..(k + 1 - 1) /\ \A j \in (k + 1)..(k + 1) : l[j] # f
  OBVIOUS
<1> QED
  BY <1>1 DEF Says

(* A flag with its value behind it is placed and valued; one without       *)
(* spoils the line, whatever follows.                                      *)
LEMMA ValueKeeps ==
    ASSUME ReadIInv, NEW f \in Flag, Value(f)
    PROVE  ReadIInv'
<1> USE ArgumentsAssumption
<1>1. /\ line \in Seq(Word) /\ Len(line) \in Nat
      /\ \A i \in 1..Len(line) : line[i] \in Word /\ DOMAIN line = 1..Len(line)
  BY LineWords DEF ReadIInv
<1>2. at \in Nat /\ result = "reading" /\ at < Len(line) /\ line[at + 1] = f
  BY DEF ReadIInv, ReadTypes, Value
<1> DEFINE w == line[at + 2]
<1>3. CASE at + 2 <= Len(line) /\ w \in Plain /\ Declared(f, w)
  <2>1. /\ given' = [given EXCEPT ![f] = w] /\ at' = at + 2
        /\ UNCHANGED <<line, switches, result>>
    BY <1>3 DEF Value
  <2>2. ReadTypes'
    BY <1>2, <1>3, <2>1 DEF ReadIInv, ReadTypes
  <2>3. Placed'
    BY <1>1, <1>2, <1>3, <2>1 DEF ReadIInv, Placed, Declared
  <2>4. Valued'
    <3>1. PICK k \in Nat, n \in Nat : k = at + 1 /\ n = k + 1
      BY <1>2
    <3>2. at' = n /\ at <= n /\ k > 0 /\ line[k] = f /\ line[n] = w
      BY <1>2, <2>1, <3>1
    <3>3. ASSUME NEW g \in Flag PROVE Says(line, n, g, given'[g])
      <4>1. CASE g = f
        <5>1. given'[g] = w /\ w # None /\ w # f
          BY <1>2, <1>3, <2>1, <4>1 DEF ReadIInv, ReadTypes, Word
        <5>2. Says(line, k + 1, f, w)
          BY <3>1, <3>2, <5>1, SaysNow
        <5> QED
          BY <3>1, <4>1, <5>1, <5>2
      <4>2. CASE g # f
        <5>1. given'[g] = given[g] /\ Says(line, at, g, given[g])
          BY <2>1, <4>2 DEF ReadIInv, ReadTypes, Valued
        <5>2. w # g
          BY <1>3
        <5>3. \A i \in (at + 1)..n : line[i] # g
          BY <1>2, <3>1, <3>2, <4>2, <5>2
        <5> QED
          BY <1>2, <3>2, <5>1, <5>3, SaysOn
      <4> QED
        BY <4>1, <4>2
    <3> QED
      BY <2>1, <3>2, <3>3 DEF Valued
  <2>5. Met'
    <3>1. line[at + 1] \notin Switch /\ line[at + 2] \notin Switch
      BY <1>2, <1>3
    <3>2. \A i \in 1..(at + 2) : line[i] \in Switch => i \in 1..at
      BY <1>2, <3>1
    <3>3. \A i \in 1..at : i \in 1..(at + 2)
      BY <1>2
    <3> QED
      BY <1>2, <2>1, <3>2, <3>3 DEF ReadIInv, Met
  <2>6. Judged'
    BY <1>2, <2>1 DEF Judged
  <2> QED
    BY <2>2, <2>3, <2>4, <2>5, <2>6 DEF ReadIInv
<1>4. CASE ~(at + 2 <= Len(line) /\ w \in Plain /\ Declared(f, w))
  <2>1. Refused
    BY <1>4 DEF Value
  <2>2. ~WellFormed(line)
    BY <1>1, <1>2, <1>4 DEF WellFormed
  <2>3. ReadTypes' /\ Placed' /\ Valued' /\ Met'
    BY <2>1 DEF Refused, ReadIInv, ReadTypes, Placed, Valued, Met
  <2>4. Judged'
    BY <2>1, <2>2 DEF Refused, Judged
  <2> QED
    BY <2>3, <2>4 DEF ReadIInv
<1> QED
  BY <1>3, <1>4

(* A switch is met, and values nothing.                                    *)
LEMMA SwitchedKeeps ==
    ASSUME ReadIInv, Switched
    PROVE  ReadIInv'
<1> USE ArgumentsAssumption
<1>1. /\ line \in Seq(Word) /\ Len(line) \in Nat
      /\ \A i \in 1..Len(line) : line[i] \in Word /\ DOMAIN line = 1..Len(line)
  BY LineWords DEF ReadIInv
<1>2. /\ at \in Nat /\ result = "reading" /\ at < Len(line) /\ line[at + 1] \in Switch
      /\ at' = at + 1 /\ UNCHANGED <<line, given, result>>
      /\ switches' = Append(switches, line[at + 1]) /\ switches \in Seq(Switch)
  BY DEF ReadIInv, ReadTypes, Switched
<1>3. ReadTypes'
  BY <1>2 DEF ReadIInv, ReadTypes
<1>4. Placed'
  BY <1>1, <1>2 DEF ReadIInv, Placed, Declared
<1>5. Valued'
  <2>1. ASSUME NEW g \in Flag PROVE Says(line, at + 1, g, given[g])
    <3>1. Says(line, at, g, given[g]) /\ \A i \in (at + 1)..(at + 1) : line[i] # g
      BY <1>2 DEF ReadIInv, Valued
    <3> QED
      BY <1>2, <3>1, SaysOn
  <2> QED
    BY <1>2, <2>1 DEF Valued
<1>6. Met'
  <2>1. Len(switches') = Len(switches) + 1 /\ switches' # <<>> /\ Len(switches) \in Nat
    BY <1>2
  <2>2. at + 1 \in 1..(at + 1) /\ \A i \in 1..at : i \in 1..(at + 1) /\ i # at + 1
    BY <1>2
  <2>3. CASE switches = <<>>
    <3>1. switches'[1] = line[at + 1] /\ Len(switches') = 1
      BY <1>2, <2>3
    <3>2. \A i \in 1..(at + 1) : line[i] \in Switch => i = at + 1
      BY <1>2, <2>3 DEF ReadIInv, Met
    <3> QED
      BY <1>2, <2>1, <2>2, <3>1, <3>2 DEF Met
  <2>4. CASE switches # <<>>
    <3>1. switches'[1] = switches[1] /\ Len(switches') > 1 /\ switches[1] \in Switch
      BY <1>2, <2>4
    <3>2. PICK i \in 1..at : line[i] = switches[1]
      BY <2>4 DEF ReadIInv, Met
    <3>3. i \in 1..(at + 1) /\ i # at + 1 /\ line[i] \in Switch
      BY <2>2, <3>1, <3>2
    <3> QED
      BY <1>2, <2>1, <2>2, <3>1, <3>2, <3>3 DEF Met
  <2> QED
    BY <2>3, <2>4
<1>7. Judged'
  BY <1>2 DEF Judged
<1> QED
  BY <1>3, <1>4, <1>5, <1>6, <1>7 DEF ReadIInv

(* A plain word that is read as none is no value, since the word before it *)
(* is no flag, and spoils the line; so does a strange one.                 *)
LEMMA UnknownKeeps ==
    ASSUME ReadIInv, Unknown
    PROVE  ReadIInv'
<1> USE ArgumentsAssumption
<1>1. /\ line \in Seq(Word) /\ Len(line) \in Nat
      /\ \A i \in 1..Len(line) : line[i] \in Word /\ DOMAIN line = 1..Len(line)
  BY LineWords DEF ReadIInv
<1>2. /\ at \in Nat /\ at < Len(line) /\ line[at + 1] \notin Flag \cup Switch /\ Refused
  BY DEF ReadIInv, ReadTypes, Unknown
<1>3. line[at + 1] \in Plain \cup Strange
  BY <1>1, <1>2 DEF Word
<1>4. ~WellFormed(line)
  <2> SUFFICES ASSUME WellFormed(line) PROVE FALSE
    OBVIOUS
  <2>1. at + 1 \in DOMAIN line
    BY <1>1, <1>2
  <2>2. PICK k \in DOMAIN line : k = at + 1
    BY <2>1
  <2>3. k > 1 /\ line[k - 1] \in Flag
    BY <1>3, <2>2 DEF WellFormed
  <2>4. at \in 1..at /\ line[at] \in Flag
    BY <1>2, <2>2, <2>3
  <2> QED
    BY <1>2, <2>4 DEF ReadIInv, Placed
<1>5. ReadTypes' /\ Placed' /\ Valued' /\ Met'
  BY <1>2 DEF Refused, ReadIInv, ReadTypes, Placed, Valued, Met
<1>6. Judged'
  BY <1>2, <1>4 DEF Refused, Judged
<1> QED
  BY <1>5, <1>6 DEF ReadIInv

(* The line read to its end is judged.                                     *)
LEMMA SettleKeeps ==
    ASSUME ReadIInv, Settle
    PROVE  ReadIInv'
<1>1. /\ at = Len(line) /\ UNCHANGED <<line, at, given, switches>>
      /\ result' = IF Fits THEN "accepted" ELSE "refused"
  BY DEF Settle
<1>2. ReadTypes' /\ Placed' /\ Valued' /\ Met'
  BY <1>1 DEF ReadIInv, ReadTypes, Placed, Valued, Met
<1>3. Fits' <=> Fits
  BY <1>1 DEF Fits, names, placing, mode, Is
<1>4. Judged'
  BY <1>1, <1>3 DEF Judged
<1> QED
  BY <1>2, <1>4 DEF ReadIInv

------------------------------------------------------------------------------
(* What the words read say of the whole line, once all are read.           *)

(* The switches met are the mode the line asks for, if it asks for one.    *)
LEMMA AsksMode ==
    ASSUME ReadIInv, at = Len(line)
    PROVE  /\ mode \in Switch \cup {"service"}
           /\ \A m \in Switch \cup {"service"} :
                 Asks(line, m) <=> Len(switches) <= 1 /\ m = mode
<1> USE ArgumentsAssumption
<1>1. DOMAIN line = 1..at /\ switches \in Seq(Switch) /\ Len(switches) \in Nat
  BY LineWords DEF ReadIInv, ReadTypes
<1>2. ASSUME NEW m
      PROVE  Asks(line, m) <=>
                /\ \A i, j \in 1..at : line[i] \in Switch /\ line[j] \in Switch => i = j
                /\ m = "service" => \A i \in 1..at : line[i] \notin Switch
                /\ m # "service" => \E i \in 1..at : line[i] \in Switch /\ line[i] = m
  BY <1>1 DEF Asks
<1>3. "service" \notin Switch
  BY DEF Switch
<1>4. CASE switches = <<>>
  <2>1. mode = "service" /\ Len(switches) <= 1
    BY <1>4 DEF mode
  <2>2. \A i \in 1..at : line[i] \notin Switch
    BY <1>4 DEF ReadIInv, Met
  <2>3. Asks(line, "service")
    BY <1>2, <2>2
  <2>4. ASSUME NEW m, m # "service" PROVE ~Asks(line, m)
    BY <1>2, <2>2, <2>4
  <2> QED
    BY <2>1, <2>3, <2>4
<1>5. CASE switches # <<>>
  <2>1. mode = switches[1] /\ mode \in Switch
    BY <1>1, <1>5 DEF mode
  <2>2. PICK i \in 1..at : line[i] = mode
    BY <1>5, <2>1 DEF ReadIInv, Met
  <2>3. CASE Len(switches) = 1
    <3>1. \A j, k \in 1..at : line[j] \in Switch /\ line[k] \in Switch => j = k
      BY <2>3 DEF ReadIInv, Met
    <3> QED
      BY <1>2, <1>3, <2>1, <2>2, <2>3, <3>1
  <2>4. CASE Len(switches) > 1
    <3>1. \E j, k \in 1..at : j # k /\ line[j] \in Switch /\ line[k] \in Switch
      BY <2>4 DEF ReadIInv, Met
    <3> QED
      BY <1>1, <1>2, <2>1, <2>4, <3>1
  <2>5. Len(switches) = 1 \/ Len(switches) > 1
    <3>1. PICK n \in Nat : n = Len(switches)
      BY <1>1
    <3>2. n # 0
      BY <1>1, <1>5, <3>1, EmptySeq
    <3> QED
      BY <3>1, <3>2
  <2> QED
    BY <2>3, <2>4, <2>5
<1> QED
  BY <1>4, <1>5

(* The flags that hold a value are the ones the line names, but for a list *)
(* of nodes that names nobody.                                             *)
LEMMA NamedFlags ==
    ASSUME ReadIInv, at = Len(line), NEW f \in Flag
    PROVE  f \in Named(line) <=>
              Is(f) /\ (f = "--nodes" => given[f] \notin Blank)
<1> USE ArgumentsAssumption
<1>1. DOMAIN line = 1..at /\ at \in Nat /\ given[f] \in Plain \cup {None}
  BY LineWords DEF ReadIInv, ReadTypes
<1>2. Says(line, at, f, given[f])
  BY DEF ReadIInv, Valued
<1>3. CASE given[f] = None
  <2>1. \A i \in DOMAIN line : line[i] # f
    BY <1>1, <1>2, <1>3 DEF Says
  <2> QED
    BY <1>3, <2>1 DEF Named, Is
<1>4. CASE given[f] # None
  <2>1. \E i \in DOMAIN line : line[i] = f
    BY <1>1, <1>2, <1>4 DEF Says
  <2>2. ASSUME NEW b \in Blank PROVE Says(line, at, f, b) <=> b = given[f]
    <3>1. b # None
      BY DEF Word
    <3> QED
      BY <1>1, <1>2, <1>4, <3>1, SaysOne
  <2> QED
    BY <1>4, <2>1, <2>2 DEF Named, Is
<1> QED
  BY <1>3, <1>4

(* What is asked of the line once it is read is what the usage text says.  *)
LEMMA FitsProper ==
    ASSUME ReadIInv, at = Len(line)
    PROVE  Fits <=> Len(switches) <= 1 /\ Proper(line, mode)
<1>1. mode \in Switch \cup {"service"}
  BY AsksMode
<1> DEFINE N == Named(line)
<1>2. /\ Is("--configuration") <=> "--configuration" \in N
      /\ Is("--purpose") <=> "--purpose" \in N
      /\ Is("--node") <=> "--node" \in N
      /\ Is("--cluster") <=> "--cluster" \in N
      /\ Is("--account") <=> "--account" \in N
      /\ Is("--bind") <=> "--bind" \in N
      /\ Is("--authority") <=> "--authority" \in N
      /\ Is("--nodes") /\ given["--nodes"] \notin Blank <=> "--nodes" \in N
  BY NamedFlags DEF Flag
<1>3. N \subseteq Flag
  BY DEF Named
<1>4. ASSUME NEW T \in SUBSET Flag
      PROVE  N \subseteq T \cup {"--configuration", "--purpose"} <=>
                /\ "--node" \in N => "--node" \in T
                /\ "--cluster" \in N => "--cluster" \in T
                /\ "--account" \in N => "--account" \in T
                /\ "--bind" \in N => "--bind" \in T
                /\ "--authority" \in N => "--authority" \in T
                /\ "--nodes" \in N => "--nodes" \in T
  BY <1>3 DEF Flag
<1>5. CASE mode = "--slice"
  <2>1. /\ Takes(mode) = {"--node", "--cluster", "--bind", "--nodes", "--authority"}
        /\ Needs(mode) = {"--node"}
    BY <1>5 DEF Takes, Needs
  <2>2. N \subseteq Takes(mode) \cup {"--configuration", "--purpose"} <=> "--account" \notin N
    <3>1. Takes(mode) \in SUBSET Flag
      BY <2>1 DEF Flag
    <3> QED
      BY <1>4, <2>1, <3>1
  <2> QED
    BY <1>2, <1>5, <2>1, <2>2 DEF Fits, names, placing, Proper
<1>6. CASE mode = "--install"
  <2>1. /\ Takes(mode) = {"--node", "--cluster", "--account"}
        /\ Needs(mode) = {"--node", "--cluster"}
    BY <1>6 DEF Takes, Needs
  <2>2. N \subseteq Takes(mode) \cup {"--configuration", "--purpose"} <=>
           "--bind" \notin N /\ "--authority" \notin N /\ "--nodes" \notin N
    <3>1. Takes(mode) \in SUBSET Flag
      BY <2>1 DEF Flag
    <3> QED
      BY <1>4, <2>1, <3>1
  <2> QED
    BY <1>2, <1>6, <2>1, <2>2 DEF Fits, names, placing, Proper
<1>7. CASE mode \notin {"--slice", "--install"}
  <2>1. Takes(mode) = {} /\ Needs(mode) = {}
    BY <1>7 DEF Takes, Needs
  <2>2. N \subseteq Takes(mode) \cup {"--configuration", "--purpose"} <=>
           /\ "--node" \notin N /\ "--cluster" \notin N /\ "--account" \notin N
           /\ "--bind" \notin N /\ "--authority" \notin N /\ "--nodes" \notin N
    <3>1. Takes(mode) \in SUBSET Flag
      BY <2>1 DEF Flag
    <3> QED
      BY <1>4, <2>1, <3>1
  <2> QED
    BY <1>2, <1>7, <2>1, <2>2 DEF Fits, names, placing, Proper
<1> QED
  BY <1>5, <1>6, <1>7

(* What is made of the words read is what the whole line says.             *)
LEMMA ReadIsRight == ReadIInv => ReadsRight
<1> SUFFICES ASSUME ReadIInv PROVE ReadsRight
  OBVIOUS
<1> DEFINE good == \E m \in Switch \cup {"service"} :
                      WellFormed(line) /\ Asks(line, m) /\ Proper(line, m)
<1>1. ASSUME result = "accepted"
      PROVE  good /\ Asks(line, mode) /\ \A f \in Flag : Says(line, Len(line), f, given[f])
  <2>1. at = Len(line) /\ Fits
    BY <1>1 DEF ReadIInv, Judged
  <2>2. WellFormed(line)
    BY <2>1, LineWords DEF ReadIInv, Placed, WellFormed
  <2>3. Asks(line, mode) /\ mode \in Switch \cup {"service"} /\ Proper(line, mode)
    BY <2>1, AsksMode, FitsProper
  <2>4. \A f \in Flag : Says(line, Len(line), f, given[f])
    BY <2>1 DEF ReadIInv, Valued
  <2> QED
    BY <2>2, <2>3, <2>4
<1>2. ASSUME result = "refused", good PROVE FALSE
  <2>1. PICK m \in Switch \cup {"service"} :
           WellFormed(line) /\ Asks(line, m) /\ Proper(line, m)
    BY <1>2
  <2>2. at = Len(line) /\ ~Fits
    BY <1>2, <2>1 DEF ReadIInv, Judged
  <2> QED
    BY <2>1, <2>2, AsksMode, FitsProper
<1> QED
  BY <1>1, <1>2 DEF ReadsRight

(* Nothing is read to begin with.                                          *)
LEMMA ReadInitHolds == ReadInit => ReadIInv
<1> SUFFICES ASSUME ReadInit PROVE ReadIInv
  OBVIOUS
<1>1. line \in Seq(Word) /\ Len(line) \in Nat
  BY ArgumentsAssumption DEF ReadInit
<1>2. ReadTypes
  BY <1>1 DEF ReadInit, ReadTypes
<1>3. Placed /\ Met /\ Judged
  BY DEF ReadInit, Placed, Met, Judged
<1>4. Valued
  BY DEF ReadInit, Valued, Says
<1> QED
  BY <1>2, <1>3, <1>4 DEF ReadIInv

(* Every step of the reading keeps it.                                     *)
LEMMA ReadStep == ReadIInv /\ [Read]_lineVars => ReadIInv'
<1> SUFFICES ASSUME ReadIInv, [Read]_lineVars PROVE ReadIInv'
  OBVIOUS
<1>1. CASE Read
  BY <1>1, ValueKeeps, SwitchedKeeps, UnknownKeeps, SettleKeeps DEF Read
<1>2. CASE UNCHANGED lineVars
  BY <1>2 DEF lineVars, ReadIInv, ReadTypes, Placed, Valued, Met, Judged, Fits, names,
              placing, mode, Is
<1> QED
  BY <1>1, <1>2

------------------------------------------------------------------------------
(* A step that reads nothing leaves what was read, and what follows of it. *)
LEMMA LineStays ==
    ASSUME ReadIInv, UNCHANGED <<lineVars, platform>>
    PROVE  /\ ReadIInv' /\ result' = result /\ mode' = mode
           /\ Runs' = Runs /\ Windows' = Windows /\ Authority' = Authority
<1>1. ReadIInv'
  BY ReadStep
<1> QED
  BY <1>1 DEF lineVars, mode, Runs, Windows, Authority, Is

(* main's choice leads each mode to its own place.                         *)
LEMMA DispatchKeeps == ProgramIInv /\ Dispatch => ProgramIInv'
<1> SUFFICES ASSUME ProgramIInv, Dispatch PROVE ProgramIInv'
  OBVIOUS
<1>1. UNCHANGED <<lineVars, platform>>
  BY DEF Dispatch
<1>2. /\ ReadIInv' /\ result' = result /\ mode' = mode
      /\ Runs' = Runs /\ Windows' = Windows /\ Authority' = Authority
  BY <1>1, LineStays DEF ProgramIInv
<1>3. /\ result \in {"accepted", "refused"} /\ (Windows => Runs)
      /\ mode = "--slice" => ~Runs
  BY DEF Dispatch, ProgramIInv, ReadIInv, ReadTypes, Windows, Runs
<1> USE ProgramAssumption DEF ProgramIInv, ProcessTypes, Led, Lived, Heard, Kept, Early,
                              Slicing, SUCCESS, REFUSED, Unheard
<1>4. ProcessTypes'
  BY <1>2 DEF Dispatch, Exit, processVars, managerVars
<1>5. Led'
  <2>1. CASE result = "refused"
    BY <1>2, <2>1 DEF Dispatch, Exit
  <2>2. CASE result = "accepted" /\ Windows
    BY <1>2, <1>3, <2>2 DEF Dispatch
  <2>3. CASE result = "accepted" /\ ~Windows /\ Runs
    BY <1>2, <2>3 DEF Dispatch
  <2>4. CASE result = "accepted" /\ ~Runs /\ mode = "--slice"
    BY <1>2, <1>3, <2>4 DEF Dispatch
  <2>5. CASE result = "accepted" /\ ~Runs /\ mode # "--slice"
    BY <1>2, <1>3, <2>5 DEF Dispatch
  <2> QED
    BY <1>3, <2>1, <2>2, <2>3, <2>4, <2>5
<1>6. Lived'
  BY <1>2 DEF Dispatch, Exit, processVars, managerVars
<1>7. Heard'
  BY <1>2 DEF Dispatch, Exit, processVars, managerVars
<1>8. Kept'
  BY <1>2 DEF Dispatch, Exit, processVars, managerVars
<1> HIDE DEF ProcessTypes, Led, Lived, Heard, Kept, Early, Slicing, SUCCESS, REFUSED,
             Unheard
<1> QED
  BY <1>2, <1>4, <1>5, <1>6, <1>7, <1>8 DEF ProgramIInv

(* A mode that prints ends the process.                                    *)
LEMMA PrintingKeeps == ProgramIInv /\ Printing => ProgramIInv'
<1> SUFFICES ASSUME ProgramIInv, Printing PROVE ProgramIInv'
  OBVIOUS
<1>1. UNCHANGED <<lineVars, platform>>
  BY DEF Printing
<1>2. /\ ReadIInv' /\ result' = result /\ mode' = mode
      /\ Runs' = Runs /\ Windows' = Windows /\ Authority' = Authority
  BY <1>1, LineStays DEF ProgramIInv
<1> USE ProgramAssumption DEF ProgramIInv, ProcessTypes, Led, Lived, Heard, Kept, Early,
                              Slicing, SUCCESS, REFUSED, Unheard
<1>3. ProcessTypes'
  BY <1>2 DEF Printing, Exit, managerVars
<1>4. Led'
  BY <1>2 DEF Printing, Exit, managerVars
<1>5. Lived'
  BY <1>2 DEF Printing, Exit, managerVars
<1>6. Heard'
  BY <1>2 DEF Printing, Exit, managerVars
<1>7. Kept'
  BY <1>2 DEF Printing, Exit, managerVars
<1> HIDE DEF ProcessTypes, Led, Lived, Heard, Kept, Early, Slicing, SUCCESS, REFUSED,
             Unheard
<1> QED
  BY <1>2, <1>3, <1>4, <1>5, <1>6, <1>7 DEF ProgramIInv

(* A slice goes on, or is refused with nothing kept.                       *)
LEMMA SlicedKeeps == ProgramIInv /\ Sliced => ProgramIInv'
<1> SUFFICES ASSUME ProgramIInv, Sliced PROVE ProgramIInv'
  OBVIOUS
<1>1. UNCHANGED <<lineVars, platform>>
  BY DEF Sliced
<1>2. /\ ReadIInv' /\ result' = result /\ mode' = mode
      /\ Runs' = Runs /\ Windows' = Windows /\ Authority' = Authority
  BY <1>1, LineStays DEF ProgramIInv
<1> USE ProgramAssumption DEF ProgramIInv, ProcessTypes, Led, Lived, Heard, Kept, Early,
                              Slicing, SUCCESS, REFUSED, Unheard
<1>3. ProcessTypes'
  BY <1>2 DEF Sliced, Exit, processVars, managerVars
<1>4. Led'
  BY <1>2 DEF Sliced, Exit, processVars, managerVars
<1>5. Lived'
  BY <1>2 DEF Sliced, Exit, processVars, managerVars
<1>6. Heard'
  BY <1>2 DEF Sliced, Exit, processVars, managerVars
<1>7. Kept'
  BY <1>2 DEF Sliced, Exit, processVars, managerVars
<1> HIDE DEF ProcessTypes, Led, Lived, Heard, Kept, Early, Slicing, SUCCESS, REFUSED,
             Unheard
<1> QED
  BY <1>2, <1>3, <1>4, <1>5, <1>6, <1>7 DEF ProgramIInv

(* A slice that signs ends, and keeps the authority the line says.         *)
LEMMA SignKeeps == ProgramIInv /\ Sign => ProgramIInv'
<1> SUFFICES ASSUME ProgramIInv, Sign PROVE ProgramIInv'
  OBVIOUS
<1>1. UNCHANGED <<lineVars, platform>>
  BY DEF Sign
<1>2. /\ ReadIInv' /\ result' = result /\ mode' = mode
      /\ Runs' = Runs /\ Windows' = Windows /\ Authority' = Authority
  BY <1>1, LineStays DEF ProgramIInv
<1>3. mode = "--slice" => ~Runs
  BY DEF Runs
<1> USE ProgramAssumption DEF ProgramIInv, ProcessTypes, Led, Lived, Heard, Kept, Early,
                              Slicing, SUCCESS, REFUSED, Unheard
<1>4. ProcessTypes'
  BY <1>2 DEF Sign, Exit, Authority, managerVars
<1>5. Led'
  BY <1>2 DEF Sign, Exit, Authority, managerVars
<1>6. Lived'
  BY <1>2, <1>3 DEF Sign, Exit, Authority, managerVars
<1>7. Heard'
  BY <1>2 DEF Sign, Exit, Authority, managerVars
<1>8. Kept'
  BY <1>2 DEF Sign, Exit, Authority, managerVars
<1> HIDE DEF ProcessTypes, Led, Lived, Heard, Kept, Early, Slicing, SUCCESS, REFUSED,
             Unheard
<1> QED
  BY <1>2, <1>4, <1>5, <1>6, <1>7, <1>8 DEF ProgramIInv

(* A node is run once its stop's handler is taken.                         *)
LEMMA SetHandlerKeeps == ProgramIInv /\ SetHandler => ProgramIInv'
<1> SUFFICES ASSUME ProgramIInv, SetHandler PROVE ProgramIInv'
  OBVIOUS
<1>1. UNCHANGED <<lineVars, platform>>
  BY DEF SetHandler
<1>2. /\ ReadIInv' /\ result' = result /\ mode' = mode
      /\ Runs' = Runs /\ Windows' = Windows /\ Authority' = Authority
  BY <1>1, LineStays DEF ProgramIInv
<1> USE ProgramAssumption DEF ProgramIInv, ProcessTypes, Led, Lived, Heard, Kept, Early,
                              Slicing, SUCCESS, REFUSED, Unheard
<1>3. ProcessTypes'
  BY <1>2 DEF SetHandler, Exit, managerVars
<1>4. Led'
  BY <1>2 DEF SetHandler, Exit, managerVars
<1>5. Lived'
  BY <1>2 DEF SetHandler, Exit, managerVars
<1>6. Heard'
  BY <1>2 DEF SetHandler, Exit, managerVars
<1>7. Kept'
  BY <1>2 DEF SetHandler, Exit, managerVars
<1> HIDE DEF ProcessTypes, Led, Lived, Heard, Kept, Early, Slicing, SUCCESS, REFUSED,
             Unheard
<1> QED
  BY <1>2, <1>3, <1>4, <1>5, <1>6, <1>7 DEF ProgramIInv

(* The manager calls the service's main, or the process is refused.        *)
LEMMA StartDispatcherKeeps == ProgramIInv /\ StartDispatcher => ProgramIInv'
<1> SUFFICES ASSUME ProgramIInv, StartDispatcher PROVE ProgramIInv'
  OBVIOUS
<1>1. UNCHANGED <<lineVars, platform>>
  BY DEF StartDispatcher
<1>2. /\ ReadIInv' /\ result' = result /\ mode' = mode
      /\ Runs' = Runs /\ Windows' = Windows /\ Authority' = Authority
  BY <1>1, LineStays DEF ProgramIInv
<1> USE ProgramAssumption DEF ProgramIInv, ProcessTypes, Led, Lived, Heard, Kept, Early,
                              Slicing, SUCCESS, REFUSED, Unheard
<1>3. ProcessTypes'
  BY <1>2 DEF StartDispatcher, Exit, processVars, managerVars
<1>4. Led'
  BY <1>2 DEF StartDispatcher, Exit, processVars, managerVars
<1>5. Lived'
  BY <1>2 DEF StartDispatcher, Exit, processVars, managerVars
<1>6. Heard'
  BY <1>2 DEF StartDispatcher, Exit, processVars, managerVars
<1>7. Kept'
  BY <1>2 DEF StartDispatcher, Exit, processVars, managerVars
<1> HIDE DEF ProcessTypes, Led, Lived, Heard, Kept, Early, Slicing, SUCCESS, REFUSED,
             Unheard
<1> QED
  BY <1>2, <1>3, <1>4, <1>5, <1>6, <1>7 DEF ProgramIInv

(* The first report is made with the handler taken.                        *)
LEMMA RegisterKeeps == ProgramIInv /\ Register => ProgramIInv'
<1> SUFFICES ASSUME ProgramIInv, Register PROVE ProgramIInv'
  OBVIOUS
<1>1. UNCHANGED <<lineVars, platform>>
  BY DEF Register
<1>2. /\ ReadIInv' /\ result' = result /\ mode' = mode
      /\ Runs' = Runs /\ Windows' = Windows /\ Authority' = Authority
  BY <1>1, LineStays DEF ProgramIInv
<1>3. heard' \in [state : {"nothing", "StartPending", "Running", "StopPending", "Stopped"},
                   code : {SUCCESS, REFUSED}]
  BY DEF ProgramIInv, ProcessTypes, SUCCESS, REFUSED, Register, report
<1> USE ProgramAssumption DEF ProgramIInv, ProcessTypes, Led, Lived, Heard, Kept, Early,
                              Slicing, SUCCESS, REFUSED, Unheard
<1>4. ProcessTypes'
  BY <1>2, <1>3 DEF Register, report, managerVars
<1>5. Led'
  BY <1>2 DEF Register, report, managerVars
<1>6. Lived'
  BY <1>2 DEF Register, report, managerVars
<1>7. Heard'
  BY <1>2 DEF Register, report, managerVars
<1>8. Kept'
  BY <1>2 DEF Register, report, managerVars
<1> HIDE DEF ProcessTypes, Led, Lived, Heard, Kept, Early, Slicing, SUCCESS, REFUSED,
             Unheard
<1> QED
  BY <1>2, <1>4, <1>5, <1>6, <1>7, <1>8 DEF ProgramIInv

(* The node is said to run as it accepts work.                             *)
LEMMA ReadyKeeps == ProgramIInv /\ Ready => ProgramIInv'
<1> SUFFICES ASSUME ProgramIInv, Ready PROVE ProgramIInv'
  OBVIOUS
<1>1. UNCHANGED <<lineVars, platform>>
  BY DEF Ready
<1>2. /\ ReadIInv' /\ result' = result /\ mode' = mode
      /\ Runs' = Runs /\ Windows' = Windows /\ Authority' = Authority
  BY <1>1, LineStays DEF ProgramIInv
<1>3. heard' \in [state : {"nothing", "StartPending", "Running", "StopPending", "Stopped"},
                   code : {SUCCESS, REFUSED}]
  BY DEF ProgramIInv, ProcessTypes, SUCCESS, REFUSED, Ready, Tell, notify, report
<1> USE ProgramAssumption DEF ProgramIInv, ProcessTypes, Led, Lived, Heard, Kept, Early,
                              Slicing, SUCCESS, REFUSED, Unheard
<1>4. ProcessTypes'
  BY <1>2, <1>3 DEF Ready, Tell, notify, report, Node!Settle, managerVars
<1>5. Led'
  BY <1>2 DEF Ready, Tell, notify, report, Node!Settle, managerVars
<1>6. Lived'
  BY <1>2 DEF Ready, Tell, notify, report, Node!Settle, managerVars
<1>7. Heard'
  BY <1>2 DEF Ready, Tell, notify, report, Node!Settle, managerVars
<1>8. Kept'
  BY <1>2 DEF Ready, Tell, notify, report, Node!Settle, managerVars
<1> HIDE DEF ProcessTypes, Led, Lived, Heard, Kept, Early, Slicing, SUCCESS, REFUSED,
             Unheard
<1> QED
  BY <1>2, <1>4, <1>5, <1>6, <1>7, <1>8 DEF ProgramIInv

(* A stop is told once, of a node that served.                             *)
LEMMA StoppingKeeps == ProgramIInv /\ Stopping => ProgramIInv'
<1> SUFFICES ASSUME ProgramIInv, Stopping PROVE ProgramIInv'
  OBVIOUS
<1>1. UNCHANGED <<lineVars, platform>>
  BY DEF Stopping
<1>2. /\ ReadIInv' /\ result' = result /\ mode' = mode
      /\ Runs' = Runs /\ Windows' = Windows /\ Authority' = Authority
  BY <1>1, LineStays DEF ProgramIInv
<1> USE ProgramAssumption DEF ProgramIInv, ProcessTypes, Led, Lived, Heard, Kept, Early,
                              Slicing, SUCCESS, REFUSED, Unheard
<1>3. ProcessTypes'
  BY <1>2 DEF Stopping, Tell, notify, report, Node!Stop, managerVars
<1>4. Led'
  BY <1>2 DEF Stopping, Tell, notify, report, Node!Stop, managerVars
<1>5. Lived'
  BY <1>2 DEF Stopping, Tell, notify, report, Node!Stop, managerVars
<1>6. Heard'
  BY <1>2 DEF Stopping, Tell, notify, report, Node!Stop, managerVars
<1>7. Kept'
  BY <1>2 DEF Stopping, Tell, notify, report, Node!Stop, managerVars
<1> HIDE DEF ProcessTypes, Led, Lived, Heard, Kept, Early, Slicing, SUCCESS, REFUSED,
             Unheard
<1> QED
  BY <1>2, <1>3, <1>4, <1>5, <1>6, <1>7 DEF ProgramIInv

(* A drained node served.                                                  *)
LEMMA DrainedKeeps == ProgramIInv /\ Drained => ProgramIInv'
<1> SUFFICES ASSUME ProgramIInv, Drained PROVE ProgramIInv'
  OBVIOUS
<1>1. UNCHANGED <<lineVars, platform>>
  BY DEF Drained
<1>2. /\ ReadIInv' /\ result' = result /\ mode' = mode
      /\ Runs' = Runs /\ Windows' = Windows /\ Authority' = Authority
  BY <1>1, LineStays DEF ProgramIInv
<1> USE ProgramAssumption DEF ProgramIInv, ProcessTypes, Led, Lived, Heard, Kept, Early,
                              Slicing, SUCCESS, REFUSED, Unheard
<1>3. ProcessTypes'
  BY <1>2 DEF Drained, Node!Drained, managerVars
<1>4. Led'
  BY <1>2 DEF Drained, Node!Drained, managerVars
<1>5. Lived'
  BY <1>2 DEF Drained, Node!Drained, managerVars
<1>6. Heard'
  BY <1>2 DEF Drained, Node!Drained, managerVars
<1>7. Kept'
  BY <1>2 DEF Drained, Node!Drained, managerVars
<1> HIDE DEF ProcessTypes, Led, Lived, Heard, Kept, Early, Slicing, SUCCESS, REFUSED,
             Unheard
<1> QED
  BY <1>2, <1>3, <1>4, <1>5, <1>6, <1>7 DEF ProgramIInv

(* The code put by, or the one the process ends with, is the run's.        *)
LEMMA EndedKeeps == ProgramIInv /\ Ended => ProgramIInv'
<1> SUFFICES ASSUME ProgramIInv, Ended PROVE ProgramIInv'
  OBVIOUS
<1>1. UNCHANGED <<lineVars, platform>>
  BY DEF Ended
<1>2. /\ ReadIInv' /\ result' = result /\ mode' = mode
      /\ Runs' = Runs /\ Windows' = Windows /\ Authority' = Authority
  BY <1>1, LineStays DEF ProgramIInv
<1> USE ProgramAssumption DEF ProgramIInv, ProcessTypes, Led, Lived, Heard, Kept, Early,
                              Slicing, SUCCESS, REFUSED, Unheard
<1>3. ProcessTypes'
  BY <1>2 DEF Ended, Exit, Code, managerVars
<1>4. Led'
  BY <1>2 DEF Ended, Exit, Code, managerVars
<1>5. Lived'
  BY <1>2 DEF Ended, Exit, Code, managerVars
<1>6. Heard'
  BY <1>2 DEF Ended, Exit, Code, managerVars
<1>7. Kept'
  BY <1>2 DEF Ended, Exit, Code, managerVars
<1> HIDE DEF ProcessTypes, Led, Lived, Heard, Kept, Early, Slicing, SUCCESS, REFUSED,
             Unheard
<1> QED
  BY <1>2, <1>3, <1>4, <1>5, <1>6, <1>7 DEF ProgramIInv

(* The manager hears the code that was put by, or nothing.                 *)
LEMMA TellStoppedKeeps == ProgramIInv /\ TellStopped => ProgramIInv'
<1> SUFFICES ASSUME ProgramIInv, TellStopped PROVE ProgramIInv'
  OBVIOUS
<1>1. UNCHANGED <<lineVars, platform>>
  BY DEF TellStopped
<1>2. /\ ReadIInv' /\ result' = result /\ mode' = mode
      /\ Runs' = Runs /\ Windows' = Windows /\ Authority' = Authority
  BY <1>1, LineStays DEF ProgramIInv
<1>3. heard' \in [state : {"nothing", "StartPending", "Running", "StopPending", "Stopped"},
                   code : {SUCCESS, REFUSED}]
  BY DEF ProgramIInv, ProcessTypes, SUCCESS, REFUSED, TellStopped, report, Code
<1>4. heard' = heard \/ (heard'.state = "Stopped" /\ heard'.code = Code)
  BY DEF TellStopped, report
<1> USE ProgramAssumption DEF ProgramIInv, ProcessTypes, Led, Lived, Heard, Kept, Early,
                              Slicing, SUCCESS, REFUSED, Unheard
<1>5. ProcessTypes'
  BY <1>2, <1>3, <1>4 DEF TellStopped, processVars, Code
<1>6. Led'
  BY <1>2, <1>3, <1>4 DEF TellStopped, processVars, Code
<1>7. Lived'
  BY <1>2, <1>3, <1>4 DEF TellStopped, processVars, Code
<1>8. Heard'
  BY <1>2, <1>3, <1>4 DEF TellStopped, processVars, Code
<1>9. Kept'
  BY <1>2, <1>3, <1>4 DEF TellStopped, processVars, Code
<1> HIDE DEF ProcessTypes, Led, Lived, Heard, Kept, Early, Slicing, SUCCESS, REFUSED,
             Unheard
<1> QED
  BY <1>2, <1>5, <1>6, <1>7, <1>8, <1>9 DEF ProgramIInv

(* The process ends with the code put by, which the manager heard.         *)
LEMMA ReturnedKeeps == ProgramIInv /\ Returned => ProgramIInv'
<1> SUFFICES ASSUME ProgramIInv, Returned PROVE ProgramIInv'
  OBVIOUS
<1>1. UNCHANGED <<lineVars, platform>>
  BY DEF Returned
<1>2. /\ ReadIInv' /\ result' = result /\ mode' = mode
      /\ Runs' = Runs /\ Windows' = Windows /\ Authority' = Authority
  BY <1>1, LineStays DEF ProgramIInv
<1> USE ProgramAssumption DEF ProgramIInv, ProcessTypes, Led, Lived, Heard, Kept, Early,
                              Slicing, SUCCESS, REFUSED, Unheard
<1>3. ProcessTypes'
  BY <1>2 DEF Returned, Exit, managerVars
<1>4. Led'
  BY <1>2 DEF Returned, Exit, managerVars
<1>5. Lived'
  BY <1>2 DEF Returned, Exit, managerVars
<1>6. Heard'
  BY <1>2 DEF Returned, Exit, managerVars
<1>7. Kept'
  BY <1>2 DEF Returned, Exit, managerVars
<1> HIDE DEF ProcessTypes, Led, Lived, Heard, Kept, Early, Slicing, SUCCESS, REFUSED,
             Unheard
<1> QED
  BY <1>2, <1>3, <1>4, <1>5, <1>6, <1>7 DEF ProgramIInv

(* To be asked to stop changes nothing in the process.                     *)
LEMMA AskKeeps == ProgramIInv /\ Ask => ProgramIInv'
<1> SUFFICES ASSUME ProgramIInv, Ask PROVE ProgramIInv'
  OBVIOUS
<1>1. UNCHANGED <<lineVars, platform>>
  BY DEF Ask
<1>2. /\ ReadIInv' /\ result' = result /\ mode' = mode
      /\ Runs' = Runs /\ Windows' = Windows /\ Authority' = Authority
  BY <1>1, LineStays DEF ProgramIInv
<1> USE ProgramAssumption DEF ProgramIInv, ProcessTypes, Led, Lived, Heard, Kept, Early,
                              Slicing, SUCCESS, REFUSED, Unheard
<1>3. ProcessTypes'
  BY <1>2 DEF Ask, processVars, managerVars
<1>4. Led'
  BY <1>2 DEF Ask, processVars, managerVars
<1>5. Lived'
  BY <1>2 DEF Ask, Code, processVars, managerVars
<1>6. Heard'
  BY <1>2 DEF Ask, processVars, managerVars
<1>7. Kept'
  BY <1>2 DEF Ask, processVars, managerVars
<1> HIDE DEF ProcessTypes, Led, Lived, Heard, Kept, Early, Slicing, SUCCESS, REFUSED,
             Unheard
<1> QED
  BY <1>2, <1>3, <1>4, <1>5, <1>6, <1>7 DEF ProgramIInv

(* A stop ends only a process whose handler is not taken, which has not    *)
(* served.                                                                 *)
LEMMA DeliverKeeps == ProgramIInv /\ Deliver => ProgramIInv'
<1> SUFFICES ASSUME ProgramIInv, Deliver PROVE ProgramIInv'
  OBVIOUS
<1>1. UNCHANGED <<lineVars, platform>>
  BY DEF Deliver
<1>2. /\ ReadIInv' /\ result' = result /\ mode' = mode
      /\ Runs' = Runs /\ Windows' = Windows /\ Authority' = Authority
  BY <1>1, LineStays DEF ProgramIInv
<1> USE ProgramAssumption DEF ProgramIInv, ProcessTypes, Led, Lived, Heard, Kept, Early,
                              Slicing, SUCCESS, REFUSED, Unheard
<1>3. ProcessTypes'
  BY <1>2 DEF Deliver, Exit, managerVars
<1>4. Led'
  BY <1>2 DEF Deliver, Exit, managerVars
<1>5. Lived'
  BY <1>2 DEF Deliver, Code, Exit, managerVars
<1>6. Heard'
  BY <1>2 DEF Deliver, Exit, managerVars
<1>7. Kept'
  BY <1>2 DEF Deliver, Exit, managerVars
<1> HIDE DEF ProcessTypes, Led, Lived, Heard, Kept, Early, Slicing, SUCCESS, REFUSED,
             Unheard
<1> QED
  BY <1>2, <1>3, <1>4, <1>5, <1>6, <1>7 DEF ProgramIInv

(* The end of the input is a stop like another.                            *)
LEMMA InputEndsKeeps == ProgramIInv /\ InputEnds => ProgramIInv'
<1> SUFFICES ASSUME ProgramIInv, InputEnds PROVE ProgramIInv'
  OBVIOUS
<1>1. UNCHANGED <<lineVars, platform>>
  BY DEF InputEnds
<1>2. /\ ReadIInv' /\ result' = result /\ mode' = mode
      /\ Runs' = Runs /\ Windows' = Windows /\ Authority' = Authority
  BY <1>1, LineStays DEF ProgramIInv
<1> USE ProgramAssumption DEF ProgramIInv, ProcessTypes, Led, Lived, Heard, Kept, Early,
                              Slicing, SUCCESS, REFUSED, Unheard
<1>3. ProcessTypes'
  BY <1>2 DEF InputEnds, managerVars
<1>4. Led'
  BY <1>2 DEF InputEnds, managerVars
<1>5. Lived'
  BY <1>2 DEF InputEnds, Code, managerVars
<1>6. Heard'
  BY <1>2 DEF InputEnds, managerVars
<1>7. Kept'
  BY <1>2 DEF InputEnds, managerVars
<1> HIDE DEF ProcessTypes, Led, Lived, Heard, Kept, Early, Slicing, SUCCESS, REFUSED,
             Unheard
<1> QED
  BY <1>2, <1>3, <1>4, <1>5, <1>6, <1>7 DEF ProgramIInv

(* A crash leaves what was heard and served as it was.                     *)
LEMMA CrashKeeps == ProgramIInv /\ Crash => ProgramIInv'
<1> SUFFICES ASSUME ProgramIInv, Crash PROVE ProgramIInv'
  OBVIOUS
<1>1. UNCHANGED <<lineVars, platform>>
  BY DEF Crash
<1>2. /\ ReadIInv' /\ result' = result /\ mode' = mode
      /\ Runs' = Runs /\ Windows' = Windows /\ Authority' = Authority
  BY <1>1, LineStays DEF ProgramIInv
<1> USE ProgramAssumption DEF ProgramIInv, ProcessTypes, Led, Lived, Heard, Kept, Early,
                              Slicing, SUCCESS, REFUSED, Unheard
<1>3. ProcessTypes'
  BY <1>2 DEF Crash, Exit, managerVars
<1>4. Led'
  BY <1>2 DEF Crash, Exit, managerVars
<1>5. Lived'
  BY <1>2 DEF Crash, Exit, managerVars
<1>6. Heard'
  BY <1>2 DEF Crash, Exit, managerVars
<1>7. Kept'
  BY <1>2 DEF Crash, Exit, managerVars
<1> HIDE DEF ProcessTypes, Led, Lived, Heard, Kept, Early, Slicing, SUCCESS, REFUSED,
             Unheard
<1> QED
  BY <1>2, <1>3, <1>4, <1>5, <1>6, <1>7 DEF ProgramIInv

(* Reading goes on before anything is run.                                 *)
LEMMA ReadingKeeps == ProgramIInv /\ Reading => ProgramIInv'
<1> SUFFICES ASSUME ProgramIInv, Reading PROVE ProgramIInv'
  OBVIOUS
<1>1. ReadIInv'
  BY ReadStep DEF ProgramIInv, Reading
<1>2. pc = "main" /\ UNCHANGED <<platform, pc, processVars, managerVars, kept>>
  BY DEF Reading
<1>3. ProcessTypes'
  BY <1>2 DEF ProgramIInv, ProcessTypes, processVars, managerVars
<1>4. code = None /\ kept = {}
  BY <1>2 DEF ProgramIInv, ProcessTypes, Kept
<1>5. Led' /\ Kept'
  BY <1>2, <1>4 DEF Led, Kept, Slicing
<1>6. Lived'
  BY <1>2, <1>4, ProgramAssumption DEF ProgramIInv, Lived, processVars, Early
<1>7. Heard'
  BY <1>2, <1>4 DEF ProgramIInv, Heard, processVars, managerVars, Early
<1> QED
  BY <1>1, <1>3, <1>5, <1>6, <1>7 DEF ProgramIInv

(* A process started again begins as the first did.                        *)
LEMMA AgainKeeps == ProgramIInv /\ Again => ProgramIInv'
<1> SUFFICES ASSUME ProgramIInv, Again PROVE ProgramIInv'
  OBVIOUS
<1>1. /\ line' = line /\ at' = 0 /\ given' = [f \in Flag |-> None] /\ switches' = <<>>
      /\ result' = "reading" /\ line \in Lines /\ Len(line) \in Nat
  BY LineWords DEF Again, ProgramIInv, ReadIInv, ReadTypes
<1>2. ReadIInv'
  <2>1. ReadTypes'
    BY <1>1 DEF ReadTypes
  <2>2. Placed' /\ Met' /\ Judged'
    BY <1>1 DEF Placed, Met, Judged
  <2>3. Valued'
    BY <1>1 DEF Valued, Says
  <2> QED
    BY <2>1, <2>2, <2>3 DEF ReadIInv
<1>3. kept = {} /\ kept' = kept
  BY DEF Again, ProgramIInv, Kept
<1>4. /\ pc' = "main" /\ code' = None /\ life' = "starting" /\ served' = FALSE
      /\ ENDED' = None /\ heard' = Unheard /\ asked' = asked /\ handler' = FALSE
  BY DEF Again
<1>5. ProcessTypes'
  BY <1>3, <1>4 DEF ProgramIInv, ProcessTypes, Unheard, Early, SUCCESS, REFUSED
<1>6. Led' /\ Kept'
  BY <1>3, <1>4 DEF Led, Kept, Slicing
<1>7. Lived' /\ Heard'
  BY <1>4, ProgramAssumption DEF Lived, Heard, Early, Unheard
<1> QED
  BY <1>2, <1>5, <1>6, <1>7 DEF ProgramIInv

(* The inductive invariant of a process, of every start.                   *)
THEOREM ProgramIInvariant == Spec => []ProgramIInv
<1>1. Init => ProgramIInv
  <2> SUFFICES ASSUME Init PROVE ProgramIInv
    OBVIOUS
  <2>1. ReadIInv
    BY ReadInitHolds DEF Init
  <2>2. ProcessTypes
    BY DEF Init, ProcessTypes, Unheard, Early, SUCCESS, REFUSED
  <2>3. Led /\ Kept
    BY DEF Init, Led, Kept, Slicing
  <2>4. Lived /\ Heard
    BY ProgramAssumption DEF Init, Lived, Heard, Early, Unheard
  <2> QED
    BY <2>1, <2>2, <2>3, <2>4 DEF ProgramIInv
<1>2. ProgramIInv /\ [Next]_vars => ProgramIInv'
  <2> SUFFICES ASSUME ProgramIInv, [Next]_vars PROVE ProgramIInv'
    OBVIOUS
  <2>1. CASE Main
    BY <2>1, ReadingKeeps, DispatchKeeps, PrintingKeeps, SlicedKeeps, SignKeeps,
       SetHandlerKeeps, StartDispatcherKeeps, RegisterKeeps, ReadyKeeps, StoppingKeeps,
       DrainedKeeps, EndedKeeps, TellStoppedKeeps, ReturnedKeeps
       DEF Main
  <2>2. CASE Ask \/ Deliver \/ InputEnds \/ Crash \/ Again
    BY <2>2, AskKeeps, DeliverKeeps, InputEndsKeeps, CrashKeeps, AgainKeeps
  <2>3. CASE UNCHANGED vars
    <3>1. /\ ReadIInv' /\ result' = result /\ mode' = mode
          /\ Runs' = Runs /\ Windows' = Windows /\ Authority' = Authority
      BY <2>3, LineStays DEF ProgramIInv, vars
    <3>2. UNCHANGED <<pc, processVars, managerVars, kept>>
      BY <2>3 DEF vars
    <3> QED
      BY <3>1, <3>2 DEF ProgramIInv, ProcessTypes, Led, Lived, Heard, Kept, Code,
                        processVars, managerVars
  <2> QED
    BY <2>1, <2>2, <2>3 DEF Next
<1> QED
  BY <1>1, <1>2, PTL DEF Spec

------------------------------------------------------------------------------
(* The results.                                                            *)

(* Arguments::parse by itself: whatever the line, it is accepted exactly   *)
(* where the usage text allows it, and each flag has its last value.       *)
THEOREM ReadingIsRight == ReadSpec => []ReadsRight
<1>1. ReadSpec => []ReadIInv
  BY ReadInitHolds, ReadStep, PTL DEF ReadSpec
<1> QED
  BY <1>1, ReadIsRight, PTL

(* The same of every start of the process, a restarted one's included.     *)
THEOREM ProgramReadsRight == Spec => []ReadsRight
<1>1. ProgramIInv => ReadsRight
  BY ReadIsRight DEF ProgramIInv
<1> QED
  BY <1>1, ProgramIInvariant, PTL

(* The exit code, what the manager heard and what a slice keeps tell the   *)
(* truth, on every platform and for every line (main.rs, Ended::code,      *)
(* control_manager.rs ENDED, slice.rs).                                    *)
THEOREM ExitCodeTells == Spec => []ExitTells
<1>1. ProgramIInv => ExitTells
  <2> SUFFICES ASSUME ProgramIInv PROVE ExitTells
    OBVIOUS
  <2>1. ProgramTypes
    BY DEF ProgramIInv, ProcessTypes, ProgramTypes
  <2>2. /\ code = REFUSED => ~served
        /\ code = SUCCESS /\ Runs => served /\ life = "stopped"
        /\ code = "killed" => ~served
    BY DEF ProgramIInv, Lived
  <2>3. /\ heard.state = "Stopped" => code \in {None, heard.code, "crashed"}
        /\ Windows /\ heard.state = "Stopped" => ENDED = heard.code
    BY DEF ProgramIInv, Heard
  <2>4. ASSUME kept # {}
        PROVE  /\ result = "accepted" /\ mode = "--slice" /\ code # None
               /\ kept = {IF Says(line, Len(line), "--authority", None)
                          THEN "beside" ELSE "named"}
    <3>1. /\ result = "accepted" /\ mode = "--slice" /\ pc = "exited"
          /\ kept = {Authority}
      BY <2>4 DEF ProgramIInv, Kept
    <3>2. at = Len(line) /\ at \in Nat
      BY <3>1 DEF ProgramIInv, ReadIInv, Judged, ReadTypes
    <3>3. Says(line, at, "--authority", given["--authority"])
      BY DEF ProgramIInv, ReadIInv, Valued, Flag
    <3>4. given["--authority"] # None => \E i \in 1..at : line[i] = "--authority"
      BY <3>2, <3>3 DEF Says
    <3>5. Says(line, at, "--authority", None) <=> ~Is("--authority")
      BY <3>3, <3>4 DEF Says, Is
    <3> QED
      BY <3>1, <3>2, <3>5 DEF ProgramIInv, ProcessTypes, Authority
  <2> QED
    BY <2>1, <2>2, <2>3, <2>4 DEF ExitTells
<1> QED
  BY <1>1, ProgramIInvariant, PTL

(* The manager hears a process's states in order, Running only of a node   *)
(* that accepts work and nothing before the handler is taken, whichever    *)
(* reports are lost (control_manager.rs serve, readiness.rs).              *)
THEOREM ReportsGoForward == Spec => ReportsForward
<1> DEFINE Forward == \/ heard' = Unheard /\ pc = "exited"
                      \/ /\ Step(heard'.state) > Step(heard.state)
                         /\ heard'.state = "Running" <=> life' = "serving"
                         /\ handler'
<1>1. ASSUME ProgramIInv, Next, heard' # heard PROVE Forward
  <2>1. CASE Register
    <3>1. /\ heard' = [state |-> "StartPending", code |-> SUCCESS]
          /\ handler' /\ life' = "starting" /\ heard.state = "nothing"
      BY <1>1, <2>1 DEF Register, report, ProgramIInv, Lived, Heard, Early, Unheard
    <3> QED
      BY <3>1 DEF Step
  <2>2. CASE Ready
    <3>1. /\ heard'.state = "Running" /\ handler' = handler /\ life' = "serving"
          /\ pc = "run" /\ life = "starting"
      BY <1>1, <2>2 DEF Ready, Tell, notify, report, Node!Settle
    <3>2. handler' /\ heard.state \in {"nothing", "StartPending"}
      BY <1>1, <3>1 DEF ProgramIInv, Lived, Heard
    <3> QED
      BY <3>1, <3>2 DEF Step
  <2>3. CASE Stopping
    <3>1. /\ heard'.state = "StopPending" /\ handler' = handler /\ life' = "draining"
          /\ pc = "run" /\ life = "serving"
      BY <1>1, <2>3 DEF Stopping, Tell, notify, report, Node!Stop
    <3>2. handler' /\ heard.state \in {"nothing", "StartPending", "Running"}
      BY <1>1, <3>1 DEF ProgramIInv, Lived, Heard
    <3> QED
      BY <3>1, <3>2 DEF Step
  <2>4. CASE TellStopped
    <3>1. /\ heard'.state = "Stopped" /\ handler' = handler /\ life' = life
          /\ pc = "put"
      BY <1>1, <2>4 DEF TellStopped, report, processVars
    <3>2. /\ handler' /\ life' # "serving"
          /\ heard.state \in {"nothing", "StartPending", "Running", "StopPending"}
      BY <1>1, <3>1 DEF ProgramIInv, Lived, Heard, ProcessTypes
    <3> QED
      BY <3>1, <3>2 DEF Step
  <2>5. CASE Again
    BY <2>5 DEF Again
  <2>6. CASE Reading \/ Dispatch \/ Printing \/ Sliced \/ Sign \/ SetHandler
             \/ StartDispatcher \/ Drained \/ Ended \/ Returned
    BY <1>1, <2>6 DEF Reading, Dispatch, Printing, Sliced, Sign, SetHandler,
                      StartDispatcher, Drained, Ended, Returned, managerVars
  <2>7. CASE Ask \/ Deliver \/ InputEnds \/ Crash
    BY <1>1, <2>7 DEF Ask, Deliver, InputEnds, Crash, managerVars
  <2> QED
    BY <1>1, <2>1, <2>2, <2>3, <2>4, <2>5, <2>6, <2>7 DEF Next, Main
<1>2. ProgramIInv /\ [Next]_vars => [heard' # heard => Forward]_vars
  BY <1>1
<1> QED
  BY <1>2, ProgramIInvariant, PTL DEF Spec, ReportsForward

==============================================================================
