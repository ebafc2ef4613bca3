------------------------------ MODULE Arguments ------------------------------
(***************************************************************************)
(* The command line of xmip-service, read word by word                     *)
(* (.src/service/arguments.rs, Arguments::parse).  A word is one of the    *)
(* program's own flags and switches, another that begins with "--", or     *)
(* plain; what a plain word spells is left out but for the two a purpose   *)
(* may be and for the ones that, as a list of nodes, name nobody.          *)
(***************************************************************************)
EXTENDS Naturals, Sequences

CONSTANTS
    Lines,      \* the command lines the program may be given
    Plain,      \* the words that do not begin with "--"
    Blank,      \* those of them that name nobody as a list, such as ","
    Strange,    \* words that begin with "--" and are no parameter of it
    None        \* no value given

(* The parameters that take a value, and the switches.                     *)
Flag == {"--configuration", "--purpose", "--node", "--cluster", "--account",
         "--bind", "--authority", "--nodes"}
Switch == {"--console", "--definition", "--slice", "--install", "--listening",
           "--uninstall"}
Purpose == {"test", "runtime"}
Word == Flag \cup Switch \cup Plain \cup Strange

ASSUME ArgumentsAssumption ==
    /\ Lines \subseteq Seq(Word)
    /\ Purpose \subseteq Plain /\ Blank \subseteq Plain
    /\ Flag \cap Switch = {}
    /\ (Flag \cup Switch) \cap (Plain \cup Strange) = {}
    /\ Plain \cap Strange = {}
    /\ None \notin Word

VARIABLES
    line,       \* std::env::args() after the program's name
    at,         \* how many of its words were read
    given,      \* what each flag was given last
    switches,   \* the switches, as they were met
    result      \* "reading", "accepted" or "refused"

lineVars == <<line, at, given, switches, result>>

ReadInit ==
    /\ line \in Lines /\ at = 0
    /\ given = [f \in Flag |-> None] /\ switches = <<>>
    /\ result = "reading"

Refused == result' = "refused" /\ UNCHANGED <<line, at, given, switches>>

(* Purpose::declared takes the two words only.                             *)
Declared(f, w) == f = "--purpose" => w \in Purpose

(* Mutant of Value: what follows is the value, whatever it begins with.    *)
Value_Any(f) ==
    /\ result = "reading" /\ at < Len(line) /\ line[at + 1] = f
    /\ IF at + 2 <= Len(line) /\ Declared(f, line[at + 2])
       THEN /\ given' = [given EXCEPT ![f] = line[at + 2]] /\ at' = at + 2
            /\ UNCHANGED <<line, switches, result>>
       ELSE Refused

(* A flag takes the word behind it, over what it was given before; one     *)
(* with no plain word behind it is refused.                                *)
Value(f) ==
    /\ result = "reading" /\ at < Len(line) /\ line[at + 1] = f
    /\ IF at + 2 <= Len(line) /\ line[at + 2] \in Plain
          /\ Declared(f, line[at + 2])
       THEN /\ given' = [given EXCEPT ![f] = line[at + 2]] /\ at' = at + 2
            /\ UNCHANGED <<line, switches, result>>
       ELSE Refused

Switched ==
    /\ result = "reading" /\ at < Len(line) /\ line[at + 1] \in Switch
    /\ switches' = Append(switches, line[at + 1]) /\ at' = at + 1
    /\ UNCHANGED <<line, given, result>>

Unknown ==
    /\ result = "reading" /\ at < Len(line)
    /\ line[at + 1] \notin Flag \cup Switch
    /\ Refused

Is(f) == given[f] # None

(* The mode is the switch, or to run under the service manager.            *)
mode == IF switches = <<>> THEN "service" ELSE switches[1]

(* names: whether the mode was given the names it needs and no other.      *)
names ==
    /\ mode \in {"--slice", "--install"} => Is("--node")
    /\ mode = "--install" => Is("--cluster")
    /\ mode \notin {"--slice", "--install"} => ~Is("--node") /\ ~Is("--cluster")

(* placing: --bind and a list that names nodes come together, and only     *)
(* with --slice.                                                           *)
placing ==
    LET listed == Is("--nodes") /\ given["--nodes"] \notin Blank
    IN  (Is("--bind") \/ listed) =>
            mode = "--slice" /\ Is("--bind") /\ listed

(* What is asked of the line once every word is read.                      *)
Fits ==
    /\ Len(switches) <= 1
    /\ names
    /\ Is("--account") => mode = "--install"
    /\ placing
    /\ Is("--authority") => mode = "--slice"
    /\ Is("--configuration")

Settle ==
    /\ result = "reading" /\ at = Len(line)
    /\ result' = IF Fits THEN "accepted" ELSE "refused"
    /\ UNCHANGED <<line, at, given, switches>>

Read == (\E f \in Flag : Value(f)) \/ Switched \/ Unknown \/ Settle

ReadSpec == ReadInit /\ [][Read]_lineVars

------------------------------------------------------------------------------
(* The reference: what a whole line says, whatever the order it is read in.*)

(* Every word is a switch, a flag with its value behind it, or that value. *)
WellFormed(l) ==
    \A i \in DOMAIN l :
        /\ l[i] \notin Strange
        /\ l[i] \in Flag => /\ i < Len(l) /\ l[i + 1] \in Plain
                            /\ Declared(l[i], l[i + 1])
        /\ l[i] \in Plain => i > 1 /\ l[i - 1] \in Flag

(* The first n words last give the flag f the value v.                     *)
Says(l, n, f, v) ==
    IF v = None THEN \A i \in 1..n : l[i] # f
    ELSE \E i \in 1..(n - 1) :
            l[i] = f /\ l[i + 1] = v /\ \A j \in (i + 1)..n : l[j] # f

(* The usage text's table: what each mode may be given beside the          *)
(* configuration and the purpose, and what it must be.                     *)
Takes(m) ==
    CASE m = "--slice" -> {"--node", "--cluster", "--bind", "--nodes",
                           "--authority"}
      [] m = "--install" -> {"--node", "--cluster", "--account"}
      [] OTHER -> {}
Needs(m) ==
    CASE m = "--slice" -> {"--node"}
      [] m = "--install" -> {"--node", "--cluster"}
      [] OTHER -> {}

(* A list that names nobody counts as none.                                *)
Named(l) ==
    {f \in Flag : /\ \E i \in DOMAIN l : l[i] = f
                  /\ f = "--nodes" =>
                        \A b \in Blank : ~Says(l, Len(l), f, b)}
Proper(l, m) ==
    /\ Named(l) \subseteq Takes(m) \cup {"--configuration", "--purpose"}
    /\ Needs(m) \cup {"--configuration"} \subseteq Named(l)
    /\ "--bind" \in Named(l) <=> "--nodes" \in Named(l)

(* A line has at most one switch, and m is the mode it asks for.           *)
Asks(l, m) ==
    LET S == {i \in DOMAIN l : l[i] \in Switch}
    IN  /\ \A i, j \in S : i = j
        /\ m = "service" => S = {}
        /\ m # "service" => \E i \in S : l[i] = m

(* A line is accepted exactly where, whatever the order of its words, it   *)
(* is well formed, has at most one switch and names what its mode takes    *)
(* and needs (arguments.rs parse, names, placing against USAGE); and what  *)
(* the program then runs with is each flag's last value: no later word is  *)
(* taken for a value, and no value of an earlier one survives.             *)
ReadsRight ==
    LET good == \E m \in Switch \cup {"service"} :
                    WellFormed(line) /\ Asks(line, m) /\ Proper(line, m)
    IN  /\ result = "accepted" => good
        /\ result = "refused" => ~good
        /\ result = "accepted" =>
              /\ Asks(line, mode)
              /\ \A f \in Flag : Says(line, Len(line), f, given[f])

(* The documentation of placing, "--bind and --nodes come together, and    *)
(* only with --slice".                                                     *)
NodesOnlyWithSlice ==
    (result = "accepted" /\ Is("--nodes")) => mode = "--slice" /\ Is("--bind")
==============================================================================
