------------------------------- MODULE Landing -------------------------------
(***************************************************************************)
(* Publish-XmipChange: verifying, committing and pushing the estate's      *)
(* changed modules and pinning them in the repositories that mount them    *)
(* (Xmip/Publish-XmipChange.ps1, Test-XmipChangeTree.ps1,                  *)
(* Submit-XmipModule.ps1, Publish-XmipPin.ps1, Push-XmipMain.ps1,          *)
(* Get-XmipStatus.ps1, Get-XmipDeclaredModule.ps1).                        *)
(*                                                                         *)
(* The estate is a tree of git repositories: Root mounts modules, a module *)
(* may mount others.  A repository is its commits, oldest first, each the  *)
(* gitlinks it records; origin has a prefix of them.  A run is interrupted *)
(* anywhere; a push fails, or succeeds and reads back another's commit.    *)
(* The operator edits, commits and switches branches between runs or,      *)
(* where Meanwhile allows it, during one.                                  *)
(***************************************************************************)
EXTENDS Naturals, Sequences, FiniteSets

CONSTANTS
    Root,        \* the platform repository, '.'
    Declared,    \* the modules, in .gitmodules order, a parent first
    Parent,      \* the repository that mounts each module
    Builds,      \* the modules each module's Cargo build needs
    Needs,       \* the same, its tests' own dependencies included
    References,  \* the modules each module's .NET projects name
    Verifiable,  \* the modules with a Cargo.toml or a project file
    New,         \* the modules that are no repository yet
    Kind,        \* what an operator edits: "code", "prose", "output"
    Branch,      \* what a repository may be on: "main", "detached", "other"
    Calls,       \* the switches the operator calls with
    Meanwhile,   \* the operator works while a run goes on
    MaxEdits,    \* edits, commits and switches the operator makes
    MaxRuns      \* landings begun

Module == {Declared[i] : i \in DOMAIN Declared}
Repo == {Root} \cup (Module \ New)
Child == [r \in Repo |-> {m \in Module \ New : Parent[m] = r}]

ASSUME LandingAssumption ==
    /\ Declared \in Seq(Module) /\ IsFiniteSet(Module) /\ Root \notin Module
    /\ \A i, j \in DOMAIN Declared : Declared[i] = Declared[j] => i = j
    /\ Parent \in [Module -> Repo]
    /\ \A i \in DOMAIN Declared : Parent[Declared[i]] \in
           {Root} \cup {Declared[j] : j \in 1..(i - 1)}
    /\ Builds \in [Module -> SUBSET Module]
    /\ Needs \in [Module -> SUBSET Module]
    /\ References \in [Module -> SUBSET Module]
    /\ \A m \in Module : Builds[m] \subseteq Needs[m]
    /\ Verifiable \subseteq Module /\ New \subseteq Module
    /\ Kind \subseteq {"code", "prose", "output"}
    /\ "main" \in Branch /\ Branch \subseteq {"main", "detached", "other"}
    /\ Calls \subseteq SUBSET {"Pin", "All", "NoVerify"}
    /\ Meanwhile \in BOOLEAN /\ MaxEdits \in Nat /\ MaxRuns \in Nat

VARIABLES
    files,      \* the uncommitted changes of each working tree
    log,        \* each repository's commits: the gitlinks each records
    origin,     \* how many of them origin's main has
    branch,     \* what each repository is on
    edits,      \* what the operator has done
    runs,       \* landings begun
    pc,         \* where the run is
    call,       \* its switches
    changed,    \* $status: the modules found changed
    unpushed,   \* $unpushed: found unchanged and ahead of origin
    consumers,  \* $consumers: unchanged and built on what changed
    coded,      \* $coded: changed by more than prose
    todo,       \* what the phase has still to do, in order
    pushing,    \* the first of todo is committed and not pushed yet
    verified,   \* $verified, in order
    skipped,    \* $skipped
    outcome,    \* how the run ended
    began,      \* origin when the run began (history)
    tested,     \* repositories tested since they were last edited (history)
    late,       \* edited in the run and not tested since (history)
    swept,      \* repositories whose untested files a commit took (history)
    landed      \* modules submitted by the run, in order (history)

estateVars == <<files, log, origin, branch>>
foundVars == <<call, changed, unpushed, consumers, coded>>
historyVars == <<began, tested, late, swept, landed>>
vars == <<files, log, origin, branch, edits, runs, pc, call, changed, unpushed,
          consumers, coded, todo, pushing, verified, skipped, outcome, began,
          tested, late, swept, landed>>

Tip(r) == Len(log[r])
Pinned(r, c) == log[r][Tip(r)][c]
Moved(r) == {c \in Child[r] : Tip(c) # Pinned(r, c)}
Elements(s) == {s[i] : i \in DOMAIN s}

(* The changed modules inside r that are no repository: to git, r's files. *)
Swallowed(r) == {n \in New : Parent[n] = r /\ files[n] # {}}

(* The repository git answers for in m's folder.                           *)
Home(m) == IF m \in New THEN Parent[m] ELSE m

(* The repositories mounted under r, itself included: in every set that    *)
(* holds r and whatever a member mounts.                                   *)
Under(r) ==
    {s \in Repo : \A U \in SUBSET Repo :
                     (r \in U /\ \A x \in U : Child[x] \subseteq U) => s \in U}

(* The members of s in T, in their order.                                  *)
Only(s, T) ==
    LET only[i \in Nat] ==
            IF i = 0 THEN <<>>
            ELSE IF s[i] \in T THEN Append(only[i - 1], s[i]) ELSE only[i - 1]
    IN  only[Len(s)]

------------------------------------------------------------------------------
(* Get-XmipRepositoryStatus: git counts a repository changed by its own    *)
(* files, by a nested one whose HEAD is not the recorded gitlink, and by   *)
(* anything changed inside a nested one.  The files of a module that is no *)
(* repository leave the status of the one right around it.                 *)
Changed(m) ==
    IF m \in New THEN files[m] # {}
    ELSE \E r \in Under(m) : \/ files[r] # {} \/ Moved(r) # {}
                             \/ r # m /\ Swallowed(r) # {}

AheadBy(m) == IF m \in New THEN 0 ELSE Tip(m) - origin[m]

(* Test-XmipCodeChange: prose alone breaks no consumer; a module git       *)
(* cannot compare with its upstream counts as code.                        *)
CodeChange(m) ==
    \/ m \in New \/ branch[m] # "main" \/ AheadBy(m) > 0
    \/ UNION {files[n] : n \in {m} \cup Swallowed(m)} \ {"prose"} # {}
    \/ Moved(m) # {} \/ \E c \in Child[m] : Changed(c)

(* What a consumer is known by: a Cargo dependency, its tests' own         *)
(* included, or a path its .NET projects name.                             *)
Uses(m) == Needs[m] \cup References[m]

(* Mutant of Consumers: only what uses the module itself is checked.       *)
Consumers_Direct(S) == {m \in Module : Uses(m) \cap S # {}} \ S

(* Get-XmipModuleConsumer: grown until nothing more is reached.            *)
Consumers(S) ==
    {m \in Module \ S : \A U \in SUBSET Module :
         (S \subseteq U /\ \A n \in Module : Uses(n) \cap U # {} => n \in U)
             => m \in U}

(* What may be placed next of the modules S, `placed` being placed: only   *)
(* a Cargo build holds a module back, no path a .NET project names.        *)
Ready(S, placed) ==
    {m \in S \ placed : \A d \in Builds[m] : d \in S \ placed => d = m}

(* Mutant of Ordered: the order of .gitmodules.                            *)
Ordered_AsDeclared(S) == Only(Declared, S)

(* Sort-XmipModuleDependency: in rounds, every module whose Cargo          *)
(* dependencies are placed.  Within a round the order is the one given.    *)
Ordered(S) ==
    LET placed[n \in Nat] ==
            IF n = 0 THEN <<>>
            ELSE LET p == placed[n - 1]
                 IN  p \o Only(Declared, Ready(S, Elements(p)))
    IN  placed[Cardinality(Module)]

(* The modules that mount modules, and how deep each is itself.            *)
Mounting == {m \in Module : \E x \in Module : Parent[x] = m}

Depth(m) == Cardinality({r \in Repo : m \in Under(r)})

(* Get-XmipNestedParent: deepest first.                                    *)
NestedParents ==
    LET atDepth[n \in Nat] ==
            IF n = 0 THEN <<>>
            ELSE Only(Declared, {m \in Mounting : Depth(m) = n})
                     \o atDepth[n - 1]
    IN  atDepth[Cardinality(Repo)]

------------------------------------------------------------------------------
Init ==
    /\ files = [r \in Repo \cup New |-> {}]
    /\ log = [r \in Repo |-> << [c \in Child[r] |-> 1] >>]
    /\ origin = [r \in Repo |-> 1]
    /\ branch \in [Repo -> Branch \ {"other"}]
    /\ edits = 0 /\ runs = 0 /\ pc = "idle" /\ call = {}
    /\ changed = {} /\ unpushed = {} /\ consumers = {} /\ coded = {}
    /\ todo = <<>> /\ pushing = FALSE /\ verified = <<>> /\ skipped = {}
    /\ outcome = "none" /\ began = origin /\ tested = {} /\ late = {}
    /\ swept = {} /\ landed = <<>>

(* The run ends, thrown or refused, where it is.                           *)
End(how) ==
    /\ pc' = "idle" /\ outcome' = how /\ todo' = <<>> /\ pushing' = FALSE

(* The modules this run finds changed.                                     *)
FoundChanged == {m \in Module : Changed(m)}

(* Mutant of FoundUnpushed: what is ahead is warned about and left.        *)
FoundUnpushed_Warned == {}

(* The modules found unchanged and ahead of origin.                        *)
FoundUnpushed == {m \in Module : ~Changed(m) /\ AheadBy(m) > 0}

(* The modules whose change a consumer may notice.                         *)
FoundCoded == {m \in FoundChanged : CodeChange(m)}

FoundConsumers == Consumers(FoundCoded) \ FoundChanged

(* Publish-XmipChange up to the verification: the checks for main, the     *)
(* estate map and the decision index written anew into the platform        *)
(* repository, the status of the estate read once, and what the switches   *)
(* make of it.                                                             *)
Publish ==
    LET refused == {r \in {Root} \cup {Home(m) : m \in FoundChanged} :
                        branch[r] = "other"}
        platform == Changed(Root) \/ files'[Root] # {}
        suspect == \E m \in FoundChanged : "output" \in files[m]
        ordered == Ordered(FoundChanged \cup FoundConsumers)
    IN
    /\ pc = "idle" /\ runs < MaxRuns
    /\ runs' = runs + 1 /\ call' \in Calls
    /\ \/ files' = files
       \/ /\ branch[Root] # "other" /\ "prose" \in Kind
          /\ files' = [files EXCEPT ![Root] = @ \cup {"prose"}]
    /\ changed' = FoundChanged /\ unpushed' = FoundUnpushed
    /\ coded' = FoundCoded /\ consumers' = FoundConsumers
    /\ verified' = <<>> /\ skipped' = {} /\ swept' = {} /\ landed' = <<>>
    /\ tested' = {} /\ late' = {} /\ began' = origin
    /\ \/ refused # {} /\ End("thrown")
       \/ /\ refused = {} /\ "Pin" \in call'
          /\ pc' = "unpushed" /\ outcome' = "none" /\ pushing' = FALSE
          /\ todo' = Only(Declared, FoundUnpushed)
       \/ /\ refused = {} /\ "Pin" \notin call'
          /\ FoundChanged = {} /\ ~platform /\ End("nothing")
       \/ /\ refused = {} /\ "Pin" \notin call' /\ suspect /\ End("refused")
       \/ /\ refused = {} /\ "Pin" \notin call' /\ ~suspect
          /\ FoundChanged # {} \/ platform
          /\ IF Elements(ordered) # FoundChanged \cup FoundConsumers
             THEN End("thrown")
             ELSE /\ pc' = "verify" /\ outcome' = "none" /\ pushing' = FALSE
                  /\ todo' = ordered
    /\ UNCHANGED <<log, origin, branch, edits>>

(* Mutant of Verify: what is unpushed is pushed while the tree verifies.   *)
Verify_PushesEarly ==
    /\ pc = "verify" /\ todo # <<>>
    /\ verified' = Append(verified, Head(todo)) /\ todo' = Tail(todo)
    /\ origin' = [r \in Repo |-> IF r \in unpushed THEN Tip(r) ELSE origin[r]]
    /\ tested' = tested \cup {Head(todo)} /\ late' = late \ {Head(todo)}
    /\ UNCHANGED <<pc, outcome, pushing, skipped, files, log, branch, edits,
                   runs, foundVars, began, swept, landed>>

(* Mutant of Verify: a module is taken as verified untested.               *)
Verify_Untested ==
    /\ pc = "verify" /\ todo # <<>>
    /\ verified' = Append(verified, Head(todo)) /\ todo' = Tail(todo)
    /\ UNCHANGED <<pc, outcome, pushing, skipped, estateVars, edits, runs,
                   foundVars, historyVars>>

(* Test-XmipChangeTree, one module: not verified at all, skipped, verified *)
(* or failed, which ends the run.                                          *)
Verify ==
    LET m == Head(todo) IN
    /\ pc = "verify" /\ todo # <<>>
    /\ \/ /\ "NoVerify" \in call
          /\ verified' = Append(verified, m) /\ todo' = Tail(todo)
          /\ UNCHANGED <<pc, outcome, pushing, skipped, tested, late>>
       \/ /\ "NoVerify" \notin call /\ "All" \notin call /\ m \notin Verifiable
          /\ skipped' = skipped \cup {m} /\ todo' = Tail(todo)
          /\ UNCHANGED <<pc, outcome, pushing, verified, tested, late>>
       \/ /\ "NoVerify" \notin call /\ ("All" \in call \/ m \in Verifiable)
          /\ verified' = Append(verified, m) /\ todo' = Tail(todo)
          /\ tested' = tested \cup {m} /\ late' = late \ {m}
          /\ UNCHANGED <<pc, outcome, pushing, skipped>>
       \/ /\ "NoVerify" \notin call /\ ("All" \in call \/ m \in Verifiable)
          /\ End("unverified") /\ UNCHANGED <<verified, skipped, tested, late>>
    /\ UNCHANGED <<estateVars, edits, runs, foundVars, began, swept, landed>>

(* The root crate and test/, then the refusal of a module that is no       *)
(* repository; what is committed and not pushed goes first.                *)
VerifyRoot ==
    /\ pc = "verify" /\ todo = <<>>
    /\ \/ /\ changed \cap New = {}
          /\ pc' = "unpushed"
          /\ todo' = Only(Declared, unpushed)
          /\ UNCHANGED <<outcome, pushing>>
       \/ changed \cap New # {} /\ End("refused")
       \/ "NoVerify" \notin call /\ End("unverified")
    /\ tested' = IF "NoVerify" \in call THEN tested ELSE tested \cup {Root}
    /\ late' = IF "NoVerify" \in call THEN late ELSE late \ {Root}
    /\ UNCHANGED <<verified, skipped, estateVars, edits, runs, foundVars,
                   began, swept, landed>>

(* Mutant of NextPhase: the platform is pinned before the nested parents.  *)
NextPhase_PlatformFirst ==
    /\ todo = <<>>
    /\ \/ pc = "unpushed" /\ pc' = "submit"
          /\ todo' = Only(verified, Module \ consumers)
       \/ pc = "submit" /\ pc' = "pin" /\ todo' = <<Root>>
       \/ pc = "pin" /\ pc' = "nested" /\ todo' = NestedParents
       \/ pc = "nested" /\ pc' = "done" /\ todo' = <<>>
    /\ outcome' = IF pc = "nested" THEN "ok" ELSE outcome
    /\ UNCHANGED <<estateVars, edits, runs, foundVars, pushing, verified,
                   skipped, historyVars>>

(* The next phase of the landing: what is unpushed is pushed, then each    *)
(* verified module submitted, then the nested pins, then the platform's.   *)
NextPhase ==
    /\ todo = <<>>
    /\ \/ pc = "unpushed" /\ "Pin" \notin call /\ pc' = "submit"
          /\ todo' = Only(verified, Module \ consumers)
       \/ /\ pc = "submit" \/ (pc = "unpushed" /\ "Pin" \in call)
          /\ pc' = "nested" /\ todo' = NestedParents
       \/ pc = "nested" /\ pc' = "pin" /\ todo' = <<Root>>
       \/ pc = "pin" /\ pc' = "done" /\ todo' = <<>>
    /\ outcome' = IF pc = "pin" THEN "ok" ELSE outcome
    /\ UNCHANGED <<estateVars, edits, runs, foundVars, pushing, verified,
                   skipped, historyVars>>

(* `git add -A` stages r's own files, the gitlinks of what it mounts and,  *)
(* where a module inside it is no repository, that module's files.         *)
Staged(r) == files[r] # {} \/ Moved(r) # {} \/ Swallowed(r) # {}

CommitAll(r) ==
    /\ log' = [log EXCEPT ![r] = Append(@, [c \in Child[r] |-> Tip(c)])]
    /\ files' = [f \in DOMAIN files |->
                    IF f \in {r} \cup Swallowed(r) THEN {} ELSE files[f]]

(* Submit-XmipRepositoryChange up to its commit, for a module, a nested    *)
(* parent or the platform repository; the platform's commits left          *)
(* unpushed are pushed where there is nothing to commit.                   *)
Submit ==
    LET r == Head(todo) IN
    /\ pc \in {"submit", "nested", "pin"} /\ todo # <<>> /\ ~pushing
    /\ branch' = IF pc = "submit" /\ branch[r] = "detached"
                 THEN [branch EXCEPT ![r] = "main"] ELSE branch
    /\ IF Staged(r)
       THEN /\ CommitAll(r) /\ pushing' = TRUE /\ todo' = todo
            /\ swept' = swept
                 \cup ({f \in {r} \cup Swallowed(r) : files[f] # {}} \ tested)
       ELSE /\ UNCHANGED <<log, files, swept>>
            /\ pushing' = (pc = "pin" /\ AheadBy(r) > 0)
            /\ todo' = IF pushing' THEN todo ELSE Tail(todo)
    /\ UNCHANGED <<origin, edits, runs, pc, foundVars, verified, skipped,
                   outcome, began, tested, late, landed>>

(* Push-XmipMain: pushed and read back; refused, or pushed and another's   *)
(* commit read back, which throws all the same.                            *)
Push ==
    LET r == Head(todo) IN
    /\ todo # <<>> /\ (pc = "unpushed" \/ pushing)
    /\ \/ /\ origin' = [origin EXCEPT ![r] = Tip(r)]
          /\ todo' = Tail(todo) /\ pushing' = FALSE
          /\ landed' = IF pc = "submit" THEN Append(landed, r) ELSE landed
          /\ UNCHANGED <<pc, outcome>>
       \/ /\ origin' \in {origin, [origin EXCEPT ![r] = Tip(r)]}
          /\ End("thrown") /\ landed' = landed
    /\ UNCHANGED <<files, log, branch, edits, runs, foundVars, verified,
                   skipped, began, tested, late, swept>>

(* The run is over and says what it landed.                                *)
Said ==
    /\ pc = "done" /\ pc' = "idle"
    /\ UNCHANGED <<estateVars, edits, runs, foundVars, todo, pushing, verified,
                   skipped, outcome, historyVars>>

(* The run is interrupted: Ctrl+C, the console closed, the machine down, a *)
(* git command that fails.                                                 *)
Interrupted ==
    /\ pc \notin {"idle", "done"} /\ End("interrupted")
    /\ UNCHANGED <<estateVars, edits, runs, foundVars, verified, skipped,
                   historyVars>>

------------------------------------------------------------------------------
(* The operator.                                                           *)
Working ==
    /\ pc = "idle" \/ (Meanwhile /\ pc # "done")
    /\ edits < MaxEdits /\ edits' = edits + 1
    /\ UNCHANGED <<origin, runs, pc, foundVars, todo, pushing, verified,
                   skipped, outcome, began, swept, landed>>

Edit(r, k) ==
    /\ Working /\ k \notin files[r]
    /\ files' = [files EXCEPT ![r] = @ \cup {k}]
    /\ tested' = tested \ {r} /\ late' = late \cup {r}
    /\ UNCHANGED <<log, branch>>

HandCommit(r) ==
    /\ Working /\ Staged(r) /\ CommitAll(r)
    /\ UNCHANGED <<branch, tested, late>>

Switch(r) ==
    /\ Working /\ branch' \in {[branch EXCEPT ![r] = b] : b \in Branch}
    /\ branch' # branch
    /\ UNCHANGED <<files, log, tested, late>>

Run == Verify \/ VerifyRoot \/ NextPhase \/ Submit \/ Push \/ Said

Next ==
    \/ Publish \/ Run \/ Interrupted
    \/ \E r \in Repo \cup New, k \in Kind : Edit(r, k)
    \/ \E r \in Repo : HandCommit(r) \/ Switch(r)

Spec == Init /\ [][Next]_vars

------------------------------------------------------------------------------
(* Type invariant.                                                         *)
TypeOK ==
    /\ files \in [Repo \cup New -> SUBSET Kind]
    /\ \A r \in Repo : log[r] \in Seq([Child[r] -> Nat]) /\ log[r] # <<>>
    /\ origin \in [Repo -> Nat] /\ began \in [Repo -> Nat]
    /\ branch \in [Repo -> Branch]
    /\ edits \in 0..MaxEdits /\ runs \in 0..MaxRuns
    /\ pc \in {"idle", "verify", "unpushed", "submit", "nested", "pin", "done"}
    /\ call \subseteq {"Pin", "All", "NoVerify"}
    /\ changed \subseteq Module /\ unpushed \subseteq Module
    /\ consumers \subseteq Module /\ coded \subseteq Module
    /\ skipped \subseteq Module
    /\ todo \in Seq(Repo \cup New) /\ verified \in Seq(Module)
    /\ landed \in Seq(Repo) /\ pushing \in BOOLEAN
    /\ outcome \in {"none", "ok", "nothing", "refused", "unverified", "thrown",
                    "interrupted"}
    /\ tested \subseteq Repo \cup New /\ late \subseteq Repo \cup New
    /\ swept \subseteq Repo \cup New

(* What a fresh clone of origin asks origin for: the commits reached from  *)
(* the platform's main over the gitlinks.                                  *)
Asked ==
    LET asked[n \in Nat] ==
            IF n = 0 THEN {<<Root, origin[Root]>>}
            ELSE LET q == asked[n - 1]
                 IN  q \cup UNION {{<<c, log[a[1]][a[2]][c]>> :
                                        c \in Child[a[1]]} : a \in q}
    IN  asked[Cardinality(Module)]

(* A fresh clone can always be checked out: nothing the platform's main on *)
(* origin pins, over any nesting, is a commit origin does not have -       *)
(* whatever run was interrupted or push refused on the way                 *)
(* (Submit-XmipModule.ps1 Publish-XmipUnpushed).                           *)
EstateCheckable == \A a \in Asked : a[2] <= origin[a[1]]

(* Nothing reaches origin unless the whole tree verified: a run stopped at *)
(* a module that failed has pushed nothing, what an earlier run left       *)
(* committed included (Publish-XmipChange.ps1, Test-XmipChangeTree.ps1).   *)
(* The command's own help says the opposite, "Each module is tested and    *)
(* landed before the next is tested ... A failure halfway leaves the       *)
(* earlier ones landed": it describes an order the code no longer has.     *)
FailurePushesNothing ==
    outcome \in {"unverified", "refused"} => origin = began

(* The core of a landing's state: the types, origin only ever at a commit  *)
(* its repository has, and nothing pushed by a run that failed to verify.  *)
LandingInv ==
    /\ TypeOK
    /\ \A r \in Repo : began[r] <= origin[r] /\ origin[r] <= Tip(r)
    /\ FailurePushesNothing

(* A landing that says it succeeded left nothing behind: every repository  *)
(* is on origin, every gitlink is where its module is, and only what was   *)
(* skipped or cannot be staged is still changed (Publish-XmipPin.ps1).     *)
SuccessIsWhole ==
    pc = "done" =>
        /\ \A r \in Repo : origin[r] = Tip(r) /\ Moved(r) = {}
        /\ \A r \in Repo : files[r] # {} => r \in skipped

(* Nothing is submitted before what Cargo builds it on, where that is      *)
(* submitted in the same run (Get-XmipDeclaredModule.ps1                   *)
(* Sort-XmipModuleDependency).  Of a .NET module nothing is said: what its *)
(* projects reference does not order it, and it may land first.            *)
DependenciesLandFirst ==
    \A i, j \in DOMAIN landed :
        landed[j] \in Builds[landed[i]] \ {landed[i]} => j < i

(* What uses m, itself included, over as many steps as there are modules.  *)
Users(m) ==
    LET within[n \in Nat] ==
            IF n = 0 THEN {m}
            ELSE LET u == within[n - 1]
                 IN  u \cup {x \in Module : Uses(x) \cap u # {}}
    IN  within[Cardinality(Module)]

(* What lands with changed code has had everything that uses it, however   *)
(* far away, verified against it (Get-XmipModuleConsumer).                 *)
ConsumersChecked ==
    (pc = "done" /\ "Pin" \notin call) =>
        \A m \in Elements(landed) \cap coded :
            Users(m) \subseteq Elements(verified) \cup skipped

(* A file a run that tests has committed untested was edited by the        *)
(* operator while the run went on, after its test, or is of a module that  *)
(* was skipped and is committed as what mounts others                      *)
(* (Submit-XmipModule.ps1 `git add -A`, Publish-XmipPin.ps1).              *)
TestedFirst ==
    call \cap {"NoVerify", "Pin"} = {} => swept \subseteq late \cup skipped

(* The documentation's "a module that cannot be verified here is reported  *)
(* and left alone": what a landing skipped it commits nothing of.          *)
SkippedLeftAlone == swept \cap skipped = {}

(* The documentation of -Pin, "Move the superproject's gitlinks and push,  *)
(* and do nothing else": it commits nobody's files.                        *)
PinMovesGitlinks == "Pin" \in call => swept = {}
==============================================================================
