---------------------------- MODULE PhaseScripts ----------------------------
(***************************************************************************)
(* What runs inside the sandbox for packages other than Python's: the      *)
(* scripts analyze-*.{js,rb,php,py} of sandboxes/dynamicanalysis, a        *)
(* process per phase, each started if the one before has succeeded.  The   *)
(* package's own code runs while its files are loaded: in the script's     *)
(* process (Node, Ruby, PHP) or in a child of it (Rust, Java, Wolfi).      *)
(***************************************************************************)
EXTENDS Naturals, Sequences, FiniteSets

CONSTANTS File   \* of a package

\* What loading a file comes to: the code may throw, end its process as if
\* all were well, or end it in a way that no handler catches
Outcome == {"loads", "throws", "exits", "dies"}

VARIABLES
  language,
  running, \* the phase of the process that runs; "none" between them
  sources, \* the package's
  loading, \* of each file's code
  toRun,   \* it has still to run
  loaded,  \* files that were loaded, by the phase that runs or ran last
  became   \* what became of each phase: "no", "success" or "failure"

phaseVars == <<language, running, sources, loading, toRun, loaded, became>>

Languages == {"node", "ruby", "php", "rust", "java", "wolfi"}

\* dynamicPhases: no execution of Node packages, no import of Wolfi's
PhasesOf == [l \in Languages |->
  IF l = "wolfi" THEN {"install", "execute"} ELSE {"install", "import"}]

Exit(how) ==
  /\ became' = [became EXCEPT ![running] = how]
  /\ running' = "none"

------------------------------------------------------------------------------
(* Processes *)

\* What a process runs before, or instead of, loading files itself; the
\* first that fails ends it
FromNpm      == <<"npm init", "npm install">>
FromGem      == <<"gem install">>
FromComposer == <<"composer init", "composer require">>
FromCargo    == <<"Cargo.toml", "cargo build">>
FromMaven    == <<"pom.xml", "mvn compile">>
\* The first package whose name starts like the one asked for, in every phase
FindApk      == <<"search_apk", "download_apk">>
FromApk      == FindApk \o <<"apk add">>

ImportWithCargo == <<"main.rs", "cargo run">>
ImportWithMaven == <<"mvn dependency:copy", "Main.java", "mvn compile", "mvn exec:java">>
ExecuteApk      == FindApk \o <<"extract", "run">>

CommandsOf == [
  install |-> [node |-> FromNpm, ruby |-> FromGem, php |-> FromComposer,
               rust |-> FromCargo, java |-> FromMaven, wolfi |-> FromApk],
  import  |-> [node |-> <<>>, ruby |-> <<"find_by_name">>, php |-> <<"packageBasePath">>,
               rust |-> ImportWithCargo, java |-> ImportWithMaven],
  execute |-> [wolfi |-> ExecuteApk]]

\* The package's own code is part of these
Runs == {"cargo run", "mvn exec:java", "run"}

\* A CalledProcessError of an import is printed, and the phase succeeds
Printed == {"cargo run", "mvn dependency:copy", "mvn compile", "mvn exec:java"}

\* MakeAnalysisArgs and the script's arguments, the same for every language
StartScript ==
  /\ running = "none"
  /\ \E p \in PhasesOf[language] :
       /\ became[p] = "no" /\ (p # "install" => became["install"] = "success")
       /\ running' = p /\ toRun' = CommandsOf[p][language]
  /\ loaded' = {}
  /\ UNCHANGED <<language, sources, loading, became>>

CodeFails == \E f \in sources : loading[f] \in {"throws", "dies"}

RunCommand ==
  /\ running # "none" /\ toRun # <<>>
  /\ LET command == Head(toRun)
     IN \/ /\ (command \in Runs => ~CodeFails)
           /\ toRun' = Tail(toRun)
           /\ loaded' = (IF command \in Runs THEN sources ELSE loaded)
           /\ UNCHANGED <<running, became>>
        \/ /\ Exit(IF running = "import" /\ command \in Printed THEN "success" ELSE "failure")
           /\ loaded' \in (IF command \in Runs THEN {{}, sources} ELSE {loaded})
           /\ UNCHANGED toRun
  /\ UNCHANGED <<language, sources, loading>>

\* Only scripts that load files themselves have some left
LoadsItself == running = "import" /\ language \in {"node", "ruby", "php"}
EndPhase ==
  /\ running # "none" /\ toRun = <<>> /\ (LoadsItself => loaded = sources)
  /\ Exit("success") /\ UNCHANGED <<language, sources, loading, loaded, toRun>>

------------------------------------------------------------------------------
(* Loading in the script's own process *)

\* What the script's handler around each file catches.  Ruby's exit is an
\* exception too
Caught == [node |-> {"throws"}, php |-> {"throws"}, ruby |-> {"throws", "exits"}]

\* What an uncaught one leaves as the script's status
StatusOf == [exits |-> "success", throws |-> "failure", dies |-> "failure"]

Continues(f) == loading[f] \in {"loads"} \cup Caught[language]

\* One handler for all the files
LoadTogether(f) ==
  /\ LoadsItself /\ toRun = <<>>
  /\ f \in sources \ loaded /\ loaded' = loaded \cup {f}
  /\ IF loading[f] = "loads" THEN UNCHANGED <<running, became>>
     ELSE Exit(IF Continues(f) THEN "success" ELSE StatusOf[loading[f]])
  /\ UNCHANGED <<language, sources, loading, toRun>>

\* require of Node's package, which is one file here, or require and
\* include_once of each file below the directories of a Ruby or PHP package
LoadFile(f) ==
  /\ LoadsItself /\ toRun = <<>>
  /\ f \in sources \ loaded /\ loaded' = loaded \cup {f}
  /\ IF Continues(f) THEN UNCHANGED <<running, became>> ELSE Exit(StatusOf[loading[f]])
  /\ UNCHANGED <<language, sources, loading, toRun>>

------------------------------------------------------------------------------
PhasesInit ==
  /\ language \in Languages /\ running = "none" /\ loaded = {} /\ toRun = <<>>
  /\ sources \in SUBSET File \ {{}} /\ (language = "node" => Cardinality(sources) = 1)
  /\ loading \in [sources -> Outcome]
  /\ became = [p \in {"install", "import", "execute"} |-> "no"]

PhasesNext == StartScript \/ RunCommand \/ EndPhase \/ \E f \in File : LoadFile(f)

PhasesSpec == PhasesInit /\ [][PhasesNext]_phaseVars

------------------------------------------------------------------------------
(* Properties *)

\* A file that cannot be loaded does not keep the others from being analyzed:
\* an import phase that succeeds in the script's process has loaded them all,
\* unless the package's code has ended the process
NothingIsSkipped ==
  running = "none" /\ became["import"] = "success" /\ language \in {"node", "ruby", "php"} =>
    \/ loaded = sources
    \/ language # "ruby" /\ \E f \in loaded : loading[f] = "exits"
==============================================================================
