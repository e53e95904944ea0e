------------------------------ MODULE MCSandbox ------------------------------
(***************************************************************************)
(* A TLC instance of the modules about what happens in and around a        *)
(* sandbox.  They share no state: a behaviour is one of the part it is     *)
(* about, and the other parts stay as they start.                          *)
(***************************************************************************)
EXTENDS PythonPhases, PhaseScripts, Observations, StaticAnalysis, DynamicAnalysis, TLC

CONSTANTS
  Parts,             \* the parts a run is about
  m1, m2, fn1, fn2, C, D, meth1, meth2, meth3,  \* a Python package
  s1, ip,
  dir, dirFile, file, twoLines                  \* paths of an archive

\* Two modules, an alias, and methods that return each other's class
TwoModules == <<m1, m2>>
TheMembers == (m1 :> <<fn1, C, C>>) @@ (m2 :> <<C, fn2>>)
TheMethods == (C :> <<meth1, meth2>>) @@ (D :> <<meth3>>)
TheHome    == (C :> m1) @@ (D :> m1)
TheReturns == (fn1 :> {D, Nothing}) @@ (fn2 :> {Nothing})
              @@ (meth1 :> {C}) @@ (meth2 :> {D, Nothing}) @@ (meth3 :> {Nothing})

TheAddress == (s1 :> ip)

\* A file in a directory, and a name with a newline between two other names
TheParent == (dir :> Root) @@ (dirFile :> dir) @@ (file :> Root) @@ (twoLines :> Root)
TheLines  == (dir :> <<dir>>) @@ (dirFile :> <<dirFile>>) @@ (file :> <<file>>)
             @@ (twoLines :> <<file, dir>>)

VARIABLE part
allVars == <<part, scriptVars, phaseVars, obsVars, staticVars, vars>>

OneScript == language = "wolfi" /\ sources = File /\ \A f \in sources : loading[f] = "loads"

SandboxInit ==
  /\ part \in Parts
  /\ ScriptInit /\ PhasesInit /\ ObsInit /\ StaticInit /\ Init
  /\ part # "scripts" => OneScript

InPython(A)  == part = "python" /\ A /\ UNCHANGED <<part, phaseVars, obsVars, staticVars, vars>>
InDynamic(A) == part = "dynamic" /\ A /\ UNCHANGED <<part, scriptVars, phaseVars, obsVars, staticVars>>

Python  == InPython(ScriptNext)
Scripts == part = "scripts" /\ PhasesNext /\ UNCHANGED <<part, scriptVars, obsVars, staticVars, vars>>
Observe == part = "observe" /\ ObsNext /\ UNCHANGED <<part, scriptVars, phaseVars, staticVars, vars>>
Static  == part = "static"  /\ StaticNext /\ UNCHANGED <<part, scriptVars, phaseVars, obsVars, vars>>
Dynamic == InDynamic(Next)

SandboxNext == Python \/ Scripts \/ Observe \/ Static \/ Dynamic

\* ScriptFairness, and the fairness of DynamicAnalysis!FairSpec, in their parts
SandboxFairness ==
  /\ WF_allVars(InPython(Script)) /\ WF_allVars(InPython(AlarmGoesOff))
  /\ WF_allVars(InDynamic(Analysis)) /\ WF_allVars(InDynamic(CommandExits))
  /\ WF_allVars(InDynamic(Receiver)) /\ SF_allVars(InDynamic(CloseStop))

SandboxSpec == SandboxInit /\ [][SandboxNext]_allVars /\ SandboxFairness

\* A phase of a Python package ends unless package code hangs where no alarm
\* covers it
PythonPhasesEnd == part = "python" => PhasesEnd

\* analyze-python.py:201, "set timeout to prevent hangs"
PythonHangsArePrevented == part = "python" => HangsArePrevented
==============================================================================
