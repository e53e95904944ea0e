----------------------------- MODULE PythonPhases -----------------------------
(***************************************************************************)
(* What runs inside the sandbox for a Python package:                      *)
(* sandboxes/dynamicanalysis/analyze-python.py, one process for each of    *)
(* the phases install, import and execute, which are started one after the *)
(* other until one fails (internal/worker/rundynamic.go).                  *)
(*                                                                         *)
(* The execute phase imports every module again and calls what it finds in *)
(* it: functions, constructors, the methods of the instances it makes and, *)
(* depth first, of the values the calls return.  SIGALRM interrupts a call *)
(* that hangs: it goes off once, raises in the package's own frames, and   *)
(* the package may catch what it raises.  A call that raises by itself     *)
(* leaves the alarm set; what it then interrupts depends on where the      *)
(* script is when it goes off.  Package code also runs with no alarm, when *)
(* a value or an exception is printed and an object is explored, and may   *)
(* end the process at any time.                                            *)
(***************************************************************************)
EXTENDS Naturals, Sequences, FiniteSets

CONSTANTS
  Modules, \* the package's modules, in the order of its list of files
  Function,
  Class,   \* classes of the package
  Method,
  Members, \* of a module, by name: functions and classes, an alias twice
  Methods, \* of a class, __init__ excepted
  Home,    \* the module of a class
  Returns, \* what a function or method may return: classes or Nothing
  Nothing

Module == {Modules[i] : i \in DOMAIN Modules}
Callable == Function \cup Class \cup Method

ASSUME ScriptConstants ==
  /\ Modules \in Seq(Module) /\ Members \in [Module -> Seq(Function \cup Class)]
  /\ Methods \in [Class -> Seq(Method)] /\ Home \in [Class -> Module]
  /\ Returns \in [Function \cup Method -> SUBSET (Class \cup {Nothing})] /\ Nothing \notin Class
  /\ Method \cap (Function \cup Class) = {}

VARIABLES
  phase,
  spc,          \* where the script is
  toImport,     \* modules still to import, or to import and execute
  frames,       \* names still to visit: the module's and, inside, instances' methods
  current,      \* what is being called
  alarm,        \* signal.alarm is set
  seen,         \* seen_types
  instantiated, \* instantiated_types
  imported,     \* modules that the import phase could import
  calls,        \* how often each one was called, in the execute phase
  cut,          \* modules whose execution was given up
  exit,         \* of the last process; Nothing while it runs
  failed        \* package code raised by itself or ended the process, or a
                \* constructor gave no instance of its class

explored   == <<frames, current, seen, instantiated>>
scriptVars == <<phase, spc, toImport, explored, alarm, imported, calls, cut, exit, failed>>

In(loc)  == spc = loc
To(loc)  == spc' = loc
This     == Head(toImport)
Ends(exitStatus) == To("ended") /\ exit' = exitStatus
LeaveModule      == To("leave") /\ frames' = <<>> /\ cut' = cut \cup {This}

\* Where package code runs with no alarm: a call that caught the TimeoutError,
\* the repr and the getters of what a call returned, the str of what it raised
\* (whose alarm may still be set)
Untimed == {"caught", "unguarded", "raised"}

------------------------------------------------------------------------------
(* Processes: main, install, import_package *)

Install ==
  /\ In("install")
  /\ \E exitStatus \in {0, 1} : Ends(exitStatus)
  /\ UNCHANGED <<phase, toImport, explored, alarm, imported, calls, cut, failed>>

BeginPhase ==
  /\ In("ended") /\ exit = 0 /\ phase # "execute"
  /\ phase' = (IF phase = "install" THEN "import" ELSE "execute")
  /\ To("import") /\ exit' = Nothing
  /\ toImport' = Modules
  /\ UNCHANGED <<explored, alarm, imported, calls, cut, failed>>

\* No failure to import is reported, SystemExit included
ImportModule ==
  /\ In("import") /\ phase = "import" /\ toImport # <<>>
  /\ \/ imported' = imported \cup {This} \/ UNCHANGED imported
  /\ toImport' = Tail(toImport)
  /\ UNCHANGED <<phase, spc, explored, alarm, calls, cut, exit, failed>>

EndImports ==
  /\ In("import") /\ toImport = <<>>
  /\ Ends(0) /\ alarm' = FALSE
  /\ UNCHANGED <<phase, toImport, explored, imported, calls, cut, failed>>

\* execute_package, and the handler and names of execute_module.  What could
\* not be imported in the import phase raises here
ImportAgain ==
  /\ In("import") /\ phase = "execute" /\ toImport # <<>>
  /\ IF This \in imported
       THEN /\ To("explore") /\ UNCHANGED <<exit, alarm>>
            /\ frames' = <<Members[This]>> /\ seen' = {} /\ instantiated' = {}
       ELSE Ends(1) /\ alarm' = FALSE /\ UNCHANGED <<frames, seen, instantiated>>
  /\ UNCHANGED <<phase, toImport, current, imported, calls, cut, failed>>

------------------------------------------------------------------------------
(* do_execute *)

Rest == <<Tail(Head(frames))>> \o Tail(frames)

\* calls have no time limit
CallUnarmed ==
  /\ In("explore") /\ frames # <<>> /\ Head(frames) # <<>>
  /\ current' = Head(Head(frames))
  /\ calls' = [calls EXCEPT ![current'] = @ + 1]
  /\ To("call") /\ frames' = Rest
  /\ UNCHANGED <<phase, toImport, alarm, seen, instantiated, imported, cut, exit, failed>>

\* invoke_function.  Arguments that do not bind raise before the alarm is set
Call ==
  /\ In("explore") /\ frames # <<>> /\ Head(frames) # <<>>
  /\ current' = Head(Head(frames))
  /\ calls' = [calls EXCEPT ![current'] = @ + 1]
  /\ \/ To("call") /\ alarm' = TRUE /\ UNCHANGED failed
     \/ To("stopped") /\ failed' = TRUE /\ UNCHANGED alarm
  /\ frames' = Rest
  /\ UNCHANGED <<phase, toImport, seen, instantiated, imported, cut, exit>>

Pop ==
  /\ In("explore") /\ frames # <<>> /\ Head(frames) = <<>>
  /\ frames' = Tail(frames)
  /\ UNCHANGED <<phase, spc, toImport, current, alarm, seen, instantiated, imported, calls, cut, exit, failed>>

\* should_investigate and mark_seen
Investigate(ts) == \E t \in ts :
  IF t # Nothing /\ Home[t] = This /\ t \notin seen
    THEN seen' = seen \cup {t} /\ frames' = <<Methods[t]>> \o frames
    ELSE UNCHANGED <<seen, frames>>

CallReturns ==
  /\ spc \in {"call", "caught"}
  /\ IF current \in Class
       THEN /\ frames' = (IF current \in instantiated THEN frames ELSE <<Methods[current]>> \o frames)
            /\ instantiated' = instantiated \cup {current} /\ UNCHANGED seen
       ELSE Investigate(Returns[current]) /\ UNCHANGED instantiated
  /\ To("unguarded")
  /\ UNCHANGED <<phase, toImport, current, imported, calls, cut, exit, failed>>

\* the alarm is not taken back
ReturnArmed == CallReturns /\ UNCHANGED alarm

Return == CallReturns /\ alarm' = FALSE

\* The value has been printed and its members are listed
Show ==
  /\ In("unguarded")
  /\ To("explore")
  /\ UNCHANGED <<phase, toImport, explored, alarm, imported, calls, cut, exit, failed>>

\* An exception of the package, in a call.  signal.alarm(0) is skipped
Raise ==
  /\ spc \in {"call", "caught"}
  /\ To("raised") /\ failed' = TRUE
  /\ UNCHANGED <<phase, toImport, explored, alarm, imported, calls, cut, exit>>

\* run_and_catch_all; an instance that could not be made fails the assertion
\* on its class, which ends the module
Catch ==
  /\ spc \in {"stopped", "raised"}
  /\ IF current \in Class THEN LeaveModule ELSE To("explore") /\ UNCHANGED <<frames, cut>>
  /\ UNCHANGED <<phase, toImport, current, alarm, seen, instantiated, imported, calls, exit, failed>>

\* repr, a getter or the str of an exception raises, beyond run_and_catch_all
RaiseOutside ==
  /\ spc \in {"unguarded", "raised"}
  /\ LeaveModule /\ failed' = TRUE
  /\ UNCHANGED <<phase, toImport, current, alarm, seen, instantiated, imported, calls, exit>>

\* assert instance.__class__ == member: the constructor made something else
WrongClass ==
  /\ spc \in {"call", "caught"} /\ current \in Class
  /\ LeaveModule /\ alarm' = FALSE /\ failed' = TRUE
  /\ UNCHANGED <<phase, toImport, current, seen, instantiated, imported, calls, exit>>

\* os._exit, in any code of the package that runs.  An import phase that it
\* ends says nothing of the modules that were not yet imported
PackageExits ==
  /\ spc \notin {"install", "ended"}
  /\ \E exitStatus \in {0, 1} : Ends(exitStatus)
  /\ alarm' = FALSE /\ failed' = TRUE
  /\ IF phase = "import" THEN \E could \in SUBSET Module : imported' = imported \cup could
     ELSE UNCHANGED imported
  /\ UNCHANGED <<phase, toImport, explored, calls, cut>>

\* alarm_handler raises in whatever runs: a call, which may catch it, the loops
\* of do_execute or, beyond its try, the script.  After SIG_DFL is restored the
\* process is killed
AlarmGoesOff ==
  /\ alarm /\ ~In("ended")
  /\ alarm' = FALSE
  /\ \/ /\ In("call") /\ To("stopped") /\ UNCHANGED <<frames, cut, exit>>
        /\ failed' = (failed \/ current \in Class)
     \/ In("call") /\ To("caught") /\ UNCHANGED <<frames, cut, exit, failed>>
     \/ In("raised") /\ UNCHANGED <<spc, frames, cut, exit, failed>>
     \/ spc \in {"explore", "unguarded", "stopped", "raised"} /\ LeaveModule /\ UNCHANGED <<exit, failed>>
     \/ In("leave") /\ Ends(1) /\ UNCHANGED <<frames, cut, failed>>
     \/ In("import") /\ Ends(142) /\ UNCHANGED <<frames, cut, failed>>
  /\ UNCHANGED <<phase, toImport, current, seen, instantiated, imported, calls>>

\* All names were visited, and the handler is restored
Visited ==
  /\ In("explore") /\ frames = <<>>
  /\ To("leave")
  /\ UNCHANGED <<phase, toImport, explored, alarm, imported, calls, cut, exit, failed>>

Leave ==
  /\ In("leave")
  /\ To("import") /\ toImport' = Tail(toImport)
  /\ UNCHANGED <<phase, explored, alarm, imported, calls, cut, exit, failed>>

------------------------------------------------------------------------------
ScriptInit ==
  /\ phase = "install" /\ spc = "install" /\ toImport = <<>>
  /\ frames = <<>> /\ current = Nothing /\ seen = {} /\ instantiated = {}
  /\ alarm = FALSE /\ imported = {} /\ cut = {} /\ exit = Nothing /\ failed = FALSE
  /\ calls = [c \in Callable |-> 0]

Script == \/ Install \/ BeginPhase \/ ImportModule \/ EndImports \/ ImportAgain
          \/ Call \/ Pop \/ (In("stopped") /\ Catch) \/ Visited \/ Leave

PackageCode == Return \/ Show \/ Raise \/ Catch \/ RaiseOutside \/ WrongClass \/ PackageExits

ScriptNext == Script \/ PackageCode \/ AlarmGoesOff

ScriptSpec == ScriptInit /\ [][ScriptNext]_scriptVars

\* The script goes on and time passes.  Package code may hang: no step of it
\* has to happen.  Imports, pip and threads that the package leaves running
\* have no time limit and are taken to end
ScriptFairness == WF_scriptVars(Script) /\ WF_scriptVars(AlarmGoesOff)

------------------------------------------------------------------------------
(* Properties *)

\* The places where a module has a function or class.  A module may be listed
\* twice: m.py and m/__init__.py are imported by one name
PlacesIn(m, c) == {i \in DOMAIN Members[m] : Members[m][i] = c}
Names(c) == UNION {{<<k, i>> : i \in PlacesIn(Modules[k], c)} : k \in DOMAIN Modules}

\* A phase ends unless package code that no alarm covers hangs: a call that
\* has not caught an alarm is interrupted, and a type is explored once, however
\* its methods return it
PhasesEnd == <>[](In("ended") /\ (exit # 0 \/ phase = "execute")) \/ <>[](spc \in Untimed)

\* analyze-python.py:201, "set timeout to prevent hangs"
HangsArePrevented == In("call") ~> spc \notin {"call", "caught"}

\* Calls that hang, and those that catch the alarm and return, cost nothing but
\* themselves: when no package code raised by itself or ended the process and
\* every constructor made an instance of its class, all names have been called
\* and the process succeeds
TimeoutsCostNothing ==
  phase = "execute" /\ In("ended") /\ imported = Module /\ ~failed =>
    /\ exit = 0 /\ cut = {}
    /\ \A c \in Function \cup Class : calls[c] = Cardinality(Names(c))

\* analyze-python.py:106, "if we're here, importing should have already worked
\* during import phase"
ImportWorkedBefore ==
  phase = "execute" /\ In("import") /\ toImport # <<>> => This \in imported
==============================================================================
