------------------------- MODULE SandboxParts_proofs -------------------------
(***************************************************************************)
(* What happens in a sandbox and what is read from it: the phase scripts,  *)
(* Python's explore.py, the strace parser and static analysis.             *)
(*                                                                         *)
(* NothingIsSkipped for packages of any number of files, RecordIsWhole and *)
(* DataIsOwn for archives of any files and names, TimeoutsCostNothing for  *)
(* packages of any modules, functions, classes and methods, and            *)
(* ResultIsWhatHappened for traces of any length.                          *)
(*                                                                         *)
(* Loops over sequences are followed by induction on how far they are;     *)
(* what a recursive function gives is proved by the least counterexample,  *)
(* which LeastNatural provides.                                            *)
(***************************************************************************)
EXTENDS PhaseScripts, StaticAnalysis, PythonPhases, Observations,
        FiniteSetTheorems, SequenceTheorems, WellFoundedInduction, TLAPS

------------------------------------------------------------------------------
(* Induction over the naturals, by the least one of a set                  *)

LEMMA LeastNatural == ASSUME NEW T \in SUBSET Nat, T # {}
                      PROVE  \E x \in T : \A y \in T : x <= y
<1> DEFINE R == OpToRel(<, Nat)
<1>1. IsWellFoundedOn(R, Nat)
  BY NatLessThanWellFounded
<1>2. \A x, y \in Nat : y < x => <<y, x>> \in R
  BY DEF OpToRel
<1> HIDE DEF R
<1>3. PICK x \in T : \A y \in T : ~(<<y, x>> \in R)
  BY <1>1, WFMin
<1>4. \A y \in T : ~(y < x)
  BY <1>2, <1>3, Zenon
<1>5. \A y \in T : x <= y
  BY <1>4, SMT
<1>6. QED
  BY <1>5

------------------------------------------------------------------------------
(* Phase scripts: the import phase of Node, Ruby and PHP                   *)

Loaders == {"node", "ruby", "php"}
AllPhases == {"install", "import", "execute"}
Locating == {"find_by_name", "packageBasePath"}

PhaseTypeOK ==
  /\ language \in Languages
  /\ running \in AllPhases \cup {"none"}
  /\ became \in [AllPhases -> {"no", "success", "failure"}]
  /\ loading \in [sources -> Outcome]

\* The import phase comes after an install phase that succeeded, once, and
\* there is no other one
InOrder ==
  /\ running # "execute"
  /\ running = "import" => became["install"] = "success" /\ became["import"] = "no"
  /\ running = "install" => became["import"] = "no"
  /\ became["import"] # "no" => became["install"] = "success"

\* What a script that loads files itself runs before, which is never one of
\* the commands whose failure is only printed
BeforeLoading ==
  LoadsItself => toRun \in Seq(Locating)

\* While it runs the files are loaded one after the other, and the loop went on
\* after each of them
LoadedSoFar ==
  LoadsItself => loaded \subseteq sources /\ \A f \in loaded : Continues(f)

PhaseInv == language \in Loaders =>
  PhaseTypeOK /\ InOrder /\ BeforeLoading /\ LoadedSoFar /\ NothingIsSkipped

\* What the scripts of these languages run before
LEMMA Commands ==
  ASSUME language \in Loaders
  PROVE  /\ PhasesOf[language] = {"install", "import"}
         /\ CommandsOf["import"][language] \in Seq(Locating)
<1>1. PhasesOf[language] = {"install", "import"}
  BY DEF Loaders, PhasesOf, Languages
<1>2. CommandsOf["import"][language] \in {<<>>, <<"find_by_name">>, <<"packageBasePath">>}
  BY DEF Loaders, CommandsOf
<1>3. <<>> \in Seq(Locating) /\ <<"find_by_name">> \in Seq(Locating)
      /\ <<"packageBasePath">> \in Seq(Locating)
  BY DEF Locating
<1>4. QED
  BY <1>1, <1>2, <1>3

LEMMA PhaseInit == PhasesInit => PhaseInv
BY DEF PhasesInit, PhaseInv, PhaseTypeOK, InOrder, BeforeLoading, LoadedSoFar, NothingIsSkipped,
       LoadsItself, AllPhases

LEMMA PhaseNext == PhaseInv /\ [PhasesNext]_phaseVars => PhaseInv'
<1> SUFFICES ASSUME PhaseInv, [PhasesNext]_phaseVars, language' \in Loaders
             PROVE  PhaseInv'
  BY DEF PhaseInv
<1>1. language' = language /\ sources' = sources /\ loading' = loading
  BY DEF PhasesNext, phaseVars, StartScript, RunCommand, EndPhase, LoadFile
<1>2. /\ language \in Loaders
      /\ PhaseTypeOK /\ InOrder /\ BeforeLoading /\ LoadedSoFar /\ NothingIsSkipped
  BY <1>1 DEF PhaseInv
<1>3. CASE StartScript
  <2>1. PICK p \in {"install", "import"} :
          /\ became[p] = "no" /\ (p # "install" => became["install"] = "success")
          /\ running' = p /\ toRun' = CommandsOf[p][language]
    BY <1>2, <1>3, Commands DEF StartScript
  <2>2. loaded' = {} /\ became' = became
    BY <1>3 DEF StartScript
  <2>3. PhaseTypeOK' /\ InOrder'
    BY <1>1, <1>2, <2>1, <2>2 DEF PhaseTypeOK, InOrder, AllPhases
  <2>4. BeforeLoading'
    BY <1>1, <1>2, <2>1, Commands DEF BeforeLoading, LoadsItself
  <2>5. LoadedSoFar' /\ NothingIsSkipped'
    BY <2>1, <2>2 DEF LoadedSoFar, NothingIsSkipped
  <2>6. QED
    BY <2>3, <2>4, <2>5 DEF PhaseInv
<1>4. CASE RunCommand
  <2>1. running \in AllPhases /\ toRun # <<>>
    BY <1>2, <1>4 DEF RunCommand, PhaseTypeOK
  <2>2. running = "import" =>
          /\ Head(toRun) \in Locating /\ Tail(toRun) \in Seq(Locating)
    BY <1>2, <2>1 DEF BeforeLoading, LoadsItself, Loaders, Locating
  <2>3. running = "import" => Head(toRun) \notin Runs \cup Printed
    BY <2>2 DEF Runs, Printed, Locating
  <2>4. CASE UNCHANGED <<running, became>> /\ toRun' = Tail(toRun)
    <3>1. running = "import" => loaded' = loaded
      BY <1>4, <2>1, <2>3 DEF RunCommand, Exit, AllPhases
    <3>2. QED
      BY <1>1, <1>2, <2>1, <2>2, <2>4, <3>1
      DEF PhaseInv, PhaseTypeOK, InOrder, BeforeLoading, LoadedSoFar, NothingIsSkipped,
          LoadsItself, Continues, AllPhases
  <2>5. CASE ~(UNCHANGED <<running, became>> /\ toRun' = Tail(toRun))
    <3>1. PICK how \in {"success", "failure"} :
            /\ Exit(how) /\ (running = "import" => how = "failure")
      BY <1>4, <2>1, <2>3, <2>5 DEF RunCommand
    <3>2. QED
      BY <1>1, <1>2, <2>1, <3>1
      DEF PhaseInv, PhaseTypeOK, InOrder, BeforeLoading, LoadedSoFar, NothingIsSkipped,
          LoadsItself, Exit, AllPhases
  <2>6. QED
    BY <2>4, <2>5
<1>5. CASE EndPhase
  <2>1. running \in AllPhases /\ Exit("success") /\ loaded' = loaded
    BY <1>2, <1>5 DEF EndPhase, PhaseTypeOK
  <2>2. running = "import" => loaded = sources
    BY <1>2, <1>5 DEF EndPhase, LoadsItself, Loaders
  <2>3. QED
    BY <1>1, <1>2, <2>1, <2>2
    DEF PhaseInv, PhaseTypeOK, InOrder, BeforeLoading, LoadedSoFar, NothingIsSkipped,
        LoadsItself, Exit, AllPhases
<1>6. ASSUME NEW f \in File, LoadFile(f)
      PROVE  PhaseInv'
  <2>1. running = "import" /\ LoadsItself /\ f \in sources /\ loaded' = loaded \cup {f}
        /\ toRun' = toRun
    BY <1>6 DEF LoadFile, LoadsItself
  <2>2. CASE Continues(f)
    <3>1. UNCHANGED <<running, became>>
      BY <1>6, <2>2 DEF LoadFile
    <3>2. QED
      BY <1>1, <1>2, <2>1, <2>2, <3>1
      DEF PhaseInv, PhaseTypeOK, InOrder, BeforeLoading, LoadedSoFar, NothingIsSkipped,
          LoadsItself, Continues, AllPhases
  <2>3. CASE ~Continues(f)
    <3>1. Exit(StatusOf[loading[f]])
      BY <1>6, <2>3 DEF LoadFile
    <3>2. loading[f] \in {"throws", "exits", "dies"}
      BY <1>2, <2>1, <2>3 DEF Continues, PhaseTypeOK, Outcome
    <3>3. StatusOf[loading[f]] = (IF loading[f] = "exits" THEN "success" ELSE "failure")
      BY <3>2 DEF StatusOf
    <3>4. loading[f] = "exits" => language # "ruby"
      BY <2>3 DEF Continues, Caught
    <3>5. QED
      BY <1>1, <1>2, <2>1, <3>1, <3>3, <3>4
      DEF PhaseInv, PhaseTypeOK, InOrder, BeforeLoading, LoadedSoFar, NothingIsSkipped,
          LoadsItself, Exit, AllPhases
  <2>4. QED
    BY <2>2, <2>3
<1>7. CASE UNCHANGED phaseVars
  BY <1>2, <1>7
  DEF phaseVars, PhaseInv, PhaseTypeOK, InOrder, BeforeLoading, LoadedSoFar, NothingIsSkipped,
      LoadsItself, Continues
<1>8. QED
  BY <1>3, <1>4, <1>5, <1>6, <1>7 DEF PhasesNext

\* An import phase of a Node, Ruby or PHP package that succeeds has loaded all
\* of its files, or the package's code has ended the process, for any files
THEOREM ImportsLoadAll == PhasesSpec => []NothingIsSkipped
<1>1. PhaseInv => NothingIsSkipped
  BY DEF PhaseInv, NothingIsSkipped, Loaders
<1>2. QED
  BY PhaseInit, PhaseNext, <1>1, PTL DEF PhasesSpec

------------------------------------------------------------------------------
(* Static analysis: RecordIsWhole                                          *)

\* A sequence of a finite set has its elements and nothing else
LEMMA SequenceOfSet == ASSUME NEW S, IsFiniteSet(S)
                       PROVE  /\ SetToSeq(S) \in [1 .. Cardinality(S) -> S]
                              /\ ToSet(SetToSeq(S)) = S
<1> DEFINE n == Cardinality(S)
           f == SetToSeq(S)
<1>1. n \in Nat /\ ExistsBijection(1 .. n, S)
  BY FS_CardinalityType
<1>2. \E g \in [1 .. n -> S] : IsInjective(g)
  BY <1>1 DEF ExistsBijection, Bijection, Injection
<1>3. f \in [1 .. n -> S] /\ IsInjective(f)
  BY <1>2 DEF SetToSeq
<1>4. f \in Injection(1 .. n, S)
  BY <1>3 DEF Injection
<1>5. IsFiniteSet(1 .. n) /\ Cardinality(1 .. n) = n
  <2> HIDE DEF n
  <2>1. IsFiniteSet(1 .. n) /\ Cardinality(1 .. n) = IF 1 > n THEN 0 ELSE n - 1 + 1
    BY <1>1, FS_Interval
  <2>2. QED
    BY <1>1, <2>1
<1> HIDE DEF f
<1>6. f \in Surjection(1 .. n, S)
  BY <1>4, <1>5, FS_Injection
<1>7. ToSet(f) = S
  BY <1>3, <1>6 DEF Surjection, ToSet
<1>8. QED
  BY <1>3, <1>7 DEF f

\* The files of the archive's first entries, each from the last of its entries
Extracted ==
  /\ IsFiniteSet(DOMAIN disk)
  /\ \A n \in Paths : disk[n] \in 1 .. entry /\ archive[disk[n]] = [kind |-> "file", name |-> n]
  /\ \A j \in 1 .. entry :
       archive[j].kind = "file" => archive[j].name \in Paths /\ j <= disk[archive[j].name]

Whole(rec, run) ==
  /\ rec.of = run
  /\ ToSet(rec.files) = Regular
  /\ \A i \in DOMAIN rec.files : rec.basic[i] = LastEntry(rec.files[i])

Underway == {"download", "extract", "basic", "parse", "signals", "write"}

StaticInv ==
  /\ archive \in Seq(Entry) /\ entry \in 0 .. Len(archive)
  /\ at \in {"extract", "basic", "parse", "signals", "write"} => Extracted
  /\ at = "download" => entry = 0 /\ disk = <<>>
  /\ at \in {"basic", "parse", "signals", "write"} => entry = Len(archive)
  /\ at \in {"parse", "signals", "write"} => basic = [i \in DOMAIN PathList |-> disk[PathList[i]]]
  /\ at \in Underway => output = None
  /\ at = "ended" => output \in {None, Partial} \/ Whole(output, runs + 1)
  /\ at = "start" /\ record # None => Whole(record, runs)

LEMMA StaticInvInit == StaticInit => StaticInv
BY DEF StaticInit, StaticInv, Underway

\* When everything is extracted the lists hold every file in its last version
LEMMA ListsAreWhole ==
  ASSUME archive \in Seq(Entry), entry = Len(archive), Extracted
  PROVE  /\ ToSet(PathList) = Regular
         /\ \A i \in DOMAIN PathList : disk[PathList[i]] = LastEntry(PathList[i])
<1>1. IsFiniteSet(Paths)
  BY FS_Subset DEF Paths, Extracted
<1>2. ToSet(PathList) = Paths
  BY <1>1, SequenceOfSet DEF PathList
<1>3. DOMAIN archive = 1 .. entry
  OBVIOUS
<1>4. Paths = Regular
  <2>1. ASSUME NEW n \in Paths
        PROVE  n \in Regular
    <3>1. disk[n] \in 1 .. entry /\ archive[disk[n]] = [kind |-> "file", name |-> n]
      BY DEF Extracted
    <3>2. archive[disk[n]].kind = "file" /\ archive[disk[n]].name = n
      BY <3>1
    <3>3. QED
      BY <1>3, <3>1, <3>2 DEF Regular
  <2>2. ASSUME NEW n \in Regular
        PROVE  n \in Paths
    BY <1>3 DEF Extracted, Regular
  <2>3. QED
    BY <2>1, <2>2
<1>5. ASSUME NEW n \in Paths
      PROVE  disk[n] = LastEntry(n)
  <2> DEFINE of == {i \in DOMAIN archive : archive[i] = [kind |-> "file", name |-> n]}
  <2>1. disk[n] \in of /\ of \subseteq Nat
    BY <1>3 DEF Extracted
  <2>2. \A j \in of : j <= disk[n]
    BY <1>3 DEF Extracted
  <2>3. \A i \in of : (\A j \in of : j <= i) => i = disk[n]
    BY <2>1, <2>2
  <2>4. QED
    BY <2>1, <2>2, <2>3 DEF LastEntry
<1>6. \A i \in DOMAIN PathList : PathList[i] \in Paths
  BY <1>2 DEF ToSet
<1>7. QED
  BY <1>2, <1>4, <1>5, <1>6

\* Extract: one entry more is on disk
LEMMA ExtractOne ==
  ASSUME archive \in Seq(Entry), entry \in 0 .. Len(archive), Extracted, Extract, at' = at
  PROVE  Extracted'
<1> DEFINE e == archive[entry']
<1>1. /\ entry < Len(archive) /\ entry' = entry + 1 /\ archive' = archive
      /\ entry' \in 1 .. Len(archive) /\ e \in Entry /\ entry \in Nat
  BY DEF Extract
<1>2. \/ /\ e.kind = "dir" /\ e.name \notin DOMAIN disk
         /\ disk' = With(disk, e.name, Dir)
      \/ /\ e.kind = "file" /\ ~IsDir(e.name)
         /\ IsDir(Parent[e.name]) \/ Parent[e.name] \notin DOMAIN disk
         /\ disk' = With(IF Parent[e.name] = Root THEN disk ELSE With(disk, Parent[e.name], Dir),
                         e.name, entry')
  BY DEF Extract, ExitWith
<1>3. e.kind \in {"dir", "file", "other"} /\ e.name \in Name /\ e = [kind |-> e.kind, name |-> e.name]
  BY <1>1 DEF Entry
<1> HIDE DEF e
<1>4. CASE e.kind = "dir"
  <2>1. /\ DOMAIN disk' = DOMAIN disk \cup {e.name}
        /\ \A n \in DOMAIN disk : disk'[n] = disk[n]
        /\ disk'[e.name] = Dir
    BY <1>2, <1>4 DEF With
  <2>2. Paths' = Paths
    BY <1>2, <1>4, <2>1 DEF Paths
  <2>3. IsFiniteSet(DOMAIN disk')
    BY <2>1, FS_AddElement DEF Extracted
  <2>4. \A n \in Paths : disk'[n] = disk[n]
    BY <2>1 DEF Paths
  <2>5. archive[entry'].kind = "dir"
    BY <1>4 DEF e
  <2>6. QED
    BY <1>1, <2>2, <2>3, <2>4, <2>5 DEF Extracted
<1>5. CASE e.kind = "file"
  <2> DEFINE made == IF Parent[e.name] = Root THEN {e.name} ELSE {e.name, Parent[e.name]}
  <2>1. /\ DOMAIN disk' = DOMAIN disk \cup made
        /\ disk'[e.name] = entry'
        /\ \A n \in DOMAIN disk' \ {e.name} : disk'[n] = IF n \in made THEN Dir ELSE disk[n]
    BY <1>2, <1>5 DEF With
  <2>2. Paths' = Paths \cup {e.name} /\ \A n \in Paths \ {e.name} : disk'[n] = disk[n]
    BY <1>1, <1>2, <1>5, <2>1 DEF Paths, IsDir, Dir
  <2>3. IsFiniteSet(DOMAIN disk')
    <3>1. IsFiniteSet({e.name}) /\ IsFiniteSet({e.name} \cup {Parent[e.name]})
      BY FS_Singleton, FS_AddElement
    <3>2. IsFiniteSet(made)
      BY <3>1
    <3> HIDE DEF made
    <3>3. IsFiniteSet(DOMAIN disk \cup made)
      BY <3>2, FS_Union DEF Extracted
    <3>4. QED
      BY <2>1, <3>3
  <2>4. archive[entry'] = [kind |-> "file", name |-> e.name]
    BY <1>3, <1>5 DEF e
  <2>5. ASSUME NEW n \in Paths'
        PROVE  disk'[n] \in 1 .. entry' /\ archive'[disk'[n]] = [kind |-> "file", name |-> n]
    BY <1>1, <2>1, <2>2, <2>4 DEF Extracted
  <2>6. ASSUME NEW j \in 1 .. entry', archive[j].kind = "file"
        PROVE  archive[j].name \in Paths' /\ j <= disk'[archive[j].name]
    <3>1. CASE j = entry'
      BY <1>1, <2>1, <2>2, <2>4, <3>1
    <3>2. CASE j # entry'
      <4>1. j \in 1 .. entry /\ archive[j].name \in Paths /\ j <= disk[archive[j].name]
        BY <1>1, <2>6, <3>2 DEF Extracted
      <4>2. QED
        BY <1>1, <2>1, <2>2, <4>1
    <3>3. QED
      BY <3>1, <3>2
  <2>7. QED
    BY <1>1, <2>3, <2>5, <2>6 DEF Extracted
<1>6. QED
  BY <1>2, <1>4, <1>5

LEMMA StaticInvNext == StaticInv /\ [StaticNext]_staticVars => StaticInv'
<1> SUFFICES ASSUME StaticInv, [StaticNext]_staticVars
             PROVE  StaticInv'
  OBVIOUS
<1>1. CASE CreateResults
  <2>1. PICK n \in 0 .. MaxEntries : archive' \in [1 .. n -> Entry]
    BY <1>1 DEF CreateResults
  <2>2. archive' \in Seq(Entry)
    BY <2>1
  <2>3. /\ entry' = 0 /\ disk' = <<>> /\ at' = "download" /\ output' = None
    BY <1>1 DEF CreateResults
  <2>4. QED
    BY <2>2, <2>3 DEF StaticInv, Underway
<1>2. CASE Download
  <2>1. Extracted' \/ at' = "ended"
    BY <1>2, FS_EmptySet DEF Download, StaticInv, Extracted, Paths, ExitWith
  <2>2. QED
    BY <1>2, <2>1 DEF Download, StaticInv, Underway, ExitWith, task
<1>3. CASE Extract
  <2>1. at = "extract" /\ Extracted /\ archive \in Seq(Entry) /\ entry \in 0 .. Len(archive) /\ output = None
    BY <1>3 DEF Extract, StaticInv, Underway
  <2>2. /\ archive' = archive /\ entry' \in 0 .. Len(archive) /\ UNCHANGED <<output, runs, record, basic>>
        /\ at' \in {at, "ended"}
    BY <1>3, <2>1 DEF Extract, ExitWith, task
  <2>3. at' = at => Extracted'
    BY <1>3, <2>1, ExtractOne
  <2>4. QED
    BY <2>1, <2>2, <2>3 DEF StaticInv, Underway
<1>4. CASE InitParser
  BY <1>4 DEF InitParser, StaticInv, Underway, task, Extracted, Paths
<1>5. CASE Basic
  <2>1. /\ at = "basic" /\ at' = "parse" /\ basic' = [i \in DOMAIN PathList |-> disk[PathList[i]]]
        /\ UNCHANGED <<archive, entry, disk, output, runs, record>>
    BY <1>5 DEF Basic
  <2>2. Paths' = Paths /\ PathList' = PathList
    BY <2>1 DEF Paths, PathList
  <2>3. QED
    BY <2>1, <2>2 DEF StaticInv, Underway, Extracted
<1>6. CASE Parse \/ Signals
  <2>1. /\ at \in {"parse", "signals"} /\ at' \in {"signals", "write"}
        /\ UNCHANGED <<archive, entry, disk, basic, output, runs, record>>
    BY <1>6 DEF Parse, Signals
  <2>2. Paths' = Paths /\ PathList' = PathList
    BY <2>1 DEF Paths, PathList
  <2>3. QED
    BY <2>1, <2>2 DEF StaticInv, Underway, Extracted
<1>7. CASE Write
  <2>1. /\ at = "write" /\ at' = "ended" /\ UNCHANGED <<archive, entry, disk, basic, runs, record>>
        /\ output' \in {Data, None, Partial}
    BY <1>7 DEF Write, ExitWith, task
  <2>2. /\ Extracted /\ archive \in Seq(Entry) /\ entry = Len(archive)
        /\ basic = [i \in DOMAIN PathList |-> disk[PathList[i]]]
    BY <2>1 DEF StaticInv
  <2>3. Whole(Data, runs + 1)
    <3>1. Data.of = runs + 1 /\ Data.files = PathList /\ Data.basic = basic
      BY DEF Data
    <3>2. QED
      BY <2>2, <3>1, ListsAreWhole DEF Whole
  <2>4. \A rec : Whole(rec, runs + 1) => Whole(rec, runs + 1)'
    BY <2>1 DEF Whole, Regular, LastEntry
  <2>5. QED
    BY <2>1, <2>2, <2>3, <2>4 DEF StaticInv, Underway
<1>8. CASE Save
  <2>1. /\ at = "ended" /\ at' = "start" /\ runs' = runs + 1
        /\ UNCHANGED <<archive, entry, disk, output>>
        /\ record' = None \/ (record' = output /\ output \notin {None, Partial})
    BY <1>8 DEF Save
  <2>2. \A rec : Whole(rec, runs + 1) => Whole(rec, runs)'
    BY <2>1 DEF Whole, Regular, LastEntry
  <2>3. QED
    BY <2>1, <2>2 DEF StaticInv, Underway
<1>9. CASE UNCHANGED staticVars
  <2>1. UNCHANGED <<at, archive, entry, disk, basic, output, runs, record>>
    BY <1>9 DEF staticVars, task
  <2>2. Paths' = Paths /\ PathList' = PathList
    BY <2>1 DEF Paths, PathList
  <2>3. Extracted' = Extracted
    BY <2>1, <2>2 DEF Extracted
  <2>4. \A rec, n : Whole(rec, n)' = Whole(rec, n)
    BY <2>1 DEF Whole, Regular, LastEntry
  <2>5. QED
    BY <2>1, <2>2, <2>3, <2>4 DEF StaticInv, Underway
<1>10. QED
  BY <1>1, <1>2, <1>3, <1>4, <1>5, <1>6, <1>7, <1>8, <1>9 DEF StaticNext

\* A saved record is the one of its own analysis and has every file of the
\* archive in its last version, for archives of any size, any number of
\* analyses and whatever failed
THEOREM RecordsAreWhole == StaticSpec => []RecordIsWhole
<1>1. StaticInv => RecordIsWhole
  BY DEF StaticInv, Whole, RecordIsWhole
<1>2. QED
  BY StaticInvInit, StaticInvNext, <1>1, PTL DEF StaticSpec

------------------------------------------------------------------------------
(* Static analysis: DataIsOwn.  The lines of a list are as many as its     *)
(* names only if no name has a second line, and then they are the names.   *)

IsFlat(f, ss, n) == f = [i \in 1 .. n |-> IF i = 1 THEN ss[i] ELSE f[i - 1] \o ss[i]]

\* FlattenSeq's recursive function exists
LEMMA FlatExists == ASSUME NEW ss, NEW n \in Nat
                    PROVE  \E f : IsFlat(f, ss, n)
<1> DEFINE T == {k \in Nat : ~ \E f : IsFlat(f, ss, k)}
<1>1. SUFFICES ASSUME T # {}
               PROVE  FALSE
  OBVIOUS
<1>2. PICK k \in T : \A j \in T : k <= j
  <2> HIDE DEF T
  <2>1. T \in SUBSET Nat
    BY DEF T
  <2>2. QED
    BY <1>1, <2>1, LeastNatural
<1>3. k # 0
  <2>1. IsFlat([i \in 1 .. 0 |-> i], ss, 0)
    BY DEF IsFlat
  <2>2. QED
    BY <2>1
<1>4. PICK f : IsFlat(f, ss, k - 1)
  <2>1. k - 1 \in Nat /\ k - 1 \notin T
    BY <1>2, <1>3
  <2>2. QED
    BY <2>1
<1> DEFINE g == [i \in 1 .. k |-> IF i = 1 THEN ss[i] ELSE f[i - 1] \o ss[i]]
<1>5. IsFlat(g, ss, k)
  <2>1. ASSUME NEW i \in 1 .. k, i # 1
        PROVE  g[i - 1] = f[i - 1]
    <3>1. i - 1 \in 1 .. k - 1
      BY <1>3, <2>1
    <3>2. f[i - 1] = IF i - 1 = 1 THEN ss[i - 1] ELSE f[i - 1 - 1] \o ss[i - 1]
      BY <1>4, <3>1 DEF IsFlat
    <3>3. QED
      BY <3>1, <3>2
  <2>2. QED
    BY <2>1 DEF IsFlat
<1>6. QED
  BY <1>2, <1>5

LEMMA FlattenSeqIs == ASSUME NEW ss, Len(ss) \in Nat, Len(ss) > 0
                      PROVE  \E f : IsFlat(f, ss, Len(ss)) /\ FlattenSeq(ss) = f[Len(ss)]
<1> DEFINE f == CHOOSE f : IsFlat(f, ss, Len(ss))
<1>1. IsFlat(f, ss, Len(ss))
  BY FlatExists
<1>2. FlattenSeq(ss) = f[Len(ss)]
  BY DEF FlattenSeq, IsFlat
<1>3. QED
  BY <1>1, <1>2

\* Sequences that are not empty give as many elements only if each has one
OneEach(s, ss, i) ==
  /\ s \in Seq(Name) /\ Len(s) >= i
  /\ Len(s) = i => \A j \in 1 .. i : Len(ss[j]) = 1 /\ s[j] = ss[j][1]

LEMMA FlatOneEach ==
  ASSUME NEW n \in Nat, NEW ss, NEW f, IsFlat(f, ss, n),
         \A i \in 1 .. n : ss[i] \in Seq(Name) /\ Len(ss[i]) > 0
  PROVE  \A i \in 1 .. n : OneEach(f[i], ss, i)
<1> DEFINE T == {k \in 1 .. n : ~OneEach(f[k], ss, k)}
<1>1. SUFFICES ASSUME T # {}
               PROVE  FALSE
  OBVIOUS
<1>2. PICK k \in T : \A j \in T : k <= j
  <2> HIDE DEF T
  <2>1. T \in SUBSET Nat
    BY DEF T
  <2>2. QED
    BY <1>1, <2>1, LeastNatural
<1>3. k \in 1 .. n /\ ~OneEach(f[k], ss, k)
  BY <1>2
<1>4. f[k] = IF k = 1 THEN ss[k] ELSE f[k - 1] \o ss[k]
  BY <1>3 DEF IsFlat
<1>5. CASE k = 1
  BY <1>3, <1>4, <1>5 DEF OneEach
<1>6. CASE k # 1
  <2>1. k - 1 \in 1 .. n /\ k - 1 \notin T
    BY <1>2, <1>3, <1>6
  <2>2. OneEach(f[k - 1], ss, k - 1)
    BY <2>1
  <2> DEFINE s == f[k - 1]
             u == ss[k]
  <2>3. s \in Seq(Name) /\ Len(s) >= k - 1 /\ u \in Seq(Name) /\ Len(u) > 0
    BY <1>3, <2>2 DEF OneEach
  <2>4. f[k] = s \o u
    BY <1>4, <1>6
  <2>5. Len(s) = k - 1 => \A j \in 1 .. k - 1 : Len(ss[j]) = 1 /\ s[j] = ss[j][1]
    BY <2>2 DEF OneEach
  <2> HIDE DEF s, u
  <2>6. /\ s \o u \in Seq(Name) /\ Len(s \o u) = Len(s) + Len(u)
        /\ \A j \in 1 .. Len(s) : (s \o u)[j] = s[j]
        /\ \A j \in Len(s) + 1 .. Len(s) + Len(u) : (s \o u)[j] = u[j - Len(s)]
    BY <2>3, ConcatProperties
  <2>7. Len(s \o u) >= k
    BY <1>3, <2>3, <2>6
  <2>8. ASSUME Len(s \o u) = k
        PROVE  \A j \in 1 .. k : Len(ss[j]) = 1 /\ (s \o u)[j] = ss[j][1]
    <3>0. Len(s) \in Nat /\ Len(u) \in Nat /\ k \in Nat /\ Len(s) + Len(u) = k
      BY <1>3, <2>3, <2>6, <2>8, LenProperties
    <3>a. \A a, b, c \in Nat : a + b = c /\ a >= c - 1 /\ b > 0 => a = c - 1 /\ b = 1
      OBVIOUS
    <3>1. Len(s) = k - 1 /\ Len(u) = 1
      BY <2>3, <3>0, <3>a, Zenon
    <3>2. (s \o u)[k] = u[1]
      BY <1>3, <2>6, <3>1
    <3>3. \A j \in 1 .. k - 1 : Len(ss[j]) = 1 /\ (s \o u)[j] = ss[j][1]
      BY <2>5, <2>6, <3>1
    <3>4. \A j \in 1 .. k : j \in 1 .. k - 1 \/ j = k
      BY <1>3
    <3>5. QED
      BY <3>1, <3>2, <3>3, <3>4 DEF u
  <2>9. OneEach(f[k], ss, k)
    BY <2>4, <2>6, <2>7, <2>8 DEF OneEach
  <2>10. QED
    BY <1>3, <2>9
<1>7. QED
  BY <1>5, <1>6

\* Descriptions as many as the files are those of the files
LEMMA ListHasTheNames ==
  ASSUME NEW n \in Nat, PathList \in [1 .. n -> Name], Len(FileList) = Len(PathList)
  PROVE  FileList = PathList
<1> DEFINE ss == [i \in DOMAIN PathList |-> LinesOf[PathList[i]]]
<1>1. /\ Len(PathList) = n /\ DOMAIN PathList = 1 .. n /\ PathList \in Seq(Name)
      /\ Len(ss) = n /\ \A i \in 1 .. n : ss[i] = LinesOf[PathList[i]]
  OBVIOUS
<1>2. \A i \in 1 .. n : /\ ss[i] \in Seq(Name) /\ Len(ss[i]) > 0
                        /\ Len(ss[i]) = 1 => ss[i] = <<PathList[i]>>
  BY <1>1, StaticConstants
<1>3. FileList = FlattenSeq(ss)
  BY DEF FileList
<1>4. CASE n = 0
  BY <1>1, <1>3, <1>4 DEF FlattenSeq
<1>5. CASE n # 0
  <2> HIDE DEF ss
  <2>1. PICK f : IsFlat(f, ss, n) /\ FileList = f[n]
    BY <1>1, <1>3, <1>5, FlattenSeqIs
  <2>2. OneEach(FileList, ss, n)
    BY <1>2, <1>5, <2>1, FlatOneEach
  <2>3. FileList \in Seq(Name) /\ Len(FileList) = n /\ \A j \in 1 .. n : FileList[j] = PathList[j]
    BY <1>1, <1>2, <2>2 DEF OneEach
  <2>4. QED
    BY <1>1, <2>3
<1>6. QED
  BY <1>4, <1>5

OfItsFiles(answers) ==
  answers # None => \A i \in DOMAIN PathList : answers[i] \in {PathList[i], None}

Own(rec) ==
  /\ rec.types # None => rec.types = rec.files
  /\ rec.parsing # None => \A i \in DOMAIN rec.files : rec.parsing[i] \in {rec.files[i], None}
  /\ rec.signals = rec.parsing

DataInv ==
  /\ at \in {"parse", "signals", "write"} => types \in {None, PathList}
  /\ at \in {"signals", "write"} => OfItsFiles(parsing)
  /\ at = "write" => signals = parsing
  /\ at = "ended" => output \in {None, Partial} \/ Own(output)
  /\ record # None => Own(record)

LEMMA DataInvInit == StaticInit => DataInv
BY DEF StaticInit, DataInv

LEMMA DataInvNext == StaticInv /\ DataInv /\ [StaticNext]_staticVars => DataInv'
<1> SUFFICES ASSUME StaticInv, DataInv, [StaticNext]_staticVars
             PROVE  DataInv'
  OBVIOUS
<1>a. UNCHANGED disk => Paths' = Paths /\ PathList' = PathList
  BY DEF Paths, PathList
<1>1. CASE CreateResults
  BY <1>1 DEF CreateResults, DataInv
<1>2. CASE Download \/ InitParser
  BY <1>2 DEF Download, InitParser, DataInv, ExitWith, StaticInv, Underway
<1>3. CASE Extract
  <2>1. at = "extract" /\ at' \in {at, "ended"} /\ UNCHANGED <<output, record>>
    BY <1>3 DEF Extract, ExitWith
  <2>2. QED
    BY <2>1 DEF DataInv, StaticInv, Underway, Own
<1>4. CASE Basic
  <2>1. /\ at = "basic" /\ at' = "parse" /\ UNCHANGED <<disk, output, record>>
        /\ types' = None \/ types' = (IF Len(FileList) = Len(PathList) THEN FileList ELSE None)
    BY <1>4 DEF Basic, Descriptions
  <2>2. Len(FileList) = Len(PathList) => FileList = PathList
    <3>1. Extracted /\ archive \in Seq(Entry) /\ entry = Len(archive)
      BY <2>1 DEF StaticInv
    <3>2. IsFiniteSet(Paths)
      BY <3>1, FS_Subset DEF Paths, Extracted
    <3>3. PathList \in [1 .. Cardinality(Paths) -> Paths] /\ Cardinality(Paths) \in Nat
      BY <3>2, SequenceOfSet, FS_CardinalityType DEF PathList
    <3>4. \A n \in Paths : n \in Name
      <4> TAKE n \in Paths
      <4>1. disk[n] \in 1 .. Len(archive) /\ archive[disk[n]] = [kind |-> "file", name |-> n]
        BY <3>1 DEF Extracted
      <4>2. archive[disk[n]] \in Entry
        BY <3>1, <4>1
      <4>3. QED
        BY <4>1, <4>2 DEF Entry
    <3>5. PathList \in [1 .. Cardinality(Paths) -> Name]
      BY <3>3, <3>4
    <3>6. QED
      BY <3>3, <3>5, ListHasTheNames
  <2>3. QED
    BY <1>a, <2>1, <2>2 DEF DataInv
<1>5. CASE Parse
  <2>1. /\ at = "parse" /\ at' = "signals" /\ UNCHANGED <<disk, types, output, record>>
        /\ \/ parsing' = [i \in DOMAIN PathList |-> IF PathList[i] \in Parsed THEN PathList[i] ELSE None]
           \/ parsing' = None
    BY <1>5 DEF Parse
  <2>2. PathList' = PathList
    BY <1>a, <2>1
  <2>3. OfItsFiles(parsing)'
    BY <2>1, <2>2 DEF OfItsFiles
  <2>4. QED
    BY <2>1, <2>2, <2>3 DEF DataInv
<1>6. CASE Signals
  <2>1. /\ at = "signals" /\ at' = "write" /\ signals' = parsing
        /\ UNCHANGED <<disk, types, parsing, output, record>>
    BY <1>6 DEF Signals
  <2>2. QED
    BY <1>a, <2>1 DEF DataInv, OfItsFiles
<1>7. CASE Write
  <2>1. /\ at = "write" /\ at' = "ended" /\ record' = record
        /\ output' = Data \/ output' \in {None, Partial}
    BY <1>7 DEF Write, ExitWith
  <2>2. Own(Data)
    <3>1. /\ Data.files = PathList /\ Data.types = types
          /\ Data.parsing = parsing /\ Data.signals = signals
      BY DEF Data
    <3>2. QED
      BY <2>1, <3>1 DEF DataInv, Own, OfItsFiles
  <2>3. QED
    BY <2>1, <2>2 DEF DataInv, Own
<1>8. CASE Save
  BY <1>8 DEF Save, DataInv, Own
<1>9. CASE UNCHANGED staticVars
  <2>1. UNCHANGED <<at, disk, types, parsing, signals, output, record>>
    BY <1>9 DEF staticVars, task
  <2>2. QED
    BY <1>a, <2>1 DEF DataInv, OfItsFiles, Own
<1>10. QED
  BY <1>1, <1>2, <1>3, <1>4, <1>5, <1>6, <1>7, <1>8, <1>9 DEF StaticNext

\* What a record says of a file is about that file, for any names and
\* any number of them, newlines or not
THEOREM DataIsOfItsFile == StaticSpec => []DataIsOwn
<1>1. DataInv => DataIsOwn
  BY DEF DataInv, Own, DataIsOwn
<1>2. QED
  BY StaticInvInit, StaticInvNext, DataInvInit, DataInvNext, <1>1, PTL DEF StaticSpec

------------------------------------------------------------------------------
(* Python packages: TimeoutsCostNothing.  The names of the modules are     *)
(* visited one after the other; what is called has been visited, however   *)
(* often its call was given up.                                            *)

Exploring == {"explore", "call", "stopped"} \cup Untimed

\* The module that is executed, by its place on the list, and how many of its
\* names have been visited
Where  == Len(Modules) - Len(toImport) + 1
Bottom == frames[Len(frames)]
Done   == IF spc \in Exploring /\ Len(frames) > 0 THEN Len(Members[This]) - Len(Bottom)
          ELSE IF spc \in Exploring \cup {"leave"} THEN Len(Members[This]) ELSE 0
Visits(c, k, n) == {x \in Names(c) : x[1] < k \/ (x[1] = k /\ x[2] <= n)}

ScriptTypeOK ==
  /\ phase \in {"install", "import", "execute"}
  /\ toImport \in Seq(Module) /\ frames \in Seq(Seq(Callable))
  /\ calls \in [Callable -> Nat] /\ imported \subseteq Module
  /\ spc \in {"call", "caught", "stopped", "raised"} => current \in Callable
  /\ spc \in Exploring \cup {"leave"} => Len(toImport) > 0
  /\ alarm \in BOOLEAN

\* Nothing is called before the execute phase
Quiet == phase # "execute" =>
  /\ spc \in {"install", "import", "ended"}
  /\ ~alarm /\ cut = {}
  /\ \A c \in Callable : calls[c] = 0

\* Where the script is in the list of modules and in the names of one
OnItsWay ==
  /\ Len(toImport) <= Len(Modules)
  /\ \A j \in 1 .. Len(toImport) : toImport[j] = Modules[Where - 1 + j]
  /\ spc \in {"call", "caught", "unguarded", "stopped"} => Len(frames) > 0
  /\ spc \in Exploring /\ Len(frames) > 0 =>
       /\ \A i \in 1 .. Len(frames) - 1 : frames[i] \in Seq(Method)
       /\ Bottom \in Seq(Function \cup Class) /\ Len(Bottom) <= Len(Members[This])
       /\ \A j \in 1 .. Len(Bottom) : Bottom[j] = Members[This][Done + j]

Counted == \A c \in Function \cup Class :
  IsFiniteSet(Visits(c, Where, Done)) /\ calls[c] = Cardinality(Visits(c, Where, Done))

Costless ==
  /\ cut = {}
  /\ alarm => spc = "call"
  /\ spc # "raised" /\ (spc = "stopped" => current \notin Class)
  /\ spc \in Exploring \cup {"import", "leave", "ended"}
  /\ spc = "ended" /\ imported = Module => exit = 0 /\ Len(toImport) = 0

ScriptInv == ScriptTypeOK /\ Quiet /\ (phase = "execute" /\ ~failed => OnItsWay /\ Counted /\ Costless)

LEMMA NamesAre ==
  ASSUME NEW c
  PROVE  /\ \A x \in Names(c) : x = <<x[1], x[2]>>
         /\ \A k, i : <<k, i>> \in Names(c) <=>
              k \in DOMAIN Modules /\ i \in DOMAIN Members[Modules[k]] /\ Members[Modules[k]][i] = c
BY DEF Names, PlacesIn

LEMMA ModulesAre == /\ Modules \in Seq(Module) /\ Len(Modules) \in Nat /\ DOMAIN Modules = 1 .. Len(Modules)
                    /\ \A k \in DOMAIN Modules : /\ Modules[k] \in Module
                                                 /\ Members[Modules[k]] \in Seq(Function \cup Class)
                                                 /\ Len(Members[Modules[k]]) \in Nat
                                                 /\ DOMAIN Members[Modules[k]] = 1 .. Len(Members[Modules[k]])
<1>1. Modules \in Seq(Module) /\ Members \in [Module -> Seq(Function \cup Class)]
  BY ScriptConstants
<1>2. Len(Modules) \in Nat /\ DOMAIN Modules = 1 .. Len(Modules) /\ \A k \in DOMAIN Modules : Modules[k] \in Module
  BY <1>1
<1>3. QED
  BY <1>1, <1>2

\* The next name is visited
LEMMA VisitOne ==
  ASSUME NEW c, NEW k \in DOMAIN Modules, NEW n \in Nat, n + 1 \in DOMAIN Members[Modules[k]],
         IsFiniteSet(Visits(c, k, n))
  PROVE  IF Members[Modules[k]][n + 1] = c
         THEN /\ IsFiniteSet(Visits(c, k, n + 1))
              /\ Cardinality(Visits(c, k, n + 1)) = Cardinality(Visits(c, k, n)) + 1
         ELSE Visits(c, k, n + 1) = Visits(c, k, n)
<1>0. \A x \in Names(c) : /\ x = <<x[1], x[2]>> /\ x[1] \in Nat /\ x[2] \in Nat
                          /\ Members[Modules[x[1]]][x[2]] = c
  <2> TAKE x \in Names(c)
  <2>1. x = <<x[1], x[2]>>
    BY NamesAre
  <2>2. x[1] \in DOMAIN Modules /\ x[2] \in DOMAIN Members[Modules[x[1]]] /\ Members[Modules[x[1]]][x[2]] = c
    BY <2>1, NamesAre
  <2>3. QED
    BY <2>1, <2>2, ModulesAre
<1>1. CASE Members[Modules[k]][n + 1] = c
  <2>1. <<k, n + 1>> \in Names(c)
    BY <1>1, NamesAre
  <2>2. Visits(c, k, n + 1) = Visits(c, k, n) \cup {<<k, n + 1>>}
    <3>1. k \in Nat /\ <<k, n + 1>>[1] = k /\ <<k, n + 1>>[2] = n + 1
      BY ModulesAre
    <3>2. ASSUME NEW x \in Names(c)
          PROVE  x \in Visits(c, k, n + 1) <=> x \in Visits(c, k, n) \/ x = <<k, n + 1>>
      <4>1. x = <<x[1], x[2]>> /\ x[1] \in Nat /\ x[2] \in Nat
        BY <1>0
      <4>2. x = <<k, n + 1>> <=> x[1] = k /\ x[2] = n + 1
        BY <3>1, <4>1
      <4>3. x[2] <= n + 1 <=> x[2] <= n \/ x[2] = n + 1
        BY <4>1
      <4>4. QED
        BY <4>2, <4>3 DEF Visits
    <3>3. QED
      BY <2>1, <3>2 DEF Visits
  <2>3. <<k, n + 1>> \notin Visits(c, k, n)
    <3>1. k \in Nat /\ ~(k < k) /\ ~(n + 1 <= n)
      BY ModulesAre
    <3>2. QED
      BY <3>1 DEF Visits
  <2>4. QED
    BY <1>1, <2>2, <2>3, FS_AddElement
<1>2. CASE Members[Modules[k]][n + 1] # c
  BY <1>0, <1>2, ModulesAre DEF Visits
<1>3. QED
  BY <1>1, <1>2

\* After the last name comes the next module
LEMMA VisitNext ==
  ASSUME NEW c, NEW k \in DOMAIN Modules
  PROVE  Visits(c, k, Len(Members[Modules[k]])) = Visits(c, k + 1, 0)
<1>1. \A x \in Names(c) : /\ x[1] \in Nat /\ x[2] \in Nat /\ x[2] > 0
                          /\ x[1] = k => x[2] <= Len(Members[Modules[k]])
  <2> TAKE x \in Names(c)
  <2>1. x = <<x[1], x[2]>>
    BY NamesAre
  <2>2. x[1] \in DOMAIN Modules /\ x[2] \in DOMAIN Members[Modules[x[1]]]
    BY <2>1, NamesAre
  <2>3. QED
    BY <2>2, ModulesAre
<1>2. k \in Nat
  BY ModulesAre
<1>3. QED
  BY <1>1, <1>2 DEF Visits

LEMMA VisitAll == ASSUME NEW c
                  PROVE  Visits(c, Len(Modules) + 1, 0) = Names(c) /\ Visits(c, 1, 0) = {}
<1>1. \A x \in Names(c) : x[1] \in 1 .. Len(Modules) /\ x[2] \in Nat /\ x[2] > 0
  <2> TAKE x \in Names(c)
  <2>1. x = <<x[1], x[2]>>
    BY NamesAre
  <2>2. x[1] \in DOMAIN Modules /\ x[2] \in DOMAIN Members[Modules[x[1]]]
    BY <2>1, NamesAre
  <2>3. QED
    BY <2>2, ModulesAre
<1>2. QED
  BY <1>1, ModulesAre DEF Visits

LEMMA ScriptInvInit == ScriptInit => ScriptInv
<1> SUFFICES ASSUME ScriptInit
             PROVE  ScriptInv
  OBVIOUS
<1>1. <<>> \in Seq(Module) /\ <<>> \in Seq(Seq(Callable))
  OBVIOUS
<1>2. ScriptTypeOK
  BY <1>1 DEF ScriptInit, ScriptTypeOK, Exploring, Untimed
<1>3. Quiet
  BY DEF ScriptInit, Quiet
<1>4. QED
  BY <1>2, <1>3 DEF ScriptInit, ScriptInv

LEMMA TypeOfScript == ScriptTypeOK /\ [ScriptNext]_scriptVars => ScriptTypeOK'
<1> SUFFICES ASSUME ScriptTypeOK, [ScriptNext]_scriptVars
             PROVE  ScriptTypeOK'
  OBVIOUS
<1> USE DEF ScriptTypeOK, In, To, Ends, Exploring, Untimed
<1>a. /\ \A m \in Module : Members[m] \in Seq(Callable)
      /\ \A t \in Class : Methods[t] \in Seq(Callable)
      /\ Modules \in Seq(Module)
  BY ScriptConstants DEF Callable
<1>b. \A s \in Seq(Callable) : <<s>> \o frames \in Seq(Seq(Callable)) /\ <<s>> \in Seq(Seq(Callable))
  OBVIOUS
<1>c. <<>> \in Seq(Seq(Callable))
  OBVIOUS
<1>1. CASE Install
  BY <1>1 DEF Install, explored
<1>2. CASE BeginPhase
  BY <1>a, <1>2 DEF BeginPhase, explored
<1>3. CASE ImportModule
  <2>1. This \in Module /\ Tail(toImport) \in Seq(Module)
    BY <1>3 DEF ImportModule, This
  <2>2. QED
    BY <1>3, <2>1 DEF ImportModule, explored
<1>4. CASE EndImports
  BY <1>4 DEF EndImports, explored
<1>5. CASE ImportAgain
  <2>1. This \in Module
    BY <1>5 DEF ImportAgain, This
  <2>2. <<Members[This]>> \in Seq(Seq(Callable))
    BY <1>a, <1>b, <2>1
  <2>3. /\ frames' = <<Members[This]>> \/ frames' = frames
        /\ alarm' = alarm \/ alarm' = FALSE
        /\ UNCHANGED <<phase, toImport, current, imported, calls>>
        /\ spc' \in {"explore", "ended"} /\ toImport # <<>>
    BY <1>5 DEF ImportAgain
  <2>4. Len(toImport) > 0
    BY <2>3
  <2>5. QED
    BY <2>2, <2>3, <2>4
<1>6. CASE Call
  <2>1. Len(frames) > 0 /\ Head(frames) \in Seq(Callable) /\ Len(Head(frames)) > 0
    BY <1>6 DEF Call
  <2>2. Head(Head(frames)) \in Callable /\ Rest \in Seq(Seq(Callable))
    BY <2>1 DEF Rest
  <2>3. calls' = [calls EXCEPT ![current'] = @ + 1] /\ current' \in Callable
    BY <1>6, <2>2 DEF Call
  <2>4. calls' \in [Callable -> Nat]
    BY <2>3
  <2>5. /\ UNCHANGED <<phase, toImport, imported>> /\ frames' = Rest /\ spc = "explore"
        /\ \/ spc' = "call" /\ alarm' = TRUE
           \/ spc' = "stopped" /\ alarm' = alarm
    BY <1>6 DEF Call
  <2>6. QED
    BY <2>2, <2>3, <2>4, <2>5
<1>7. CASE Pop
  BY <1>7 DEF Pop
<1>8. CASE Return
  <2>1. current \in Callable /\ UNCHANGED <<phase, toImport, current, imported, calls>>
        /\ spc \in {"call", "caught"} /\ spc' = "unguarded" /\ alarm' = FALSE
    BY <1>8 DEF Return, CallReturns
  <2>2. frames' \in Seq(Seq(Callable))
    <3>1. CASE current \in Class
      BY <1>8, <1>a, <1>b, <3>1 DEF Return, CallReturns
    <3>2. CASE current \notin Class
      <4>1. PICK t \in Returns[current] :
              IF t # Nothing /\ Home[t] = This /\ t \notin seen
              THEN seen' = seen \cup {t} /\ frames' = <<Methods[t]>> \o frames
              ELSE UNCHANGED <<seen, frames>>
        BY <1>8, <3>2 DEF Return, CallReturns, Investigate
      <4>2. t \in Class \cup {Nothing}
        BY <2>1, <3>2, ScriptConstants DEF Callable
      <4>3. QED
        BY <1>a, <1>b, <4>1, <4>2
    <3>3. QED
      BY <3>1, <3>2
  <2>3. QED
    BY <2>1, <2>2
<1>9. CASE Raise
  BY <1>9 DEF Raise, explored
<1>10. CASE Catch
  <2>1. /\ UNCHANGED <<phase, toImport, current, alarm, imported, calls>>
        /\ spc \in {"stopped", "raised"} /\ spc' \in {"leave", "explore"} /\ frames' \in {<<>>, frames}
    BY <1>10 DEF Catch, LeaveModule
  <2>2. frames' \in Seq(Seq(Callable))
    BY <1>c, <2>1
  <2>3. QED
    BY <2>1, <2>2
<1>11. CASE Visited
  BY <1>11 DEF Visited, explored
<1>12. CASE Leave
  <2>1. Tail(toImport) \in Seq(Module)
    BY <1>12 DEF Leave
  <2>2. QED
    BY <1>12, <2>1 DEF Leave, explored
<1>13. CASE AlarmGoesOff
  <2>1. /\ UNCHANGED <<phase, toImport, current, imported, calls>> /\ alarm' = FALSE
        /\ frames' \in {<<>>, frames}
    BY <1>13 DEF AlarmGoesOff, LeaveModule
  <2>2. \/ spc = "call" /\ spc' \in {"stopped", "caught"}
        \/ spc \in Exploring /\ spc' \in {"leave", spc}
        \/ spc' = "ended"
    BY <1>13 DEF AlarmGoesOff, LeaveModule
  <2>3. frames' \in Seq(Seq(Callable))
    BY <1>c, <2>1
  <2>4. QED
    BY <2>1, <2>2, <2>3
<1>14. CASE Show
  BY <1>14 DEF Show, explored
<1>15. CASE RaiseOutside
  BY <1>15, <1>c DEF RaiseOutside, LeaveModule
<1>16. CASE WrongClass
  BY <1>16, <1>c DEF WrongClass, LeaveModule
<1>17. CASE PackageExits
  BY <1>17 DEF PackageExits, explored
<1>18. CASE UNCHANGED scriptVars
  BY <1>18 DEF scriptVars, explored
<1>19. QED
  BY <1>1, <1>2, <1>3, <1>4, <1>5, <1>6, <1>7, <1>8, <1>9, <1>10, <1>11, <1>12, <1>13, <1>14,
     <1>15, <1>16, <1>17, <1>18
  DEF ScriptNext, Script, PackageCode

LEMMA ThisModule ==
  ASSUME ScriptTypeOK, OnItsWay, Len(toImport) > 0
  PROVE  /\ Where \in DOMAIN Modules /\ This = Modules[Where] /\ This \in Module
         /\ Members[This] \in Seq(Function \cup Class) /\ Len(Members[This]) \in Nat
         /\ Done \in 0 .. Len(Members[This])
<1>1. Len(toImport) \in Nat /\ This = toImport[1] /\ 1 \in 1 .. Len(toImport)
  BY DEF ScriptTypeOK, This
<1>2. This = Modules[Where] /\ Where \in 1 .. Len(Modules)
  BY <1>1, ModulesAre DEF OnItsWay, Where
<1>3. Where \in DOMAIN Modules
  BY <1>2, ModulesAre
<1>4. Len(Members[This]) \in Nat /\ Members[This] \in Seq(Function \cup Class) /\ This \in Module
  BY <1>2, <1>3, ModulesAre
<1>5. CASE spc \in Exploring /\ Len(frames) > 0
  <2>1. Len(Bottom) \in Nat /\ Len(Bottom) <= Len(Members[This])
    BY <1>5 DEF OnItsWay
  <2>2. Done = Len(Members[This]) - Len(Bottom)
    BY <1>5 DEF Done
  <2>3. QED
    BY <1>2, <1>3, <1>4, <2>1, <2>2
<1>6. CASE ~(spc \in Exploring /\ Len(frames) > 0)
  BY <1>2, <1>3, <1>4, <1>6 DEF Done
<1>7. QED
  BY <1>5, <1>6

\* A step that visits nothing
LEMMA NothingVisited ==
  ASSUME Counted, UNCHANGED <<toImport, calls>>, Done' = Done
  PROVE  Counted'
<1>1. Where' = Where
  BY DEF Where
<1>2. \A c : Visits(c, Where, Done)' = Visits(c, Where, Done)
  BY <1>1 DEF Visits, Names, PlacesIn
<1>3. QED
  BY <1>2 DEF Counted

\* What happens on top of the stack leaves the names of the module alone
LEMMA BottomStays ==
  ASSUME ScriptTypeOK, ScriptTypeOK', OnItsWay, spc \in Exploring, spc' \in Exploring, toImport' = toImport,
         Len(frames) > 0, Len(frames') > 0, Bottom' = Bottom,
         \A i \in 1 .. Len(frames') - 1 : frames'[i] \in Seq(Method)
  PROVE  OnItsWay' /\ Done' = Done
<1>1. Where' = Where /\ This' = This
  BY DEF Where, This
<1>2. Done' = Done
  BY <1>1 DEF Done
<1>3. QED
  BY <1>1, <1>2 DEF OnItsWay

\* Methods of an instance or of a value are pushed
LEMMA MethodsOnTop ==
  ASSUME ScriptTypeOK, OnItsWay, spc \in Exploring, Len(frames) > 0,
         frames' = frames \/ \E ms \in Seq(Method) : frames' = <<ms>> \o frames
  PROVE  /\ Len(frames') > 0 /\ Bottom' = Bottom
         /\ \A i \in 1 .. Len(frames') - 1 : frames'[i] \in Seq(Method)
<1>1. /\ Len(frames) \in Nat /\ frames \in Seq(Seq(Callable))
      /\ \A i \in 1 .. Len(frames) - 1 : frames[i] \in Seq(Method)
  BY DEF ScriptTypeOK, OnItsWay
<1>2. CASE frames' = frames
  BY <1>1, <1>2 DEF Bottom
<1>3. ASSUME NEW ms \in Seq(Method), frames' = <<ms>> \o frames
      PROVE  /\ Len(frames') > 0 /\ Bottom' = Bottom
             /\ \A i \in 1 .. Len(frames') - 1 : frames'[i] \in Seq(Method)
  <2>1. /\ Len(frames') = Len(frames) + 1 /\ frames'[1] = ms
        /\ \A i \in 2 .. Len(frames) + 1 : frames'[i] = frames[i - 1]
    BY <1>1, <1>3
  <2>2. Bottom' = frames'[Len(frames) + 1] /\ Len(frames) + 1 - 1 = Len(frames)
    BY <1>1, <2>1 DEF Bottom
  <2>3. Len(frames) + 1 \in 2 .. Len(frames) + 1
    BY <1>1
  <2>4. Bottom' = Bottom
    BY <2>1, <2>2, <2>3 DEF Bottom
  <2>5. ASSUME NEW i \in 1 .. Len(frames') - 1
        PROVE  frames'[i] \in Seq(Method)
    <3>1. i = 1 \/ (i \in 2 .. Len(frames) + 1 /\ i - 1 \in 1 .. Len(frames) - 1)
      BY <1>1, <2>1
    <3>2. QED
      BY <1>1, <1>3, <2>1, <3>1
  <2>6. QED
    BY <1>1, <2>1, <2>4, <2>5
<1>4. QED
  BY <1>2, <1>3


LEMMA ScriptInvNext == ScriptInv /\ [ScriptNext]_scriptVars => ScriptInv'
<1> SUFFICES ASSUME ScriptInv, [ScriptNext]_scriptVars
             PROVE  ScriptInv'
  OBVIOUS
<1>a. ScriptTypeOK /\ ScriptTypeOK' /\ Quiet
  BY TypeOfScript DEF ScriptInv
<1>b. phase = "execute" /\ ~failed => OnItsWay /\ Counted /\ Costless
  BY DEF ScriptInv
<1>c. Len(toImport) \in Nat /\ Len(frames) \in Nat /\ Len(Modules) \in Nat
  BY <1>a, ModulesAre DEF ScriptTypeOK
<1>1. CASE Install
  <2>1. spc = "install" /\ spc' = "ended" /\ phase' = phase /\ UNCHANGED <<alarm, cut, calls, failed>>
    BY <1>1 DEF Install, In, Ends, To
  <2>2. QED
    BY <1>a, <1>b, <2>1 DEF ScriptInv, Quiet, Costless, Exploring, Untimed
<1>2. CASE BeginPhase
  <2>1. /\ phase # "execute" /\ phase' \in {"import", "execute"} /\ spc' = "import"
        /\ toImport' = Modules /\ exit' = Nothing /\ UNCHANGED <<alarm, cut, calls>>
    BY <1>2 DEF BeginPhase, To
  <2>2. ~alarm /\ cut = {} /\ \A c \in Callable : calls[c] = 0
    BY <1>a, <2>1 DEF Quiet
  <2>3. Quiet'
    BY <2>1, <2>2 DEF Quiet
  <2>4. OnItsWay'
    BY <1>c, <2>1 DEF OnItsWay, Where, Exploring, Untimed
  <2>5. Counted'
    <3>1. Where' = 1 /\ Done' = 0
      BY <1>c, <2>1 DEF Where, Done, Exploring, Untimed
    <3>2. \A c : Visits(c, Where, Done)' = {}
      BY <3>1, VisitAll DEF Visits, Names, PlacesIn
    <3>3. \A c \in Function \cup Class : calls'[c] = 0
      BY <2>1, <2>2 DEF Callable
    <3>4. QED
      BY <3>2, <3>3, FS_EmptySet DEF Counted
  <2>6. Costless'
    BY <2>1, <2>2 DEF Costless
  <2>7. QED
    BY <1>a, <2>3, <2>4, <2>5, <2>6 DEF ScriptInv
<1>3. CASE ImportModule
  <2>1. phase = "import" /\ UNCHANGED <<phase, spc, alarm, cut, calls>>
    BY <1>3 DEF ImportModule, explored
  <2>2. QED
    BY <1>a, <2>1 DEF ScriptInv, Quiet
<1>4. CASE EndImports
  <2>1. /\ spc = "import" /\ toImport = <<>> /\ spc' = "ended" /\ exit' = 0 /\ alarm' = FALSE
        /\ UNCHANGED <<phase, toImport, frames, imported, calls, cut, failed>>
    BY <1>4 DEF EndImports, In, Ends, To, explored
  <2>2. Quiet'
    BY <1>a, <2>1 DEF Quiet
  <2>3. ASSUME phase' = "execute", ~failed'
        PROVE  OnItsWay' /\ Counted' /\ Costless'
    <3>1. OnItsWay /\ Counted /\ Costless
      BY <1>b, <2>1, <2>3
    <3>2. Done' = Done
      BY <2>1 DEF Done, Exploring, Untimed
    <3>3. OnItsWay'
      BY <2>1, <3>1 DEF OnItsWay, Where, Exploring, Untimed
    <3>4. Costless'
      BY <2>1, <3>1 DEF Costless
    <3>5. QED
      BY <2>1, <3>1, <3>2, <3>3, <3>4, NothingVisited
  <2>4. QED
    BY <1>a, <2>2, <2>3 DEF ScriptInv
<1>5. CASE ImportAgain
  <2>1. /\ spc = "import" /\ phase = "execute" /\ toImport # <<>>
        /\ UNCHANGED <<phase, toImport, imported, calls, cut, failed>>
        /\ \/ spc' = "explore" /\ frames' = <<Members[This]>> /\ UNCHANGED <<exit, alarm>>
           \/ This \notin imported /\ spc' = "ended" /\ alarm' = FALSE
    BY <1>5 DEF ImportAgain, In, To, Ends
  <2>2. ASSUME ~failed'
        PROVE  OnItsWay' /\ Counted' /\ Costless'
    <3>1. OnItsWay /\ Counted /\ Costless
      BY <1>b, <2>1, <2>2
    <3>2. Len(toImport) > 0
      BY <1>a, <2>1 DEF ScriptTypeOK
    <3>3. /\ This \in Module /\ Members[This] \in Seq(Function \cup Class)
          /\ Len(Members[This]) \in Nat
      BY <1>a, <3>1, <3>2, ThisModule
    <3>4. This' = This /\ Where' = Where /\ Done = 0
      BY <2>1 DEF This, Where, Done, Exploring, Untimed
    <3>5. CASE spc' = "explore" /\ frames' = <<Members[This]>> /\ UNCHANGED <<exit, alarm>>
      <4>1. Len(frames') = 1 /\ Bottom' = Members[This]
        BY <3>5 DEF Bottom
      <4>2. Done' = 0
        BY <3>3, <3>4, <3>5, <4>1 DEF Done, Exploring, Untimed
      <4>3. OnItsWay'
        BY <2>1, <3>1, <3>3, <3>4, <3>5, <4>1, <4>2 DEF OnItsWay, Exploring, Untimed
      <4>4. Costless'
        BY <2>1, <3>1, <3>5 DEF Costless, Exploring, Untimed
      <4>5. QED
        BY <2>1, <3>1, <3>4, <4>2, <4>3, <4>4, NothingVisited
    <3>6. CASE This \notin imported /\ spc' = "ended" /\ alarm' = FALSE
      <4>1. Done' = 0
        BY <3>6 DEF Done, Exploring, Untimed
      <4>2. OnItsWay'
        BY <2>1, <3>1, <3>4, <3>6 DEF OnItsWay, Exploring, Untimed
      <4>3. Costless'
        BY <2>1, <3>1, <3>3, <3>6 DEF Costless
      <4>4. QED
        BY <2>1, <3>1, <3>4, <4>1, <4>2, <4>3, NothingVisited
    <3>7. QED
      BY <2>1, <3>5, <3>6
  <2>3. QED
    BY <1>a, <2>1, <2>2 DEF ScriptInv, Quiet
<1>6. CASE Call
  <2>1. /\ spc = "explore" /\ frames # <<>> /\ Head(frames) # <<>>
        /\ current' = Head(Head(frames)) /\ frames' = Rest
        /\ calls' = [calls EXCEPT ![current'] = @ + 1]
        /\ UNCHANGED <<phase, toImport, imported, cut, exit>>
        /\ failed' \/ (spc' = "call" /\ failed' = failed)
    BY <1>6 DEF Call, In, To
  <2>2. ASSUME phase' = "execute", ~failed'
        PROVE  OnItsWay' /\ Counted' /\ Costless'
    <3>1. OnItsWay /\ Counted /\ Costless /\ spc' = "call"
      BY <1>b, <2>1, <2>2
    <3>2. Len(frames) > 0 /\ Len(toImport) > 0 /\ frames[1] \in Seq(Callable) /\ Len(frames[1]) > 0
      BY <1>a, <2>1 DEF ScriptTypeOK, Exploring, Untimed
    <3>3. /\ Where \in DOMAIN Modules /\ This = Modules[Where] /\ This \in Module
          /\ Members[This] \in Seq(Function \cup Class) /\ Len(Members[This]) \in Nat
          /\ Done \in 0 .. Len(Members[This])
      BY <1>a, <3>1, <3>2, ThisModule
    <3>4. /\ Len(frames') = Len(frames) /\ frames'[1] = Tail(frames[1])
          /\ \A i \in 2 .. Len(frames) : frames'[i] = frames[i]
          /\ current' = frames[1][1]
      BY <1>a, <2>1, <3>2 DEF Rest, ScriptTypeOK
    <3>5. This' = This /\ Where' = Where
      BY <2>1 DEF This, Where
    <3>6. Costless'
      BY <2>1, <3>1 DEF Costless, Exploring, Untimed
    <3>7. calls \in [Callable -> Nat]
      BY <1>a DEF ScriptTypeOK
    <3>8. CASE Len(frames) > 1
      <4>1. frames[1] \in Seq(Method)
        BY <1>c, <2>1, <3>1, <3>2, <3>8 DEF OnItsWay, Exploring, Untimed
      <4>2. Bottom' = Bottom /\ \A i \in 1 .. Len(frames') - 1 : frames'[i] \in Seq(Method)
        <5>1. \A i \in 1 .. Len(frames) - 1 : frames[i] \in Seq(Method)
          BY <2>1, <3>1, <3>2 DEF OnItsWay, Exploring, Untimed
        <5>2. Tail(frames[1]) \in Seq(Method)
          BY <3>2, <4>1
        <5>3. \A i \in 1 .. Len(frames') - 1 : i = 1 \/ i \in 2 .. Len(frames)
          BY <1>c, <3>4
        <5>4. Bottom' = Bottom
          BY <1>c, <3>4, <3>8 DEF Bottom
        <5>5. QED
          BY <3>4, <5>1, <5>2, <5>3, <5>4
      <4>3. OnItsWay' /\ Done' = Done
        BY <1>a, <2>1, <3>1, <3>2, <3>4, <4>2, BottomStays DEF Exploring, Untimed
      <4>4. \A c \in Function \cup Class : calls'[c] = calls[c]
        <5>1. current' \in Method
          BY <3>2, <3>4, <4>1
        <5>2. current' \notin Function \cup Class
          BY <5>1, ScriptConstants
        <5>3. QED
          BY <2>1, <3>7, <5>2 DEF Callable
      <4>5. \A c : Visits(c, Where, Done)' = Visits(c, Where, Done)
        BY <3>5, <4>3 DEF Visits, Names, PlacesIn
      <4>6. Counted'
        BY <3>1, <4>4, <4>5 DEF Counted
      <4>7. QED
        BY <3>6, <4>3, <4>6
    <3>9. CASE Len(frames) = 1
      <4> DEFINE b == frames[1]
                 ms == Members[This]
      <4>1. Bottom = b /\ Bottom' = Tail(b)
        BY <3>4, <3>9 DEF Bottom
      <4>2. /\ b \in Seq(Function \cup Class) /\ Len(b) <= Len(ms) /\ Len(b) \in Nat
            /\ \A j \in 1 .. Len(b) : b[j] = ms[Done + j]
            /\ Done = Len(ms) - Len(b)
        <5>1. spc \in Exploring /\ Len(frames) > 0
          BY <2>1, <3>2 DEF Exploring, Untimed
        <5>2. Done = Len(ms) - Len(Bottom)
          BY <5>1 DEF Done
        <5>3. Bottom \in Seq(Function \cup Class) /\ Len(Bottom) <= Len(ms)
          BY <3>1, <5>1 DEF OnItsWay
        <5>4. \A j \in 1 .. Len(Bottom) : Bottom[j] = ms[Done + j]
          BY <3>1, <5>1 DEF OnItsWay
        <5>5. Len(Bottom) \in Nat
          BY <5>3
        <5>6. QED
          BY <4>1, <5>2, <5>3, <5>4, <5>5, Zenon
      <4>3. /\ Tail(b) \in Seq(Function \cup Class) /\ Len(Tail(b)) = Len(b) - 1
            /\ \A j \in 1 .. Len(Tail(b)) : Tail(b)[j] = b[j + 1]
        BY <3>2, <4>2
      <4>4. Done' = Done + 1
        <5>1. Done' = Len(ms) - Len(Tail(b))
          <6>1. spc' \in Exploring /\ Len(frames') > 0
            BY <3>1, <3>4, <3>9 DEF Exploring, Untimed
          <6>2. Done' = Len(Members[This]) - Len(Bottom')
            BY <3>5, <6>1 DEF Done
          <6>3. QED
            BY <4>1, <6>2
        <5>2. Len(ms) \in Nat /\ Len(b) \in Nat /\ Len(Tail(b)) = Len(b) - 1 /\ Done = Len(ms) - Len(b)
          BY <3>3, <4>2, <4>3
        <5> HIDE DEF b, ms
        <5>3. \A l, n \in Nat : \A t : t = n - 1 => l - t = (l - n) + 1
          OBVIOUS
        <5>4. QED
          BY <5>1, <5>2, <5>3, Zenon
      <4>5. current' = ms[Done + 1] /\ Done + 1 \in 1 .. Len(ms)
        <5>1. Len(ms) \in Nat /\ Len(b) \in Nat /\ Len(b) > 0 /\ current' = b[1]
          BY <3>2, <3>3, <3>4, <4>2
        <5> HIDE DEF b, ms
        <5>2. 1 \in 1 .. Len(b) /\ Done + 1 \in 1 .. Len(ms)
          BY <4>2, <5>1
        <5>3. QED
          BY <4>2, <5>1, <5>2
      <4> HIDE DEF b, ms
      <4>6. OnItsWay'
        <5>1. \A j \in 1 .. Len(Tail(b)) : Tail(b)[j] = ms[Done' + j]
          <6> TAKE j \in 1 .. Len(Tail(b))
          <6>1. Tail(b)[j] = b[j + 1] /\ j + 1 \in 1 .. Len(b)
            BY <4>2, <4>3
          <6>2. Done + (j + 1) = Done' + j
            BY <3>3, <4>2, <4>3, <4>4
          <6>3. QED
            BY <4>2, <6>1, <6>2
        <5>2. Len(Tail(b)) <= Len(ms)
          BY <3>3, <4>2, <4>3 DEF ms
        <5>3. \A j \in 1 .. Len(toImport') : toImport'[j] = Modules[Where' - 1 + j]
          BY <2>1, <3>1, <3>5 DEF OnItsWay
        <5>4. Len(toImport') <= Len(Modules)
          BY <2>1, <3>1 DEF OnItsWay
        <5>5. Len(frames') = 1
          BY <3>4, <3>9
        <5>6. QED
          BY <3>1, <3>5, <4>1, <4>3, <5>1, <5>2, <5>3, <5>4, <5>5 DEF OnItsWay, Exploring, Untimed, ms
      <4>7. Counted'
        <5>1. ASSUME NEW c \in Function \cup Class
              PROVE  /\ IsFiniteSet(Visits(c, Where, Done + 1))
                     /\ calls'[c] = Cardinality(Visits(c, Where, Done + 1))
          <6>1. IsFiniteSet(Visits(c, Where, Done)) /\ calls[c] = Cardinality(Visits(c, Where, Done))
            BY <3>1 DEF Counted
          <6>2. Done \in Nat /\ Done + 1 \in DOMAIN Members[Modules[Where]]
            BY <3>3, <4>5 DEF ms
          <6>3. calls'[c] = IF c = current' THEN calls[c] + 1 ELSE calls[c]
            BY <2>1, <3>7 DEF Callable
          <6>4. current' = Members[Modules[Where]][Done + 1]
            BY <3>3, <4>5 DEF ms
          <6>5. QED
            BY <3>3, <6>1, <6>2, <6>3, <6>4, VisitOne
        <5>2. \A c : Visits(c, Where, Done)' = Visits(c, Where, Done + 1)
          BY <3>5, <4>4 DEF Visits, Names, PlacesIn
        <5>3. QED
          BY <5>1, <5>2 DEF Counted
      <4>8. QED
        BY <3>6, <4>6, <4>7
    <3>10. Len(frames) > 1 \/ Len(frames) = 1
      <4>1. Len(frames) > 0
        BY <3>2
      <4>2. \A n \in Nat : n > 0 => n > 1 \/ n = 1
        OBVIOUS
      <4>3. Len(frames) \in Nat
        BY <1>c
      <4>4. QED
        BY <4>1, <4>2, <4>3, Zenon
    <3>11. QED
      BY <3>8, <3>9, <3>10
  <2>3. Quiet'
    BY <1>a, <2>1 DEF Quiet
  <2>4. QED
    BY <1>a, <2>2, <2>3 DEF ScriptInv
<1>7. CASE Pop
  <2>1. /\ spc = "explore" /\ spc' = spc /\ Len(frames) > 0 /\ Len(frames[1]) = 0 /\ frames' = Tail(frames)
        /\ UNCHANGED <<phase, toImport, alarm, current, imported, calls, cut, exit, failed>>
    BY <1>7, <1>a DEF Pop, In, ScriptTypeOK
  <2>2. ASSUME phase' = "execute", ~failed'
        PROVE  OnItsWay' /\ Counted' /\ Costless'
    <3>1. OnItsWay /\ Counted /\ Costless
      BY <1>b, <2>1, <2>2
    <3>2. /\ Len(frames') = Len(frames) - 1
          /\ \A i \in 1 .. Len(frames) - 1 : frames'[i] = frames[i + 1]
      BY <1>a, <2>1 DEF ScriptTypeOK
    <3>3. Costless'
      BY <2>1, <3>1 DEF Costless
    <3>4. CASE Len(frames) = 1
      <4>1. Len(toImport) > 0 /\ Len(frames') = 0 /\ This' = This /\ Where' = Where
        BY <1>a, <2>1, <3>2, <3>4 DEF ScriptTypeOK, Exploring, Untimed, This, Where
      <4>2. Len(Members[This]) \in Nat
        BY <1>a, <3>1, <4>1, ThisModule
      <4>3. Done = Len(Members[This])
        BY <2>1, <3>4, <4>2 DEF Done, Exploring, Untimed, Bottom
      <4>4. Done' = Done
        <5>1. spc' \in Exploring /\ ~(Len(frames') > 0)
          BY <2>1, <4>1 DEF Exploring, Untimed
        <5>2. Done' = Len(Members[This'])
          BY <5>1 DEF Done
        <5>3. QED
          BY <4>1, <4>3, <5>2
      <4>5. OnItsWay'
        <5>1. ~(Len(frames') > 0) /\ spc' \notin {"call", "caught", "unguarded", "stopped"}
          BY <2>1, <4>1
        <5>2. QED
          BY <2>1, <3>1, <4>1, <5>1 DEF OnItsWay
      <4>6. QED
        BY <2>1, <3>1, <3>3, <4>4, <4>5, NothingVisited
    <3>5. CASE Len(frames) > 1
      <4>1. \A i \in 1 .. Len(frames) - 1 : frames[i] \in Seq(Method)
        BY <2>1, <3>1 DEF OnItsWay, Exploring, Untimed
      <4>2. ASSUME NEW i \in 1 .. Len(frames') - 1
            PROVE  frames'[i] \in Seq(Method)
        <5>1. i \in 1 .. Len(frames) - 1 /\ i + 1 \in 1 .. Len(frames) - 1
          BY <1>c, <3>2
        <5>2. QED
          BY <3>2, <4>1, <5>1
      <4>3. Bottom' = Bottom /\ Len(frames') > 0
        <5>1. Len(frames) - 1 \in 1 .. Len(frames) - 1 /\ (Len(frames) - 1) + 1 = Len(frames)
          BY <1>c, <3>5
        <5>2. QED
          BY <1>c, <3>2, <3>5, <5>1 DEF Bottom
      <4>4. spc \in Exploring /\ spc' \in Exploring
        BY <2>1 DEF Exploring, Untimed
      <4>5. OnItsWay' /\ Done' = Done
        BY <1>a, <2>1, <3>1, <4>2, <4>3, <4>4, BottomStays
      <4>6. QED
        BY <2>1, <3>1, <3>3, <4>5, NothingVisited
    <3>6. QED
      BY <1>c, <2>1, <3>4, <3>5
  <2>3. Quiet'
    BY <1>a, <2>1 DEF Quiet
  <2>4. QED
    BY <1>a, <2>2, <2>3 DEF ScriptInv
<1>8. CASE Return
  <2>1. /\ spc \in {"call", "caught"} /\ spc' = "unguarded" /\ alarm' = FALSE /\ current \in Callable
        /\ UNCHANGED <<phase, toImport, current, imported, calls, cut, exit, failed>>
    BY <1>8, <1>a DEF Return, CallReturns, In, To, ScriptTypeOK
  <2>2. frames' = frames \/ \E ms \in Seq(Method) : frames' = <<ms>> \o frames
    <3>1. CASE current \in Class
      <4>1. Methods[current] \in Seq(Method)
        BY <3>1, ScriptConstants
      <4>2. frames' = (IF current \in instantiated THEN frames ELSE <<Methods[current]>> \o frames)
        BY <1>8, <3>1 DEF Return, CallReturns
      <4>3. QED
        BY <4>1, <4>2
    <3>2. CASE current \notin Class
      <4>1. PICK t \in Returns[current] :
              IF t # Nothing /\ Home[t] = This /\ t \notin seen
              THEN seen' = seen \cup {t} /\ frames' = <<Methods[t]>> \o frames
              ELSE UNCHANGED <<seen, frames>>
        BY <1>8, <3>2 DEF Return, CallReturns, Investigate
      <4>2. t # Nothing => Methods[t] \in Seq(Method)
        BY <2>1, <3>2, ScriptConstants DEF Callable
      <4>3. QED
        BY <4>1, <4>2
    <3>3. QED
      BY <3>1, <3>2
  <2>3. ASSUME phase' = "execute", ~failed'
        PROVE  OnItsWay' /\ Counted' /\ Costless'
    <3>1. OnItsWay /\ Counted /\ Costless
      BY <1>b, <2>1, <2>3
    <3>2. Len(frames) > 0 /\ spc \in Exploring /\ spc' \in Exploring
      BY <2>1, <3>1 DEF OnItsWay, Exploring, Untimed
    <3>3. /\ Len(frames') > 0 /\ Bottom' = Bottom
          /\ \A i \in 1 .. Len(frames') - 1 : frames'[i] \in Seq(Method)
      BY <1>a, <2>2, <3>1, <3>2, MethodsOnTop
    <3>4. OnItsWay' /\ Done' = Done
      BY <1>a, <2>1, <3>1, <3>2, <3>3, BottomStays
    <3>5. Costless'
      BY <2>1, <3>1 DEF Costless, Exploring, Untimed
    <3>6. QED
      BY <2>1, <3>1, <3>4, <3>5, NothingVisited
  <2>4. Quiet'
    BY <1>a, <2>1 DEF Quiet
  <2>5. QED
    BY <1>a, <2>3, <2>4 DEF ScriptInv
<1>9. CASE Raise
  <2>1. spc \in {"call", "caught"} /\ phase' = phase /\ failed'
    BY <1>9 DEF Raise
  <2>2. QED
    BY <1>a, <2>1 DEF ScriptInv, Quiet
<1>10. CASE Catch
  <2>1. /\ spc \in {"stopped", "raised"}
        /\ UNCHANGED <<phase, toImport, current, alarm, imported, calls, exit, failed>>
        /\ current \notin Class => spc' = "explore" /\ UNCHANGED <<frames, cut>>
    BY <1>10 DEF Catch, In, To
  <2>2. ASSUME phase' = "execute", ~failed'
        PROVE  OnItsWay' /\ Counted' /\ Costless'
    <3>1. OnItsWay /\ Counted /\ Costless
      BY <1>b, <2>1, <2>2
    <3>2. spc = "stopped" /\ spc' = "explore" /\ UNCHANGED <<frames, cut>>
      BY <2>1, <3>1 DEF Costless
    <3>3. Len(frames) > 0 /\ spc \in Exploring /\ spc' \in Exploring
      BY <2>1, <3>1, <3>2 DEF OnItsWay, Exploring, Untimed
    <3>4. /\ Len(frames') > 0 /\ Bottom' = Bottom
          /\ \A i \in 1 .. Len(frames') - 1 : frames'[i] \in Seq(Method)
      BY <1>a, <3>1, <3>2, <3>3, MethodsOnTop
    <3>5. OnItsWay' /\ Done' = Done
      BY <1>a, <2>1, <3>1, <3>3, <3>4, BottomStays
    <3>6. Costless'
      BY <2>1, <3>1, <3>2, <3>3 DEF Costless
    <3>7. QED
      BY <2>1, <3>1, <3>5, <3>6, NothingVisited
  <2>3. Quiet'
    BY <1>a, <2>1 DEF Quiet
  <2>4. QED
    BY <1>a, <2>2, <2>3 DEF ScriptInv
<1>11. CASE Visited
  <2>1. /\ spc = "explore" /\ spc' = "leave" /\ frames = <<>>
        /\ UNCHANGED <<phase, toImport, frames, current, alarm, imported, calls, cut, exit, failed>>
    BY <1>11 DEF Visited, In, To, explored
  <2>2. ASSUME phase' = "execute", ~failed'
        PROVE  OnItsWay' /\ Counted' /\ Costless'
    <3>1. OnItsWay /\ Counted /\ Costless
      BY <1>b, <2>1, <2>2
    <3>2. Len(frames) = 0 /\ Len(frames') = 0
      BY <2>1
    <3>3. Done' = Done
      BY <2>1, <3>2 DEF Done, Exploring, Untimed, This
    <3>4. OnItsWay'
      BY <2>1, <3>1, <3>2 DEF OnItsWay, Exploring, Untimed, Where
    <3>5. Costless'
      BY <2>1, <3>1 DEF Costless
    <3>6. QED
      BY <2>1, <3>1, <3>3, <3>4, <3>5, NothingVisited
  <2>3. Quiet'
    BY <1>a, <2>1 DEF Quiet
  <2>4. QED
    BY <1>a, <2>2, <2>3 DEF ScriptInv
<1>12. CASE Leave
  <2>1. /\ spc = "leave" /\ spc' = "import" /\ toImport' = Tail(toImport)
        /\ UNCHANGED <<phase, frames, current, alarm, imported, calls, cut, exit, failed>>
    BY <1>12 DEF Leave, In, To, explored
  <2>2. ASSUME phase' = "execute", ~failed'
        PROVE  OnItsWay' /\ Counted' /\ Costless'
    <3>1. OnItsWay /\ Counted /\ Costless
      BY <1>b, <2>1, <2>2
    <3>2. Len(toImport) > 0
      BY <1>a, <2>1 DEF ScriptTypeOK
    <3>3. /\ Where \in DOMAIN Modules /\ This = Modules[Where]
          /\ Done = Len(Members[This])
      BY <1>a, <2>1, <3>1, <3>2, ThisModule DEF Done, Exploring, Untimed
    <3>4. /\ Len(toImport') = Len(toImport) - 1
          /\ \A j \in 1 .. Len(toImport) - 1 : toImport'[j] = toImport[j + 1]
      BY <1>a, <2>1, <3>2 DEF ScriptTypeOK
    <3>5. Where' = Where + 1 /\ Done' = 0 /\ Where \in Nat
      <4>1. Where \in Nat /\ Where' = Where + 1
        <5>1. \A l, n \in Nat : \A t : t = n - 1 => l - t + 1 = (l - n + 1) + 1
          OBVIOUS
        <5>2. Len(toImport') = Len(toImport) - 1
          BY <3>4
        <5>3. Len(Modules) - Len(toImport') + 1 = (Len(Modules) - Len(toImport) + 1) + 1
          BY <1>c, <5>1, <5>2, Zenon
        <5>4. Where \in Nat
          BY <3>3, ModulesAre
        <5>5. QED
          BY <5>3, <5>4 DEF Where
      <4>2. Done' = 0
        BY <2>1 DEF Done, Exploring, Untimed
      <4>3. QED
        BY <4>1, <4>2
    <3>6. OnItsWay'
      <4>1. ASSUME NEW j \in 1 .. Len(toImport')
            PROVE  toImport'[j] = Modules[Where' - 1 + j]
        <5>1. toImport'[j] = toImport[j + 1] /\ j + 1 \in 1 .. Len(toImport)
          BY <1>c, <3>4
        <5>2. toImport[j + 1] = Modules[Where - 1 + (j + 1)]
          BY <3>1, <5>1 DEF OnItsWay
        <5>3. Where - 1 + (j + 1) = Where' - 1 + j
          BY <1>c, <3>4, <3>5
        <5>4. QED
          BY <5>1, <5>2, <5>3
      <4>2. Len(toImport') <= Len(Modules)
        BY <1>c, <3>1, <3>4 DEF OnItsWay
      <4>3. QED
        BY <2>1, <4>1, <4>2 DEF OnItsWay, Exploring, Untimed
    <3>7. Counted'
      <4>1. \A c : Visits(c, Where, Done)' = Visits(c, Where + 1, 0)
        BY <3>5 DEF Visits, Names, PlacesIn
      <4>2. \A c : Visits(c, Where, Done) = Visits(c, Where + 1, 0)
        BY <3>3, VisitNext
      <4>3. QED
        BY <2>1, <3>1, <4>1, <4>2 DEF Counted
    <3>8. Costless'
      BY <2>1, <3>1 DEF Costless
    <3>9. QED
      BY <3>6, <3>7, <3>8
  <2>3. Quiet'
    BY <1>a, <2>1 DEF Quiet
  <2>4. QED
    BY <1>a, <2>2, <2>3 DEF ScriptInv
<1>13. CASE AlarmGoesOff
  <2>1. /\ alarm /\ alarm' = FALSE
        /\ UNCHANGED <<phase, toImport, current, imported, calls>>
        /\ failed => failed'
        /\ spc = "call" =>
             /\ UNCHANGED <<frames, cut, exit>>
             /\ spc' = "caught" \/ (spc' = "stopped" /\ (current \in Class => failed'))
    <3>1. /\ alarm /\ alarm' = FALSE
          /\ UNCHANGED <<phase, toImport, current, imported, calls>>
      BY <1>13 DEF AlarmGoesOff
    <3>2. failed => failed'
      BY <1>13 DEF AlarmGoesOff
    <3>3. ASSUME spc = "call"
          PROVE  /\ UNCHANGED <<frames, cut, exit>>
                 /\ spc' = "caught" \/ (spc' = "stopped" /\ (current \in Class => failed'))
      BY <1>13, <3>3 DEF AlarmGoesOff, In, To
    <3>4. QED
      BY <3>1, <3>2, <3>3
  <2>2. phase = "execute"
    BY <1>a, <2>1 DEF Quiet
  <2>3. ASSUME ~failed'
        PROVE  OnItsWay' /\ Counted' /\ Costless'
    <3>1. OnItsWay /\ Counted /\ Costless
      BY <1>b, <2>1, <2>2, <2>3
    <3>2. /\ spc = "call" /\ UNCHANGED <<frames, cut, exit>>
          /\ spc' = "caught" \/ (spc' = "stopped" /\ current \notin Class)
      BY <2>1, <2>3, <3>1 DEF Costless
    <3>3. Len(frames) > 0 /\ spc \in Exploring /\ spc' \in Exploring
      BY <3>1, <3>2 DEF OnItsWay, Exploring, Untimed
    <3>4. /\ Len(frames') > 0 /\ Bottom' = Bottom
          /\ \A i \in 1 .. Len(frames') - 1 : frames'[i] \in Seq(Method)
      BY <1>a, <3>1, <3>2, <3>3, MethodsOnTop
    <3>5. OnItsWay' /\ Done' = Done
      BY <1>a, <2>1, <3>1, <3>3, <3>4, BottomStays
    <3>6. Costless'
      BY <2>1, <3>1, <3>2, <3>3 DEF Costless
    <3>7. QED
      BY <2>1, <3>1, <3>5, <3>6, NothingVisited
  <2>4. QED
    BY <1>a, <2>1, <2>2, <2>3 DEF ScriptInv, Quiet
<1>14. CASE Show
  <2>1. /\ spc = "unguarded" /\ spc' = "explore"
        /\ UNCHANGED <<phase, toImport, frames, current, alarm, imported, calls, cut, exit, failed>>
    BY <1>14 DEF Show, In, To, explored
  <2>2. ASSUME phase' = "execute", ~failed'
        PROVE  OnItsWay' /\ Counted' /\ Costless'
    <3>1. OnItsWay /\ Counted /\ Costless
      BY <1>b, <2>1, <2>2
    <3>2. Len(frames) > 0 /\ spc \in Exploring /\ spc' \in Exploring
      BY <2>1, <3>1 DEF OnItsWay, Exploring, Untimed
    <3>3. /\ Len(frames') > 0 /\ Bottom' = Bottom
          /\ \A i \in 1 .. Len(frames') - 1 : frames'[i] \in Seq(Method)
      BY <1>a, <2>1, <3>1, <3>2, MethodsOnTop
    <3>4. OnItsWay' /\ Done' = Done
      BY <1>a, <2>1, <3>1, <3>2, <3>3, BottomStays
    <3>5. Costless'
      BY <2>1, <3>1, <3>2 DEF Costless
    <3>6. QED
      BY <2>1, <3>1, <3>4, <3>5, NothingVisited
  <2>3. Quiet'
    BY <1>a, <2>1 DEF Quiet
  <2>4. QED
    BY <1>a, <2>2, <2>3 DEF ScriptInv
<1>15. CASE RaiseOutside \/ WrongClass
  <2>1. spc \in {"call", "caught", "unguarded", "raised"} /\ phase' = phase /\ failed'
    BY <1>15 DEF RaiseOutside, WrongClass
  <2>2. QED
    BY <1>a, <2>1 DEF ScriptInv, Quiet
<1>16. CASE PackageExits
  <2>1. spc' = "ended" /\ ~alarm' /\ failed' /\ UNCHANGED <<phase, calls, cut>>
    BY <1>16 DEF PackageExits, Ends, To
  <2>2. QED
    BY <1>a, <2>1 DEF ScriptInv, Quiet
<1>17. CASE UNCHANGED scriptVars
  <2>1. UNCHANGED <<phase, spc, toImport, frames, current, alarm, imported, calls, cut, exit, failed>>
    BY <1>17 DEF scriptVars, explored
  <2>2. Done' = Done /\ (OnItsWay => OnItsWay') /\ (Costless => Costless') /\ (Quiet => Quiet')
    BY <2>1 DEF Done, OnItsWay, Costless, Quiet, Where, This, Bottom, Exploring, Untimed
  <2>3. Counted => Counted'
    BY <2>1, <2>2, NothingVisited
  <2>4. QED
    BY <1>a, <1>b, <2>1, <2>2, <2>3 DEF ScriptInv
<1>18. QED
  BY <1>1, <1>2, <1>3, <1>4, <1>5, <1>6, <1>7, <1>8, <1>9, <1>10, <1>11, <1>12, <1>13, <1>14,
     <1>15, <1>16, <1>17
  DEF ScriptNext, Script, PackageCode

\* Python packages: when no package code raised by itself or ended the process
\* and every constructor made an instance of its class, each name of each module
\* was called once, whatever the alarm cut short and whatever caught it, and the
\* execute phase succeeds (analyze-python.py, do_execute)
THEOREM HangingCallsCostNothing == ScriptSpec => []TimeoutsCostNothing
<1>1. ScriptInv => TimeoutsCostNothing
  <2> SUFFICES ASSUME ScriptInv, phase = "execute", spc = "ended", imported = Module, ~failed
               PROVE  exit = 0 /\ cut = {} /\ \A c \in Function \cup Class : calls[c] = Cardinality(Names(c))
    BY DEF TimeoutsCostNothing, In
  <2>1. OnItsWay /\ Counted /\ Costless
    BY DEF ScriptInv
  <2>2. exit = 0 /\ cut = {} /\ Len(toImport) = 0
    BY <2>1 DEF Costless
  <2>3. Where = Len(Modules) + 1 /\ Done = 0
    BY <2>2, ModulesAre DEF Where, Done, Exploring, Untimed
  <2>4. \A c : Visits(c, Where, Done) = Names(c)
    BY <2>3, VisitAll
  <2>5. QED
    BY <2>1, <2>2, <2>4 DEF Counted
<1>2. QED
  BY <1>1, ScriptInvInit, ScriptInvNext, PTL DEF ScriptSpec

------------------------------------------------------------------------------
(* Observations: ResultIsWhatHappened, with the names of every address, not *)
(* only of the sockets seen.                                                *)

Flags == [read : BOOLEAN, write : BOOLEAN, delete : BOOLEAN, buffers : Seq(Buffer)]

ObsTypeOK ==
  /\ lines \in Seq(Line) /\ sockets \subseteq Socket
  /\ DOMAIN accessed \subseteq Path
  /\ \A p \in DOMAIN accessed : accessed[p] \in Flags

FilesAreRight ==
  /\ \A p \in Path : p \in DOMAIN accessed <=> About(p) # {}
  /\ \A p \in DOMAIN accessed :
       /\ accessed[p].read <=> \E i \in Accessing(p) : lines[i].of.read
       /\ accessed[p].delete <=> \E i \in Accessing(p) : lines[i].of.delete
       /\ accessed[p].write <=> (Writing(p) # {} \/ \E i \in Accessing(p) : lines[i].of.write)
       /\ BuffersInOrder(p)

SocketsAreRight == sockets = Lines("socket") /\ commands = Lines("command")

NamesAreRight ==
  /\ DOMAIN ipHostnames = Address
  /\ \A addr \in Address : ipHostnames[addr] =
       {p.host : p \in {q \in packets : q.reply /\ q.type \in Lookups /\ addr \in q.answers}}
  /\ questions = {<<p.host, p.type>> : p \in {q \in packets : ~q.reply}}

ObsInv == ObsTypeOK /\ FilesAreRight /\ SocketsAreRight /\ NamesAreRight

\* Before the first line and the first packet
Empty ==
  /\ lines = <<>> /\ packets = {} /\ accessed = <<>> /\ sockets = {} /\ commands = {}
  /\ ipHostnames = [addr \in Address |-> {}] /\ questions = {}

LEMMA NothingHappened == Empty => ObsInv
<1> SUFFICES ASSUME Empty
             PROVE  ObsInv
  OBVIOUS
<1> USE DEF Empty
<1>1. DOMAIN lines = {} /\ DOMAIN accessed = {} /\ lines \in Seq(Line)
  OBVIOUS
<1>2. \A p : About(p) = {}
  BY <1>1 DEF About
<1>3. \A ev : Lines(ev) = {}
  BY <1>1 DEF Lines
<1>4. QED
  BY <1>1, <1>2, <1>3 DEF ObsInv, ObsTypeOK, FilesAreRight, SocketsAreRight, NamesAreRight

LEMMA SameLines ==
  ASSUME lines' = lines
  PROVE  /\ \A p : About(p)' = About(p) /\ Accessing(p)' = Accessing(p) /\ Writing(p)' = Writing(p)
         /\ \A ev : Lines(ev)' = Lines(ev)
         /\ Address' = Address
<1>1. \A p : About(p)' = About(p)
  BY DEF About
<1>2. \A ev : Lines(ev)' = Lines(ev)
  BY DEF Lines
<1>3. QED
  BY <1>1, <1>2 DEF Accessing, Writing, Address

\* One more line
LEMMA LineAdded ==
  ASSUME lines \in Seq(Line), NEW line \in Line, lines' = Append(lines, line)
  PROVE  /\ Len(lines) \in Nat /\ Len(lines) + 1 \notin DOMAIN lines /\ DOMAIN lines = 1 .. Len(lines)
         /\ DOMAIN lines' = DOMAIN lines \cup {Len(lines) + 1}
         /\ lines'[Len(lines) + 1] = line /\ \A i \in DOMAIN lines : lines'[i] = lines[i]
         /\ lines' \in Seq(Line)
  OBVIOUS

\* A line that is not about a path
LEMMA OtherPath ==
  ASSUME lines \in Seq(Line), NEW line \in Line, lines' = Append(lines, line), NEW p,
         ~(line.ev \in {"access", "write"} /\ line.path = p)
  PROVE  /\ About(p)' = About(p) /\ Accessing(p)' = Accessing(p) /\ Writing(p)' = Writing(p)
         /\ \A i \in About(p) : lines'[i] = lines[i]
<1>1. About(p)' = About(p)
  BY LineAdded DEF About
<1>2. \A i \in About(p) : lines'[i] = lines[i]
  BY LineAdded DEF About
<1>3. QED
  BY <1>1, <1>2 DEF Accessing, Writing

LEMMA ThisPath ==
  ASSUME lines \in Seq(Line), NEW line \in Line, lines' = Append(lines, line), NEW p \in {line.path},
         line.ev \in {"access", "write"}
  PROVE  /\ About(p)' = About(p) \cup {Len(lines) + 1}
         /\ Accessing(p)' = Accessing(p) \cup (IF line.ev = "access" THEN {Len(lines) + 1} ELSE {})
         /\ Writing(p)' = Writing(p) \cup (IF line.ev = "write" THEN {Len(lines) + 1} ELSE {})
         /\ \A i \in About(p) : lines'[i] = lines[i]
         /\ lines'[Len(lines) + 1] = line
<1>1. About(p)' = About(p) \cup {Len(lines) + 1}
  BY LineAdded DEF About
<1>2. \A i \in About(p) : lines'[i] = lines[i]
  BY LineAdded DEF About
<1>3. lines'[Len(lines) + 1] = line
  BY LineAdded
<1>4. QED
  BY <1>1, <1>2, <1>3 DEF Accessing, Writing

\* What the lines of the other kinds say
LEMMA LinesAdded ==
  ASSUME lines \in Seq(Line), NEW line \in Line, lines' = Append(lines, line), NEW ev
  PROVE  Lines(ev)' = Lines(ev) \cup (IF line.ev = ev THEN {line.of} ELSE {})
<1> DEFINE n == Len(lines) + 1
<1>1. /\ DOMAIN lines' = DOMAIN lines \cup {n} /\ lines'[n] = line
      /\ \A i \in DOMAIN lines : lines'[i] = lines[i]
  BY LineAdded
<1> HIDE DEF n
<1>2. \A x : x \in Lines(ev)' <=> \E i \in DOMAIN lines' : lines'[i].ev = ev /\ x = lines'[i].of
  BY DEF Lines
<1>3. \A x : x \in Lines(ev) <=> \E i \in DOMAIN lines : lines[i].ev = ev /\ x = lines[i].of
  BY DEF Lines
<1>4. \A x : x \in Lines(ev)' <=> x \in Lines(ev) \/ (line.ev = ev /\ x = line.of)
  BY <1>1, <1>2, <1>3
<1>5. QED
  BY <1>4

\* The buffers written to a path, in order
LEMMA WritesAreFinite ==
  ASSUME lines \in Seq(Line), NEW p
  PROVE  /\ IsFiniteSet(Writing(p)) /\ Writing(p) \subseteq 1 .. Len(lines)
         /\ \A i \in Writing(p) :
              Cardinality({j \in Writing(p) : j <= i}) \in 1 .. Cardinality(Writing(p))
<1>1. Writing(p) \subseteq 1 .. Len(lines) /\ Len(lines) \in Nat
  BY DEF Writing, About
<1>2. IsFiniteSet(1 .. Len(lines))
  BY <1>1, FS_Interval
<1>3. IsFiniteSet(Writing(p))
  BY <1>1, <1>2, FS_Subset
<1>4. ASSUME NEW i \in Writing(p)
      PROVE  Cardinality({j \in Writing(p) : j <= i}) \in 1 .. Cardinality(Writing(p))
  <2> DEFINE upTo == {j \in Writing(p) : j <= i}
  <2>1. upTo \subseteq Writing(p) /\ i \in upTo
    BY <1>1
  <2> HIDE DEF upTo
  <2>2. IsFiniteSet(upTo) /\ Cardinality(upTo) <= Cardinality(Writing(p))
    BY <1>3, <2>1, FS_Subset
  <2>3. Cardinality(upTo) \in Nat /\ Cardinality(Writing(p)) \in Nat /\ Cardinality(upTo) # 0
    BY <1>3, <2>1, <2>2, FS_CardinalityType, FS_EmptySet
  <2>4. Cardinality(upTo) \in 1 .. Cardinality(Writing(p))
    BY <2>2, <2>3
  <2>5. QED
    BY <2>4 DEF upTo
<1>5. QED
  BY <1>1, <1>3, <1>4

LEMMA BufferAppended ==
  ASSUME lines \in Seq(Line), NEW line \in Line, lines' = Append(lines, line), NEW p,
         line.ev = "write", line.path = p, NEW bs \in Seq(Buffer), line.of \in Buffer,
         Len(bs) = Cardinality(Writing(p)),
         \A i \in Writing(p) : bs[Cardinality({j \in Writing(p) : j <= i})] = lines[i].of,
         accessed'[p].buffers = Append(bs, line.of)
  PROVE  BuffersInOrder(p)'
<1> DEFINE n == Len(lines) + 1
           W == Writing(p)
           Upto(i) == {j \in W : j <= i}
<1>1. Writing(p)' = W \cup {n} /\ lines'[n] = line /\ \A i \in W : lines'[i] = lines[i]
  <2>0. p \in {line.path} /\ line.ev \in {"access", "write"}
    OBVIOUS
  <2>1. Writing(p)' = Writing(p) \cup {n}
    BY <2>0, ThisPath
  <2>2. lines'[n] = line /\ \A i \in About(p) : lines'[i] = lines[i]
    BY <2>0, ThisPath
  <2>3. Writing(p) \subseteq About(p)
    BY DEF Writing
  <2>4. QED
    BY <2>1, <2>2, <2>3
<1>2. /\ IsFiniteSet(W) /\ W \subseteq 1 .. Len(lines) /\ Len(lines) \in Nat
      /\ \A i \in W : Cardinality(Upto(i)) \in 1 .. Cardinality(W)
  <2>1. Len(lines) \in Nat
    OBVIOUS
  <2>2. QED
    BY <2>1, WritesAreFinite, Zenon
<1>3. n \notin W /\ n \in Nat /\ \A i \in W : i <= n /\ ~(n <= i)
  BY <1>2
<1> HIDE DEF n
<1>4. Cardinality(W \cup {n}) = Cardinality(W) + 1
  BY <1>2, <1>3, FS_AddElement
<1>5. \A i \in W : {j \in W \cup {n} : j <= i} = Upto(i)
  BY <1>3
<1>6. {j \in W \cup {n} : j <= n} = W \cup {n}
  BY <1>3
<1>7. \A i \in W : bs[Cardinality(Upto(i))] = lines[i].of
  OBVIOUS
<1>7a. Len(bs) = Cardinality(W)
  OBVIOUS
<1> HIDE DEF W, Upto
<1>8. /\ Len(Append(bs, line.of)) = Cardinality(W) + 1
      /\ Append(bs, line.of)[Cardinality(W) + 1] = line.of
      /\ \A k \in 1 .. Cardinality(W) : Append(bs, line.of)[k] = bs[k]
  BY <1>7a
<1>9. Len(Append(bs, line.of)) = Cardinality(W \cup {n})
  BY <1>4, <1>8
<1>10. ASSUME NEW i \in W \cup {n}
       PROVE  Append(bs, line.of)[Cardinality({j \in W \cup {n} : j <= i})] = lines'[i].of
  <2>1. CASE i \in W
    BY <1>1, <1>2, <1>5, <1>7, <1>8, <2>1
  <2>2. CASE i = n
    BY <1>1, <1>4, <1>6, <1>8, <2>2
  <2>3. QED
    BY <2>1, <2>2
<1>11. QED
  BY <1>1, <1>9, <1>10 DEF BuffersInOrder

\* What a line that is read says of its file
LEMMA Lined ==
  ASSUME NEW line \in Line
  PROVE  /\ line.ev = "access" => line.path \in Path /\ line.of \in Accesses
         /\ line.ev = "write" => line.path \in Path /\ line.of \in Buffer
         /\ line.ev = "socket" => line.of \in Socket
BY DEF Line

LEMMA FlagsOf ==
  ASSUME ObsTypeOK, NEW p
  PROVE  (IF p \in DOMAIN accessed THEN accessed[p] ELSE NoFlags) \in Flags
BY DEF ObsTypeOK, NoFlags, Flags

\* One more access, with the buffers bs, of a path p
LEMMA FileChanged ==
  ASSUME ObsTypeOK, FilesAreRight, NEW line \in Line, lines' = Append(lines, line),
         line.ev \in {"access", "write"}, NEW access \in Flags, Put(line.path, access),
         LET p   == line.path
             old == IF p \in DOMAIN accessed THEN accessed[p] ELSE NoFlags
             of  == IF line.ev = "write" THEN Writes ELSE line.of
         IN /\ access.read <=> old.read \/ of.read
            /\ access.write <=> old.write \/ of.write
            /\ access.delete <=> old.delete \/ of.delete
            /\ access.buffers = IF line.ev = "write" THEN Append(old.buffers, line.of) ELSE old.buffers
  PROVE  FilesAreRight' /\ DOMAIN accessed' \subseteq Path /\ \A p \in DOMAIN accessed' : accessed'[p] \in Flags
<1> DEFINE path == line.path
           n    == Len(lines) + 1
           old  == IF path \in DOMAIN accessed THEN accessed[path] ELSE NoFlags
           of   == IF line.ev = "write" THEN Writes ELSE line.of
<1>1. path \in Path /\ (line.ev = "write" => line.of \in Buffer)
  BY Lined
<1>2. /\ lines \in Seq(Line) /\ DOMAIN accessed \subseteq Path
      /\ \A p \in DOMAIN accessed : accessed[p] \in Flags
  BY DEF ObsTypeOK
<1>3. /\ DOMAIN accessed' = DOMAIN accessed \cup {path} /\ accessed'[path] = access
      /\ \A p \in DOMAIN accessed : p # path => accessed'[p] = accessed[p]
  BY DEF Put
<1>4. /\ access.read <=> old.read \/ of.read
      /\ access.write <=> old.write \/ of.write
      /\ access.delete <=> old.delete \/ of.delete
      /\ access.buffers = IF line.ev = "write" THEN Append(old.buffers, line.of) ELSE old.buffers
  OBVIOUS
<1>5. /\ About(path)' = About(path) \cup {n}
      /\ Accessing(path)' = Accessing(path) \cup (IF line.ev = "access" THEN {n} ELSE {})
      /\ Writing(path)' = Writing(path) \cup (IF line.ev = "write" THEN {n} ELSE {})
      /\ \A i \in About(path) : lines'[i] = lines[i]
      /\ lines'[n] = line
  <2>1. path \in {line.path}
    OBVIOUS
  <2>2. QED
    BY <1>2, <2>1, ThisPath
<1>6. \A p : p # path => /\ About(p)' = About(p) /\ Accessing(p)' = Accessing(p) /\ Writing(p)' = Writing(p)
                         /\ \A i \in About(p) : lines'[i] = lines[i]
  BY <1>2, OtherPath
<1>7. \A p : Accessing(p) \subseteq About(p) /\ Writing(p) \subseteq About(p)
  BY DEF Accessing, Writing
<1>8. /\ old.read <=> \E i \in Accessing(path) : lines[i].of.read
      /\ old.delete <=> \E i \in Accessing(path) : lines[i].of.delete
      /\ old.write <=> (Writing(path) # {} \/ \E i \in Accessing(path) : lines[i].of.write)
      /\ old.buffers \in Seq(Buffer)
      /\ Len(old.buffers) = Cardinality(Writing(path))
      /\ \A i \in Writing(path) :
           old.buffers[Cardinality({j \in Writing(path) : j <= i})] = lines[i].of
  <2>1. CASE path \in DOMAIN accessed
    <3>1. old = accessed[path]
      BY <2>1
    <3>2. BuffersInOrder(path)
      BY <2>1 DEF FilesAreRight
    <3>3. old.buffers \in Seq(Buffer)
      BY <1>2, <2>1, <3>1 DEF Flags
    <3> HIDE DEF old, path
    <3>4. QED
      BY <2>1, <3>1, <3>2, <3>3 DEF FilesAreRight, BuffersInOrder
  <2>2. CASE path \notin DOMAIN accessed
    <3>1. About(path) = {}
      BY <1>1, <2>2 DEF FilesAreRight
    <3>2. Accessing(path) = {} /\ Writing(path) = {}
      BY <1>7, <3>1
    <3>3. old = NoFlags /\ <<>> \in Seq(Buffer) /\ Len(<<>>) = 0
      BY <2>2
    <3>4. old.buffers = <<>> /\ ~old.read /\ ~old.write /\ ~old.delete
      BY <3>3 DEF NoFlags
    <3> HIDE DEF old, path
    <3>5. QED
      BY <3>2, <3>3, <3>4, FS_EmptySet
  <2>3. QED
    BY <2>1, <2>2
<1> HIDE DEF path, n, old, of
<1>9. \A p \in Path : p \in DOMAIN accessed' <=> About(p)' # {}
  <2> TAKE p \in Path
  <2>1. CASE p = path
    BY <1>3, <1>5, <2>1
  <2>2. CASE p # path
    BY <1>3, <1>6, <2>2 DEF FilesAreRight
  <2>3. QED
    BY <2>1, <2>2
<1>10. /\ access.read <=> \E i \in Accessing(path)' : lines'[i].of.read
       /\ access.delete <=> \E i \in Accessing(path)' : lines'[i].of.delete
       /\ access.write <=> (Writing(path)' # {} \/ \E i \in Accessing(path)' : lines'[i].of.write)
  <2>1. \A i \in Accessing(path) : lines'[i] = lines[i]
    BY <1>5, <1>7
  <2>2. CASE line.ev = "access"
    <3>1. of = line.of /\ Accessing(path)' = Accessing(path) \cup {n} /\ Writing(path)' = Writing(path)
      BY <1>5, <2>2 DEF of
    <3>2. QED
      BY <1>4, <1>5, <1>8, <2>1, <3>1
  <2>3. CASE line.ev = "write"
    <3>1. ~of.read /\ of.write /\ ~of.delete
      BY <2>3 DEF of, Writes
    <3>2. Accessing(path)' = Accessing(path) /\ n \in Writing(path)'
      BY <1>5, <2>3
    <3>3. QED
      BY <1>4, <1>8, <2>1, <3>1, <3>2
  <2>4. QED
    BY <2>2, <2>3
<1>11. BuffersInOrder(path)'
  <2>1. CASE line.ev = "access"
    <3>1. Writing(path)' = Writing(path) /\ accessed'[path].buffers = old.buffers
      BY <1>3, <1>4, <1>5, <2>1
    <3>2. \A i \in Writing(path) : lines'[i] = lines[i]
      BY <1>5, <1>7
    <3>3. QED
      BY <1>8, <3>1, <3>2 DEF BuffersInOrder
  <2>2. CASE line.ev = "write"
    <3>1. accessed'[path].buffers = Append(old.buffers, line.of)
      BY <1>3, <1>4, <2>2
    <3>2. line.path = path
      BY DEF path
    <3>3. QED
      BY <1>1, <1>2, <1>8, <2>2, <3>1, <3>2, BufferAppended
  <2>3. QED
    BY <2>1, <2>2
<1>12. ASSUME NEW p \in DOMAIN accessed', p # path
       PROVE  /\ accessed'[p].read <=> \E i \in Accessing(p)' : lines'[i].of.read
              /\ accessed'[p].delete <=> \E i \in Accessing(p)' : lines'[i].of.delete
              /\ accessed'[p].write <=> (Writing(p)' # {} \/ \E i \in Accessing(p)' : lines'[i].of.write)
              /\ BuffersInOrder(p)'
  <2>1. p \in DOMAIN accessed /\ accessed'[p] = accessed[p]
    BY <1>3, <1>12
  <2>2. Accessing(p)' = Accessing(p) /\ Writing(p)' = Writing(p) /\ \A i \in About(p) : lines'[i] = lines[i]
    BY <1>6, <1>12
  <2>3. \A i \in Accessing(p) \cup Writing(p) : lines'[i] = lines[i]
    BY <1>7, <2>2
  <2>4. BuffersInOrder(p)'
    <3>1. BuffersInOrder(p)
      BY <2>1 DEF FilesAreRight
    <3>2. QED
      BY <2>1, <2>2, <2>3, <3>1 DEF BuffersInOrder
  <2>5. /\ accessed[p].read <=> \E i \in Accessing(p) : lines[i].of.read
        /\ accessed[p].delete <=> \E i \in Accessing(p) : lines[i].of.delete
        /\ accessed[p].write <=> (Writing(p) # {} \/ \E i \in Accessing(p) : lines[i].of.write)
    BY <2>1 DEF FilesAreRight
  <2>6. QED
    BY <2>1, <2>2, <2>3, <2>4, <2>5
<1>13. FilesAreRight'
  BY <1>3, <1>9, <1>10, <1>11, <1>12 DEF FilesAreRight
<1>14. QED
  BY <1>1, <1>2, <1>3, <1>13

LEMMA ReadLineKeeps == ObsInv /\ ReadLine => ObsInv'
<1> SUFFICES ASSUME ObsInv, ReadLine
             PROVE  ObsInv'
  OBVIOUS
<1>1. PICK line \in Line :
        /\ lines' = Append(lines, line)
        /\ IF line.ev = "write" THEN ParseEnter(line) ELSE ParseExit(line)
  BY DEF ReadLine
<1>2. ObsTypeOK /\ FilesAreRight /\ SocketsAreRight /\ NamesAreRight
  BY DEF ObsInv
<1>3. UNCHANGED <<packets, ipHostnames, questions>>
  BY DEF ReadLine, dnsVars
<1>4. NamesAreRight'
  BY <1>2, <1>3 DEF NamesAreRight, Address
<1>5. lines' \in Seq(Line)
  BY <1>1, <1>2, LineAdded DEF ObsTypeOK
<1>6. Lines("socket")' = Lines("socket") \cup (IF line.ev = "socket" THEN {line.of} ELSE {})
  BY <1>1, <1>2, LinesAdded DEF ObsTypeOK
<1>7. Lines("command")' = Lines("command") \cup (IF line.ev = "command" THEN {line.of} ELSE {})
  BY <1>1, <1>2, LinesAdded DEF ObsTypeOK
<1>8. ASSUME line.ev \notin {"access", "write"}, UNCHANGED accessed
      PROVE  FilesAreRight'
  <2>1. \A p : /\ About(p)' = About(p) /\ Accessing(p)' = Accessing(p) /\ Writing(p)' = Writing(p)
               /\ \A i \in About(p) : lines'[i] = lines[i]
    BY <1>1, <1>2, <1>8, OtherPath DEF ObsTypeOK
  <2>2. \A p : Accessing(p) \subseteq About(p) /\ Writing(p) \subseteq About(p)
    BY DEF Accessing, Writing
  <2>3. \A p \in DOMAIN accessed : BuffersInOrder(p)'
    <3> TAKE p \in DOMAIN accessed
    <3>1. BuffersInOrder(p) /\ \A i \in Writing(p) : lines'[i] = lines[i]
      BY <1>2, <2>1, <2>2 DEF FilesAreRight
    <3>2. QED
      BY <1>8, <2>1, <3>1 DEF BuffersInOrder
  <2>4. \A p \in DOMAIN accessed : \A i \in Accessing(p) : lines'[i] = lines[i]
    BY <2>1, <2>2
  <2>5. ASSUME NEW p \in DOMAIN accessed
        PROVE  /\ accessed[p].read <=> \E i \in Accessing(p) : lines'[i].of.read
               /\ accessed[p].delete <=> \E i \in Accessing(p) : lines'[i].of.delete
               /\ accessed[p].write <=> (Writing(p) # {} \/ \E i \in Accessing(p) : lines'[i].of.write)
    <3>1. /\ accessed[p].read <=> \E i \in Accessing(p) : lines[i].of.read
          /\ accessed[p].delete <=> \E i \in Accessing(p) : lines[i].of.delete
          /\ accessed[p].write <=> (Writing(p) # {} \/ \E i \in Accessing(p) : lines[i].of.write)
      BY <1>2 DEF FilesAreRight
    <3>2. QED
      BY <2>4, <3>1
  <2>6. \A p \in Path : p \in DOMAIN accessed <=> About(p) # {}
    BY <1>2 DEF FilesAreRight
  <2>7. QED
    BY <1>8, <2>1, <2>3, <2>5, <2>6 DEF FilesAreRight
<1>9. ASSUME line.ev \in {"access", "write"}
      PROVE  FilesAreRight' /\ DOMAIN accessed' \subseteq Path /\ \A p \in DOMAIN accessed' : accessed'[p] \in Flags
  <2> DEFINE path == line.path
             old  == IF path \in DOMAIN accessed THEN accessed[path] ELSE NoFlags
             of   == IF line.ev = "write" THEN Writes ELSE line.of
             flagged == [old EXCEPT !.read = @ \/ of.read, !.write = @ \/ of.write, !.delete = @ \/ of.delete]
             new  == IF line.ev = "write" THEN [flagged EXCEPT !.buffers = Append(@, line.of)] ELSE flagged
  <2>1. old \in Flags
    BY <1>2, FlagsOf
  <2>2. of \in Accesses /\ (line.ev = "write" => line.of \in Buffer)
    BY <1>9, Lined DEF Writes, Accesses
  <2>3. Put(line.path, new)
    <3>1. CASE line.ev = "access"
      <4>1. new = Flagged(line.path, line.of)
        BY <3>1 DEF Flagged
      <4>2. Put(line.path, Flagged(line.path, line.of))
        BY <1>1, <3>1 DEF ParseExit
      <4>3. QED
        BY <4>1, <4>2
    <3>2. CASE line.ev = "write"
      <4>1. flagged = Flagged(line.path, Writes)
        BY <3>2 DEF Flagged
      <4>2. Put(line.path, [Flagged(line.path, Writes) EXCEPT !.buffers = Append(@, line.of)])
        BY <1>1, <3>2 DEF ParseEnter
      <4>3. QED
        BY <3>2, <4>1, <4>2
    <3>3. QED
      BY <1>9, <3>1, <3>2
  <2> HIDE DEF old, of
  <2>4. /\ old = [read |-> old.read, write |-> old.write, delete |-> old.delete, buffers |-> old.buffers]
        /\ old.read \in BOOLEAN /\ old.write \in BOOLEAN /\ old.delete \in BOOLEAN /\ old.buffers \in Seq(Buffer)
        /\ of.read \in BOOLEAN /\ of.write \in BOOLEAN /\ of.delete \in BOOLEAN
    <3>1. old = [read |-> old.read, write |-> old.write, delete |-> old.delete, buffers |-> old.buffers]
      BY <2>1 DEF Flags
    <3>2. old.read \in BOOLEAN /\ old.write \in BOOLEAN /\ old.delete \in BOOLEAN /\ old.buffers \in Seq(Buffer)
      BY <2>1 DEF Flags
    <3>3. of.read \in BOOLEAN /\ of.write \in BOOLEAN /\ of.delete \in BOOLEAN
      <4>1. Accesses \subseteq [read : BOOLEAN, write : BOOLEAN, delete : BOOLEAN]
        BY DEF Accesses
      <4>2. of \in [read : BOOLEAN, write : BOOLEAN, delete : BOOLEAN]
        BY <2>2, <4>1
      <4>3. QED
        BY <4>2
    <3>4. QED
      BY <3>1, <3>2, <3>3
  <2>5. flagged = [read |-> old.read \/ of.read, write |-> old.write \/ of.write,
                   delete |-> old.delete \/ of.delete, buffers |-> old.buffers]
    <3> DEFINE r == old.read \/ of.read
               w == old.write \/ of.write
               d == old.delete \/ of.delete
    <3>1. flagged = [old EXCEPT !.read = r, !.write = w, !.delete = d]
      OBVIOUS
    <3> HIDE DEF r, w, d, flagged
    <3>2. flagged = [read |-> r, write |-> w, delete |-> d, buffers |-> old.buffers]
      BY <2>1, <3>1 DEF Flags
    <3>3. QED
      BY <3>2 DEF r, w, d
  <2> HIDE DEF flagged
  <2>6. /\ flagged \in Flags /\ flagged.buffers = old.buffers
        /\ flagged.read <=> old.read \/ of.read
        /\ flagged.write <=> old.write \/ of.write
        /\ flagged.delete <=> old.delete \/ of.delete
    BY <2>4, <2>5 DEF Flags
  <2>7. /\ new \in Flags
        /\ new.read <=> old.read \/ of.read
        /\ new.write <=> old.write \/ of.write
        /\ new.delete <=> old.delete \/ of.delete
        /\ new.buffers = IF line.ev = "write" THEN Append(old.buffers, line.of) ELSE old.buffers
    <3>1. CASE line.ev = "write"
      <4>1. Append(old.buffers, line.of) \in Seq(Buffer)
        BY <2>2, <2>4, <3>1
      <4>2. new = [flagged EXCEPT !.buffers = Append(old.buffers, line.of)]
        BY <2>6, <3>1
      <4> HIDE DEF new
      <4>3. QED
        BY <2>6, <3>1, <4>1, <4>2 DEF Flags
    <3>2. CASE line.ev # "write"
      BY <2>6, <3>2
    <3>3. QED
      BY <3>1, <3>2
  <2> HIDE DEF new
  <2>8. QED
    BY <1>1, <1>2, <1>9, <2>3, <2>7, FileChanged DEF old, of
<1>10. CASE line.ev \in {"access", "write"}
  <2>1. UNCHANGED <<sockets, commands>>
    BY <1>1, <1>10 DEF ParseEnter, ParseExit
  <2>2. SocketsAreRight' /\ sockets' \subseteq Socket
    BY <1>2, <1>6, <1>7, <1>10, <2>1 DEF SocketsAreRight, ObsTypeOK
  <2>3. QED
    BY <1>4, <1>5, <1>9, <1>10, <2>2 DEF ObsInv, ObsTypeOK
<1>11. CASE line.ev \notin {"access", "write"}
  <2>1. ParseExit(line)
    BY <1>1, <1>11
  <2>2. accessed' = accessed /\ ObsTypeOK'
    BY <1>2, <1>5, <1>11, <2>1, Lined DEF ParseExit, ObsTypeOK
  <2>3. SocketsAreRight'
    <3>1. CASE line.ev = "socket"
      BY <1>2, <1>6, <1>7, <2>1, <3>1 DEF ParseExit, SocketsAreRight
    <3>2. CASE line.ev = "command"
      BY <1>2, <1>6, <1>7, <2>1, <3>2 DEF ParseExit, SocketsAreRight
    <3>3. CASE line.ev \notin {"socket", "command"}
      BY <1>2, <1>6, <1>7, <1>11, <2>1, <3>3 DEF ParseExit, SocketsAreRight
    <3>4. QED
      BY <3>1, <3>2, <3>3
  <2>4. QED
    BY <1>4, <1>8, <1>11, <2>2, <2>3 DEF ObsInv
<1>12. QED
  BY <1>10, <1>11

LEMMA ReceiveKeeps == ObsInv /\ Receive => ObsInv'
<1> SUFFICES ASSUME ObsInv, Receive
             PROVE  ObsInv'
  OBVIOUS
<1>1. /\ ObsTypeOK /\ FilesAreRight /\ SocketsAreRight /\ NamesAreRight
      /\ UNCHANGED <<lines, accessed, sockets, commands>>
  BY DEF ObsInv, Receive, straceVars
<1>2. PICK p \in DnsPacket :
        /\ packets' = packets \cup {p}
        /\ IF p.reply
             THEN /\ ipHostnames' = [addr \in Address |->
                       IF addr \in p.answers /\ p.type \in Lookups
                         THEN ipHostnames[addr] \cup {p.host} ELSE ipHostnames[addr]]
                  /\ UNCHANGED questions
             ELSE /\ questions' = questions \cup {<<p.host, p.type>>}
                  /\ UNCHANGED ipHostnames
  BY DEF Receive
<1>3. ObsTypeOK' /\ SocketsAreRight'
  BY <1>1, SameLines DEF ObsTypeOK, SocketsAreRight
<1>4. FilesAreRight'
  BY <1>1, SameLines DEF FilesAreRight, BuffersInOrder
<1>5. DOMAIN ipHostnames' = Address' /\ Address' = Address
  BY <1>1, <1>2 DEF NamesAreRight, Address
<1>6. ASSUME NEW addr \in Address
      PROVE  ipHostnames'[addr] =
        {q.host : q \in {r \in packets' : r.reply /\ r.type \in Lookups /\ addr \in r.answers}}
  <2>1. ipHostnames[addr] =
          {q.host : q \in {r \in packets : r.reply /\ r.type \in Lookups /\ addr \in r.answers}}
    BY <1>1 DEF NamesAreRight
  <2>2. ipHostnames'[addr] = ipHostnames[addr] \cup
          (IF p.reply /\ p.type \in Lookups /\ addr \in p.answers THEN {p.host} ELSE {})
    BY <1>1, <1>2 DEF NamesAreRight
  <2>3. QED
    BY <1>2, <2>1, <2>2
<1>7. questions' = {<<q.host, q.type>> : q \in {r \in packets' : ~r.reply}}
  <2>1. questions = {<<q.host, q.type>> : q \in {r \in packets : ~r.reply}}
    BY <1>1 DEF NamesAreRight
  <2>2. questions' = questions \cup (IF p.reply THEN {} ELSE {<<p.host, p.type>>})
    BY <1>2
  <2>3. QED
    BY <1>2, <2>1, <2>2
<1>8. NamesAreRight'
  BY <1>5, <1>6, <1>7 DEF NamesAreRight
<1>9. QED
  BY <1>3, <1>4, <1>8 DEF ObsInv

\* The result of a phase: of each file the accesses and, in their order, the
\* buffers written; the sockets, the commands and who was looked up, for any
\* lines and packets in any order (strace.Parse, dnsanalyzer, setData)
THEOREM ResultsAreWhatHappened == ObsSpec => []ResultIsWhatHappened
<1>0. Empty' => ObsInv'
  BY NothingHappened, PTL
<1>1. ObsInit => ObsInv
  BY NothingHappened DEF ObsInit, Empty
<1>2. ObsInv /\ [ObsNext]_obsVars => ObsInv'
  <2> SUFFICES ASSUME ObsInv, [ObsNext]_obsVars
               PROVE  ObsInv'
    OBVIOUS
  <2>1. CASE SetData
    <3>1. Fresh
      BY <2>1 DEF SetData
    <3>2. Empty'
      BY <3>1 DEF Fresh, Empty, Address
    <3>3. QED
      BY <1>0, <3>2
  <2>2. CASE UNCHANGED obsVars
    <3>1. UNCHANGED <<lines, packets, accessed, sockets, commands, ipHostnames, questions>>
      BY <2>2 DEF obsVars, straceVars, dnsVars
    <3>2. ObsTypeOK => ObsTypeOK'
      BY <3>1 DEF ObsTypeOK
    <3>3. FilesAreRight => FilesAreRight'
      <4> SUFFICES ASSUME FilesAreRight
                   PROVE  FilesAreRight'
        OBVIOUS
      <4>1. lines' = lines /\ accessed' = accessed
        BY <3>1
      <4>2. QED
        <5>1. \A p : /\ About(p)' = About(p) /\ Accessing(p)' = Accessing(p) /\ Writing(p)' = Writing(p)
          BY <4>1, SameLines
        <5>2. \A p : BuffersInOrder(p) => BuffersInOrder(p)'
          BY <4>1, <5>1 DEF BuffersInOrder
        <5>3. QED
          BY <4>1, <5>1, <5>2 DEF FilesAreRight
    <3>4. (SocketsAreRight => SocketsAreRight') /\ (NamesAreRight => NamesAreRight')
      BY <3>1, SameLines DEF SocketsAreRight, NamesAreRight
    <3>5. QED
      BY <3>2, <3>3, <3>4 DEF ObsInv
  <2>3. QED
    BY <2>1, <2>2, ReadLineKeeps, ReceiveKeeps DEF ObsNext
<1>3. ObsInv => ResultIsWhatHappened
  <2> SUFFICES ASSUME ObsInv
               PROVE  ResultIsWhatHappened
    OBVIOUS
  <2>1. ObsTypeOK /\ FilesAreRight /\ SocketsAreRight /\ NamesAreRight
    BY DEF ObsInv
  <2>2. DOMAIN accessed = {p \in Path : About(p) # {}}
    BY <2>1 DEF ObsTypeOK, FilesAreRight
  <2>3. ASSUME NEW p \in DOMAIN accessed
        PROVE  /\ accessed[p].read = (\E i \in Accessing(p) : lines[i].of.read)
               /\ accessed[p].delete = (\E i \in Accessing(p) : lines[i].of.delete)
               /\ accessed[p].write = (Writing(p) # {} \/ \E i \in Accessing(p) : lines[i].of.write)
               /\ BuffersInOrder(p)
    <3>1. accessed[p].read \in BOOLEAN /\ accessed[p].delete \in BOOLEAN /\ accessed[p].write \in BOOLEAN
      BY <2>1 DEF ObsTypeOK, Flags
    <3>2. QED
      BY <2>1, <3>1 DEF FilesAreRight
  <2>4. \A s \in sockets : AddressOf[s] \in Address
    BY <2>1 DEF ObsTypeOK, Address
  <2>5. QED
    BY <2>1, <2>2, <2>3, <2>4 DEF ResultIsWhatHappened, SocketsAreRight, NamesAreRight
<1>4. QED
  BY <1>1, <1>2, <1>3, PTL DEF ObsSpec
=============================================================================
