---------------------------- MODULE StaticAnalysis ----------------------------
(***************************************************************************)
(* Static analyses of packages, one after the other in one worker:         *)
(* RunStaticAnalysis (internal/worker/runstatic.go) starts staticanalyze   *)
(* (sandboxes/staticanalysis/staticanalyze.go) in a sandbox, which         *)
(* downloads and extracts an archive, describes its files, parses them and *)
(* writes results.json, a file that every analysis of the worker mounts;   *)
(* SaveStaticAnalysisData makes the record.                                *)
(*                                                                         *)
(* Both `file` and the parser get their files as a list with a name to a   *)
(* line.  A name may contain a newline.                                    *)
(***************************************************************************)
EXTENDS Naturals, Sequences, FiniteSets, SequencesExt

CONSTANTS
  Name,    \* paths in an archive
  Parent,  \* the directory of a path; Root for the top
  LinesOf, \* the lines of a path in a list of files
  Root, None,
  Partial,     \* a results.json that is not complete
  MaxEntries,  \* entries of an archive
  MaxRuns,     \* analyses
  MaxFailures  \* steps that fail

ASSUME StaticConstants ==
  /\ Parent \in [Name -> Name \cup {Root}] /\ Root \notin Name
  /\ \A n \in Name : Parent[n] # Root => Parent[Parent[n]] = Root
  /\ \A n \in Name : LinesOf[n] \in Seq(Name) /\ Len(LinesOf[n]) > 0
                     /\ (Len(LinesOf[n]) = 1 => LinesOf[n] = <<n>>)

Dir == 0  \* in place of the number of the entry a file's contents are from

VARIABLES
  at,          \* where the analysis is
  archive,     \* its entries
  entry,       \* those extracted so far
  disk,        \* the extracted tree
  parser,      \* InitParser succeeded
  types, basic, parsing, signals, \* of the extracted files; None if not available
  output,      \* results.json; None if it is empty
  code,        \* exit status of staticanalyze; None until it has ended
  runs,        \* analyses that have ended
  record,      \* what the analysis has saved, or None
  failures

task       == <<types, basic, parsing, signals>>
staticVars == <<at, archive, entry, disk, parser, task, output, code, runs, record, failures>>

Entry == [kind : {"dir", "file", "other"}, name : Name]
Failure == failures < MaxFailures /\ failures' = failures + 1
ExitWith(c) == at' = "ended" /\ code' = c

Paths == {n \in DOMAIN disk : disk[n] # Dir}
\* WalkDir's order
PathList == SetToSeq(Paths)
\* MultipleFileInput: the names joined by newlines
FileList == FlattenSeq([i \in DOMAIN PathList |-> LinesOf[PathList[i]]])

------------------------------------------------------------------------------
(* RunStaticAnalysis *)

\* results.json is created only where there is none
CreateOnce ==
  /\ at = "start" /\ runs < MaxRuns
  /\ archive' \in UNION {[1 .. n -> Entry] : n \in 0 .. MaxEntries}
  /\ output' = output /\ at' = "download"
  /\ entry' = 0 /\ disk' = <<>> /\ code' = None
  /\ types' = None /\ basic' = None /\ parsing' = None /\ signals' = None
  /\ record' = None
  /\ UNCHANGED <<parser, runs, failures>>

\* os.Create empties the file of the analysis before
CreateResults ==
  /\ at = "start" /\ runs < MaxRuns
  /\ archive' \in UNION {[1 .. n -> Entry] : n \in 0 .. MaxEntries}
  /\ output' = None /\ at' = "download"
  /\ entry' = 0 /\ disk' = <<>> /\ code' = None
  /\ types' = None /\ basic' = None /\ parsing' = None /\ signals' = None
  /\ record' = None
  /\ UNCHANGED <<parser, runs, failures>>

------------------------------------------------------------------------------
(* staticanalyze *)

\* DownloadArchive, ResolvePkg, the flags and the work directories
Download ==
  /\ at = "download"
  /\ \/ at' = "extract" /\ UNCHANGED <<code, failures>>
     \/ Failure /\ ExitWith(1)
  /\ UNCHANGED <<archive, entry, disk, parser, task, output, runs, record>>

With(tree, n, what) == [m \in DOMAIN tree \cup {n} |-> IF m = n THEN what ELSE tree[m]]
IsDir(n) == n = Root \/ (n \in DOMAIN disk /\ disk[n] = Dir)

\* extractTar.  A directory must not be there yet, even when a file before it
\* has made it; anything else than directories and files is refused
Extract ==
  /\ at = "extract" /\ entry < Len(archive)
  /\ entry' = entry + 1
  /\ LET e == archive[entry']
     IN \/ /\ e.kind = "dir" /\ IsDir(Parent[e.name]) /\ e.name \notin DOMAIN disk
           /\ disk' = With(disk, e.name, Dir) /\ UNCHANGED <<at, code, failures>>
        \/ /\ e.kind = "file" /\ ~IsDir(e.name)
           /\ IsDir(Parent[e.name]) \/ Parent[e.name] \notin DOMAIN disk
           /\ disk' = With(IF Parent[e.name] = Root THEN disk ELSE With(disk, Parent[e.name], Dir),
                           e.name, entry')
           /\ UNCHANGED <<at, code, failures>>
        \/ /\ \/ e.kind = "other" /\ UNCHANGED failures
              \/ /\ e.kind = "dir" /\ (~IsDir(Parent[e.name]) \/ e.name \in DOMAIN disk)
                 /\ UNCHANGED failures
              \/ /\ e.kind = "file"
                 /\ IsDir(e.name) \/ (~IsDir(Parent[e.name]) /\ Parent[e.name] \in DOMAIN disk)
                 /\ UNCHANGED failures
              \/ Failure
           /\ ExitWith(1) /\ UNCHANGED disk
  /\ UNCHANGED <<archive, parser, task, output, runs, record>>

\* A parser that could not be installed is only logged
InitParser ==
  /\ at = "extract" /\ entry = Len(archive)
  /\ at' = "basic"
  /\ \/ parser' = TRUE /\ UNCHANGED failures
     \/ parser' = FALSE /\ Failure
  /\ UNCHANGED <<archive, entry, disk, task, output, code, runs, record>>

\* detectFileTypes: `file` describes every line of the list
Descriptions == FileList

\* basicdata.Analyze: descriptions that are not as many as the files are not
\* used.  The rest is read file by file
Basic ==
  /\ at = "basic"
  /\ \/ types' = None /\ Failure
     \/ /\ types' = (IF Len(Descriptions) = Len(PathList) THEN Descriptions ELSE None)
        /\ UNCHANGED failures
  /\ basic' = [i \in DOMAIN PathList |-> disk[PathList[i]]]
  /\ at' = "parse"
  /\ UNCHANGED <<archive, entry, disk, parser, parsing, signals, output, code, runs, record>>

\* the results are taken in the order of the list
ParseInOrder ==
  /\ at = "parse" /\ parser
  /\ parsing' = [i \in DOMAIN PathList |-> FileList[i]]
  /\ at' = "signals"
  /\ UNCHANGED <<archive, entry, disk, parser, types, basic, signals, output, code, runs, record, failures>>

\* The parser's output has one result for every name on the list
Parsed == ToSet(FileList)

\* If they are as many as the files, each file gets the one with its name, an
\* empty one if there is none
Parse ==
  /\ at = "parse"
  /\ \/ /\ parser /\ Cardinality(Parsed) = Len(PathList)
        /\ parsing' = [i \in DOMAIN PathList |->
                         IF PathList[i] \in Parsed THEN PathList[i] ELSE None]
        /\ UNCHANGED failures
     \/ /\ ~parser \/ Cardinality(Parsed) # Len(PathList)
        /\ parsing' = None /\ UNCHANGED failures
     \/ parsing' = None /\ Failure
  /\ at' = "signals"
  /\ UNCHANGED <<archive, entry, disk, parser, types, basic, signals, output, code, runs, record>>

\* signals.AnalyzeSingle, of the parsing result
Signals ==
  /\ at = "signals"
  /\ signals' = parsing
  /\ at' = "write"
  /\ UNCHANGED <<archive, entry, disk, parser, types, basic, parsing, output, code, runs, record, failures>>

Data == [of |-> runs + 1, files |-> PathList, types |-> types, basic |-> basic,
         parsing |-> parsing, signals |-> signals]

Write ==
  /\ at = "write"
  /\ \/ output' = Data /\ ExitWith(0) /\ UNCHANGED failures
     \/ output' \in {None, Partial} /\ ExitWith(1) /\ Failure
  /\ UNCHANGED <<archive, entry, disk, parser, task, runs, record>>

------------------------------------------------------------------------------
(* The end of RunStaticAnalysis, and SaveStaticAnalysisData.  The status of  *)
(* the sandbox is not looked at: an analysis that failed has empty results,  *)
(* which are not saved and are no error                                      *)

Save ==
  /\ at = "ended"
  /\ \/ /\ record' = IF output \in {None, Partial} THEN None ELSE output
        /\ UNCHANGED failures
     \/ record' = None /\ Failure
  /\ at' = "start" /\ runs' = runs + 1
  /\ UNCHANGED <<archive, entry, disk, parser, task, output, code>>

StaticInit ==
  /\ at = "start" /\ archive = <<>> /\ entry = 0 /\ disk = <<>> /\ parser = FALSE
  /\ types = None /\ basic = None /\ parsing = None /\ signals = None
  /\ output = None /\ code = None /\ runs = 0 /\ record = None /\ failures = 0

StaticNext ==
  \/ CreateResults \/ Download \/ Extract \/ InitParser
  \/ Basic \/ Parse \/ Signals \/ Write \/ Save

StaticSpec == StaticInit /\ [][StaticNext]_staticVars

------------------------------------------------------------------------------
(* Properties *)

\* The entry a file of the archive has its contents from
LastEntry(n) == LET of == {i \in DOMAIN archive : archive[i] = [kind |-> "file", name |-> n]}
           IN CHOOSE i \in of : \A j \in of : j <= i
Regular == {archive[i].name : i \in {j \in DOMAIN archive : archive[j].kind = "file"}}

\* A record that is saved is the one of its own analysis, with every file of
\* the archive in its last version, whatever part of the analysis failed; an
\* archive that is extracted in part has none
RecordIsWhole == at = "start" /\ record # None =>
  /\ record.of = runs
  /\ ToSet(record.files) = Regular
  /\ \A i \in DOMAIN record.files : record.basic[i] = LastEntry(record.files[i])

\* What a record says of a file was found in that file, newlines in names or
\* not; there are signals of what was parsed only
DataIsOwn == record # None =>
  /\ record.types # None => record.types = record.files
  /\ record.parsing # None =>
       \A i \in DOMAIN record.files : record.parsing[i] \in {record.files[i], None}
  /\ record.signals = record.parsing
==============================================================================
