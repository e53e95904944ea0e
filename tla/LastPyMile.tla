----------------------------- MODULE LastPyMile -----------------------------
(***************************************************************************)
(* lastpymile (package_analysis/src/lastpymile): which files of a          *)
(* package's releases are in no commit of its repository, and what bandit  *)
(* says of those.  AbstractPackageAnalysis.startAnalysis takes the sources *)
(* first, then one release after the other; an AnalysisException ends the  *)
(* sources or a release and is reported, any other exception ends the      *)
(* program without a report.                                               *)
(***************************************************************************)
EXTENDS Naturals, Sequences, FiniteSets, SequencesExt

CONSTANTS
  Path,        \* of files lastpymile looks at: .py and .js
  Content,     \* their contents; a hash stands for one of them
  NoFile,
  Coherent,    \* in place of the risk of a file the sources have
  MaxCommits,  \* of the repository
  MaxReleases, \* of the package
  MaxFindings  \* of bandit, in a file

VARIABLES
  step,    \* where the analysis is
  commits, \* the repository: a tree and a first parent for each commit
  head,    \* the commit that is checked out
  scanned, \* commits scanned
  sources, \* source_files_hashes
  left,    \* releases still to analyze
  release, \* the files of the one that is analyzed
  judged,  \* its files so far: content -> risk and, for phantoms, findings
  result,  \* of the release, once it is analyzed
  complete \* of the report; "unknown" until it is set

lpmVars == <<step, commits, head, scanned, sources, left, release, judged, result, complete>>

Tree     == [Path -> Content \cup {NoFile}]
Severity == {"UNDEFINED", "LOW", "MEDIUM", "HIGH"}
ContentsOf(tree) == {tree[p] : p \in Path} \ {NoFile}

------------------------------------------------------------------------------
(* Sources *)

Raise == step' = "raised"  \* an exception other than AnalysisException

\* analysis_report.failed
Fail == step' = "ended" /\ complete' = "no"

\* A repository whose newest commit is checked out, or a GitException
Clone == \/ step' = "sources" /\ head' = Len(commits)
         \/ Raise /\ UNCHANGED head

\* No release that is supported or no repository that is known ends it
PrepareSources ==
  /\ step = "start"
  /\ \/ Fail /\ UNCHANGED <<left, head>>
     \/ Clone /\ left' \in 1 .. MaxReleases /\ UNCHANGED complete
  /\ UNCHANGED <<commits, scanned, sources, release, judged, result>>

TreeOf(c) == IF c = 0 THEN [p \in Path |-> NoFile] ELSE commits[c].tree

\* commit.stats.files without those the commit deletes
Touched(c) == {p \in Path : TreeOf(c)[p] \notin {NoFile, TreeOf(commits[c].parent)[p]}}

\* The files a commit touches, as they are in what is checked out already
ScanUnchecked ==
  /\ step = "sources" /\ scanned < Len(commits)
  /\ scanned' = scanned + 1
  /\ sources' = sources \cup ({TreeOf(head)[p] : p \in Touched(Len(commits) - scanned)} \ {NoFile})
  /\ UNCHANGED <<step, commits, head, left, release, judged, result, complete>>

\* The newest commit first, each checked out before its files are hashed
ScanCommit ==
  /\ step = "sources" /\ scanned < Len(commits)
  /\ \/ /\ scanned' = scanned + 1
        /\ head' = Len(commits) - scanned
        /\ sources' = sources \cup {TreeOf(head')[p] : p \in Touched(head')}
        /\ UNCHANGED step
     \/ Raise /\ UNCHANGED <<scanned, head, sources>>
  /\ UNCHANGED <<commits, left, release, judged, result, complete>>

------------------------------------------------------------------------------
(* Releases *)

\* _scanRelease: an archive that is not downloaded or extracted is left out
ScanRelease ==
  /\ step = "sources" \/ step = "releases"
  /\ scanned = Len(commits) /\ left > 0
  /\ \/ step' = "files" /\ release' \in Tree /\ UNCHANGED left
     \/ step' = "releases" /\ left' = left - 1 /\ UNCHANGED release
  /\ judged' = <<>> /\ result' = NoFile
  /\ UNCHANGED <<commits, head, scanned, sources, complete>>

\* __banditCheck.  A severity that is none of the three leaves `rl` as the
\* finding before has set it; there is none before the first
Level == [s \in Severity \ {"UNDEFINED"} |-> IF s = "LOW" THEN 1 ELSE IF s = "MEDIUM" THEN 2 ELSE 3]
Unbound(findings) == findings # <<>> /\ findings[1] = "UNDEFINED"
Risk(findings) ==
  LET worst[i \in 0 .. Len(findings)] ==
        IF i = 0 THEN 0
        ELSE IF findings[i] # "UNDEFINED" /\ Level[findings[i]] > worst[i - 1]
          THEN Level[findings[i]] ELSE worst[i - 1]
  IN worst[Len(findings)]

Findings == UNION {[1 .. n -> Severity] : n \in 0 .. MaxFindings}

Judge(c, findings, risk) ==
  judged' = [d \in DOMAIN judged \cup {c} |->
               IF d = c THEN [findings |-> findings, risk |-> risk] ELSE judged[d]]

\* A file of the release, by its content: files with the same are one
AnalyzeFile ==
  /\ step = "files"
  /\ \E c \in ContentsOf(release) \ DOMAIN judged :
       \/ c \in sources /\ Judge(c, <<>>, Coherent) /\ UNCHANGED step
       \/ /\ c \notin sources
          /\ \/ \E findings \in Findings :
                  IF Unbound(findings) THEN Raise /\ UNCHANGED judged
                  ELSE Judge(c, findings, Risk(findings)) /\ UNCHANGED step
             \/ Raise /\ UNCHANGED judged
  /\ UNCHANGED <<commits, head, scanned, sources, left, release, result, complete>>

Judged(risk) == {c \in DOMAIN judged : judged[c].risk = risk}

\* The status for the worst file is replaced by the one for the other files:
\* "critic" and "danger" do not last
Status == IF Judged(1) # {} THEN "warning" ELSE IF Judged(0) # {} THEN "stable" ELSE "coherent"

FinishRelease ==
  /\ step = "files" /\ ContentsOf(release) = DOMAIN judged
  /\ result' = [of |-> ContentsOf(release), files |-> judged, status |-> Status]
  /\ step' = "releases" /\ left' = left - 1
  /\ UNCHANGED <<commits, head, scanned, sources, release, judged, complete>>

\* analysis_report.terminated, also if every release was left out
Terminate ==
  /\ step = "releases" /\ left = 0
  /\ step' = "ended" /\ complete' = "yes"
  /\ UNCHANGED <<commits, head, scanned, sources, left, release, judged, result>>

\* A new AnalysisReport
Unset == complete = "unknown" /\ result = NoFile

\* The commits that rev_list --all gives, oldest first
LpmInit ==
  /\ step = "start" /\ Unset
  /\ \E n \in 1 .. MaxCommits :
       commits \in {h \in [1 .. n -> [tree : Tree, parent : 0 .. n - 1]] :
                      \A c \in 1 .. n : h[c].parent < c}
  /\ head = 0 /\ scanned = 0 /\ sources = {} /\ left = 0
  /\ release = [p \in Path |-> NoFile] /\ judged = <<>>

LpmNext ==
  PrepareSources \/ ScanCommit \/ ScanRelease \/ AnalyzeFile \/ FinishRelease \/ Terminate

LpmSpec == LpmInit /\ [][LpmNext]_lpmVars

------------------------------------------------------------------------------
(* Properties *)

\* Every file of a release that is analyzed has its place in the result: one
\* that was ever committed, on any branch and whether or not it still exists,
\* is coherent, and any other one is a phantom with the worst of its findings
EveryFileIsJudged == result # NoFile =>
  /\ DOMAIN result.files = result.of
  /\ \A c \in result.of :
       LET file   == result.files[c]
           Levels == {Level[s] : s \in ToSet(file.findings) \ {"UNDEFINED"}}
       IN IF \E i \in DOMAIN commits : c \in ContentsOf(commits[i].tree)
          THEN file.risk = Coherent
          ELSE file.risk = Max({0} \cup Levels)
==============================================================================
