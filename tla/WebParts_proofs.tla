--------------------------- MODULE WebParts_proofs ---------------------------
(***************************************************************************)
(* What serves the web application: package lists, lastpymile and the task *)
(* API.                                                                    *)
(*                                                                         *)
(* ServedWhole for any number of workers, kills and errors of writing: its *)
(* induction needs to know that what a worker has fetched is whole from    *)
(* the moment it opens the file (or empty, for packagist), and that the    *)
(* file holds nothing but such a list, or a part of one, which npm's and   *)
(* packagist's readers take for an error.                                  *)
(*                                                                         *)
(* EveryFileIsJudged for histories of any commits: its induction says      *)
(* which commits' contents the sources hold, and that a content that was   *)
(* ever committed is brought by the first commit that has it.              *)
(*                                                                         *)
(* WalkMissesNothing for any number of tasks and any size of a page: its   *)
(* induction says which tasks a client that walks the pages has seen, by   *)
(* their place in the list.                                                *)
(***************************************************************************)
EXTENDS PackageLists, LastPyMile, TaskApi, FiniteSetTheorems, WellFoundedInduction, TLAPS

------------------------------------------------------------------------------
(* Package lists                                                           *)

OnlyWhole == {"npm", "packagist"}

\* The lists that their fetches can give
Fetchable == IF ecosystem = "npm" THEN {"whole"} ELSE {"whole", "empty"}

\* The variables the induction reads
ListsTypeOK ==
  /\ doing \in [Worker -> {"idle", "read", "fetch", "open", "write"}]
  /\ fetched \in [Worker -> {"nothing", "whole", "empty"}]
  /\ cache \in [Worker -> {"nothing", "whole", "empty"}]

\* What the file and a worker's memory hold
WholeInv == ecosystem \in OnlyWhole =>
  /\ ListsTypeOK
  /\ stored \in {"missing", "torn"} \cup Fetchable
  /\ \A w \in Worker : doing[w] = "read" => stored # "missing"
  /\ \A w \in Worker : doing[w] \in {"open", "write"} => fetched[w] \in Fetchable
  /\ \A w \in Worker : ecosystem = "npm" /\ cache[w] = "empty" => w \in failed

LEMMA WholeInit == ListsInit => WholeInv
BY DEF ListsInit, WholeInv, ListsTypeOK, OnlyWhole, Shipped, Fetchable

LEMMA WholeNext == WholeInv /\ [ListsNext]_listVars => WholeInv'
<1> SUFFICES ASSUME WholeInv, [ListsNext]_listVars, ecosystem' \in OnlyWhole
             PROVE  WholeInv'
  BY DEF WholeInv
<1> USE DEF OnlyWhole, ListsTypeOK, Fetchable
<1>1. ecosystem' = ecosystem
  BY DEF ListsNext, listVars, Ask, ReadFile, FetchList, OpenFile, WriteFile, Kill
<1>2. ecosystem \in OnlyWhole
  BY <1>1
<1>3. ASSUME NEW w \in Worker, Ask(w)
      PROVE  WholeInv'
  BY <1>2, <1>3 DEF WholeInv, Ask, Do
<1>4. ASSUME NEW w \in Worker, ReadFile(w)
      PROVE  WholeInv'
  BY <1>2, <1>4 DEF WholeInv, ReadFile, Do, Remember, Csv, RefetchesBad
<1>5. ASSUME NEW w \in Worker, FetchList(w)
      PROVE  WholeInv'
  <2>1. Registry[ecosystem] = Fetchable \cup {"fails"}
    BY <1>2 DEF Registry, NpmFetch, PackagistFetch
  <2>2. QED
    BY <1>2, <1>5, <2>1 DEF WholeInv, FetchList, Do, Remember, RememberError
<1>6. ASSUME NEW w \in Worker, OpenFile(w)
      PROVE  WholeInv'
  BY <1>2, <1>6 DEF WholeInv, OpenFile, Do
<1>7. ASSUME NEW w \in Worker, WriteFile(w)
      PROVE  WholeInv'
  <2>1. fetched[w] \in Fetchable
    BY <1>2, <1>7 DEF WholeInv, WriteFile
  <2>2. ecosystem \in KeepsErrors
    BY <1>2 DEF KeepsErrors
  <2>3. QED
    BY <1>2, <1>7, <2>1, <2>2 DEF WholeInv, WriteFile, Do, Remember, RememberError
<1>8. ASSUME NEW w \in Worker, Kill(w)
      PROVE  WholeInv'
  BY <1>2, <1>8 DEF WholeInv, Kill, Do
<1>9. CASE UNCHANGED listVars
  BY <1>2, <1>9 DEF WholeInv, listVars
<1>10. QED
  BY <1>3, <1>4, <1>5, <1>6, <1>7, <1>8, <1>9 DEF ListsNext

\* A list of npm or packagist is never served in part, however many workers
\* write the file at the same time and wherever they are killed
THEOREM ListsAreWhole == ListsSpec => []ServedWhole
<1>1. WholeInv => ServedWhole
  BY DEF WholeInv, ListsTypeOK, ServedWhole, OnlyWhole
<1>2. QED
  BY WholeInit, WholeNext, <1>1, PTL DEF ListsSpec

------------------------------------------------------------------------------
(* Induction over the naturals, by the least one of a set                  *)

LEMMA LeastNatural == ASSUME NEW T \in SUBSET Nat, T # {}
                      PROVE  \E x \in T : \A y \in T : x <= y
<1> DEFINE R == OpToRel(<, Nat)
<1>1. IsWellFoundedOn(R, Nat)
  BY NatLessThanWellFounded
<1>2. \A x, y \in Nat : y < x => <<y, x>> \in R
  BY DEF OpToRel
<1> HIDE DEF R
<1>3. PICK x \in T : \A y \in T : ~(<<y, x>> \in R)
  BY <1>1, WFMin
<1>4. \A y \in T : ~(y < x)
  BY <1>2, <1>3, Zenon
<1>5. \A y \in T : x <= y
  BY <1>4, SMT
<1>6. QED
  BY <1>5

------------------------------------------------------------------------------
(* LastPyMile: EveryFileIsJudged                                           *)

\* The risk of a file is the worst of its findings
IsWorst(f, findings, n) ==
  f = [i \in 0 .. n |->
        IF i = 0 THEN 0
        ELSE IF findings[i] # "UNDEFINED" /\ Level[findings[i]] > f[i - 1]
          THEN Level[findings[i]] ELSE f[i - 1]]

LEMMA WorstExists == ASSUME NEW findings, NEW n \in Nat
                     PROVE  \E f : IsWorst(f, findings, n)
<1> DEFINE T == {k \in Nat : ~ \E f : IsWorst(f, findings, k)}
<1>1. SUFFICES ASSUME T # {}
               PROVE  FALSE
  OBVIOUS
<1>2. PICK k \in T : \A j \in T : k <= j
  <2> HIDE DEF T
  <2>1. T \in SUBSET Nat
    BY DEF T
  <2>2. QED
    BY <1>1, <2>1, LeastNatural
<1>3. k # 0
  <2>1. IsWorst([i \in 0 .. 0 |-> 0], findings, 0)
    BY DEF IsWorst
  <2>2. QED
    BY <2>1
<1>4. PICK f : IsWorst(f, findings, k - 1)
  <2>1. k - 1 \in Nat /\ k - 1 \notin T
    BY <1>2, <1>3
  <2>2. QED
    BY <2>1
<1> DEFINE g == [i \in 0 .. k |->
                  IF i = 0 THEN 0
                  ELSE IF findings[i] # "UNDEFINED" /\ Level[findings[i]] > f[i - 1]
                    THEN Level[findings[i]] ELSE f[i - 1]]
<1>5. IsWorst(g, findings, k)
  <2>1. ASSUME NEW i \in 0 .. k, i # 0
        PROVE  g[i - 1] = f[i - 1]
    <3>1. i - 1 \in 0 .. k - 1 /\ i - 1 \in 0 .. k
      BY <1>3, <2>1
    <3>2. f[i - 1] = IF i - 1 = 0 THEN 0
                     ELSE IF findings[i - 1] # "UNDEFINED" /\ Level[findings[i - 1]] > f[i - 1 - 1]
                       THEN Level[findings[i - 1]] ELSE f[i - 1 - 1]
      BY <1>4, <3>1 DEF IsWorst
    <3>3. QED
      BY <3>1, <3>2
  <2>2. QED
    BY <2>1 DEF IsWorst
<1>6. QED
  BY <1>2, <1>5

\* The worst of the first i findings
Bounds(x, findings, i) ==
  /\ x \in Nat
  /\ x = 0 \/ \E j \in 1 .. i : findings[j] # "UNDEFINED" /\ x = Level[findings[j]]
  /\ \A j \in 1 .. i : findings[j] # "UNDEFINED" => Level[findings[j]] <= x

LEMMA WorstBounds ==
  ASSUME NEW n \in Nat, NEW findings, \A i \in 1 .. n : findings[i] \in Severity,
         NEW f, IsWorst(f, findings, n)
  PROVE  \A i \in 0 .. n : Bounds(f[i], findings, i)
<1> DEFINE T == {i \in 0 .. n : ~Bounds(f[i], findings, i)}
<1>1. SUFFICES ASSUME T # {}
               PROVE  FALSE
  OBVIOUS
<1>2. PICK k \in T : \A j \in T : k <= j
  <2> HIDE DEF T
  <2>1. T \in SUBSET Nat
    BY DEF T
  <2>2. QED
    BY <1>1, <2>1, LeastNatural
<1>3. k \in 0 .. n /\ ~Bounds(f[k], findings, k)
  BY <1>2
<1>4. f[k] = IF k = 0 THEN 0
             ELSE IF findings[k] # "UNDEFINED" /\ Level[findings[k]] > f[k - 1]
               THEN Level[findings[k]] ELSE f[k - 1]
  BY <1>3 DEF IsWorst
<1>5. CASE k = 0
  BY <1>3, <1>4, <1>5 DEF Bounds
<1>6. CASE k # 0
  <2>1. k - 1 \in 0 .. n /\ k - 1 \notin T
    BY <1>2, <1>3, <1>6
  <2>2. Bounds(f[k - 1], findings, k - 1)
    BY <2>1
  <2>3. k \in 1 .. n /\ (findings[k] # "UNDEFINED" => Level[findings[k]] \in Nat)
    BY <1>3, <1>6 DEF Level, Severity
  <2>4. \A j \in 1 .. k : j \in 1 .. k - 1 \/ j = k
    BY <1>3
  <2>5. \A j \in 1 .. k - 1 : j \in 1 .. k
    BY <1>3
  <2> DEFINE l == Level[findings[k]]
             x == f[k - 1]
  <2>6. /\ x \in Nat
        /\ x = 0 \/ \E j \in 1 .. k - 1 : findings[j] # "UNDEFINED" /\ x = Level[findings[j]]
        /\ \A j \in 1 .. k - 1 : findings[j] # "UNDEFINED" => Level[findings[j]] <= x
    BY <2>2 DEF Bounds
  <2>7. CASE findings[k] # "UNDEFINED" /\ l > x
    <3>1. f[k] = l /\ l \in Nat
      BY <1>4, <1>6, <2>3, <2>7
    <3>2. \A j \in 1 .. k - 1 : findings[j] \in Severity
      BY <2>3, <2>5, <1>3
    <3>3. \A j \in 1 .. k - 1 : findings[j] # "UNDEFINED" => Level[findings[j]] \in Nat
      BY <3>2 DEF Level, Severity
    <3> HIDE DEF l, x
    <3>4. \A j \in 1 .. k - 1 : findings[j] # "UNDEFINED" => Level[findings[j]] <= l
      BY <2>6, <2>7, <3>1, <3>3
    <3>5. \A j \in 1 .. k : findings[j] # "UNDEFINED" => Level[findings[j]] <= l
      BY <2>4, <3>1, <3>4 DEF l
    <3>6. QED
      BY <1>3, <2>3, <2>7, <3>1, <3>5 DEF Bounds, l
  <2>8. CASE ~(findings[k] # "UNDEFINED" /\ l > x)
    <3>1. f[k] = x
      BY <1>4, <1>6, <2>8
    <3>2. findings[k] # "UNDEFINED" => l <= x
      BY <2>3, <2>6, <2>8
    <3> HIDE DEF x
    <3>3. \A j \in 1 .. k : findings[j] # "UNDEFINED" => Level[findings[j]] <= x
      BY <2>4, <2>6, <3>2
    <3>4. x = 0 \/ \E j \in 1 .. k : findings[j] # "UNDEFINED" /\ x = Level[findings[j]]
      BY <2>5, <2>6
    <3>5. QED
      BY <1>3, <2>6, <3>1, <3>3, <3>4 DEF Bounds
  <2>9. QED
    BY <2>7, <2>8
<1>7. QED
  BY <1>5, <1>6

LEMMA RiskIsWorst ==
  ASSUME NEW findings \in Findings
  PROVE  Risk(findings) = Max({0} \cup {Level[s] : s \in ToSet(findings) \ {"UNDEFINED"}})
<1> DEFINE n == Len(findings)
           f == CHOOSE f : IsWorst(f, findings, n)
           S == {0} \cup {Level[s] : s \in ToSet(findings) \ {"UNDEFINED"}}
<1>1. n \in Nat /\ DOMAIN findings = 1 .. n /\ \A i \in 1 .. n : findings[i] \in Severity
  BY DEF Findings
<1>2. IsWorst(f, findings, n)
  BY <1>1, WorstExists
<1>3. Risk(findings) = f[n]
  BY DEF Risk, IsWorst
<1>4. Bounds(f[n], findings, n)
  BY <1>1, <1>2, WorstBounds
<1> HIDE DEF f, n
<1>5. f[n] \in S /\ S \subseteq Nat /\ \A x \in S : x <= f[n]
  <2>1. /\ f[n] \in Nat
        /\ f[n] = 0 \/ \E j \in 1 .. n : findings[j] # "UNDEFINED" /\ f[n] = Level[findings[j]]
        /\ \A j \in 1 .. n : findings[j] # "UNDEFINED" => Level[findings[j]] <= f[n]
    BY <1>4 DEF Bounds
  <2>2. \A s : s \in ToSet(findings) <=> \E j \in 1 .. n : s = findings[j]
    BY <1>1 DEF ToSet
  <2>3. \A s \in ToSet(findings) \ {"UNDEFINED"} : Level[s] \in Nat
    BY <1>1, <2>2 DEF Level, Severity
  <2>4. f[n] \in S
    BY <2>1, <2>2
  <2>5. S \subseteq Nat
    BY <2>3
  <2>6. \A x \in S : x <= f[n]
    <3> TAKE x \in S
    <3>1. x = 0 \/ \E j \in 1 .. n : findings[j] # "UNDEFINED" /\ x = Level[findings[j]]
      BY <2>2
    <3>2. QED
      BY <2>1, <3>1
  <2>7. QED
    BY <2>4, <2>5, <2>6
<1> HIDE DEF S
<1>6. f[n] \in Nat /\ S \subseteq Nat /\ \A x \in S : x <= f[n]
  BY <1>5
<1>7. f[n] \in S /\ \A y \in S : f[n] >= y
  BY <1>5, <1>6
<1>8. ASSUME NEW x \in S, \A y \in S : x >= y
       PROVE  x = f[n]
  <2>1. x \in Nat /\ x <= f[n] /\ x >= f[n]
    BY <1>5, <1>6, <1>8
  <2>2. \A a, b \in Nat : a <= b /\ a >= b => a = b
    OBVIOUS
  <2>3. QED
    BY <1>6, <2>1, <2>2, Zenon
<1>9. Max(S) = f[n]
  BY <1>7, <1>8 DEF Max
<1>10. QED
  BY <1>3, <1>9 DEF S

CommitsOK ==
  /\ Len(commits) \in Nat /\ DOMAIN commits = 1 .. Len(commits)
  /\ \A c \in DOMAIN commits : commits[c].tree \in Tree /\ commits[c].parent \in Nat /\ commits[c].parent < c

Committed(c) == \E i \in DOMAIN commits : c \in ContentsOf(commits[i].tree)

\* The contents a commit brings, and those of the commits scanned so far
Brings(i) == {TreeOf(i)[p] : p \in Touched(i)}
ScannedSoFar == {i \in DOMAIN commits : i > Len(commits) - scanned}

JudgedWell(committed, file) ==
  IF committed THEN file.risk = Coherent
  ELSE file.risk = Max({0} \cup {Level[s] : s \in ToSet(file.findings) \ {"UNDEFINED"}})

LpmInv ==
  /\ CommitsOK /\ scanned \in 0 .. Len(commits)
  /\ \A c : c \in sources <=> \E i \in ScannedSoFar : c \in Brings(i)
  /\ step \in {"files", "releases"} => scanned = Len(commits)
  /\ \A c \in DOMAIN judged : JudgedWell(Committed(c), judged[c])
  /\ EveryFileIsJudged

\* A content that was ever committed is brought by the first commit with it
LEMMA FirstCommitBrings ==
  ASSUME CommitsOK
  PROVE  \A c : Committed(c) <=> \E i \in DOMAIN commits : c \in Brings(i)
<1>1. ASSUME NEW c, NEW i \in DOMAIN commits, c \in Brings(i)
      PROVE  c \in ContentsOf(commits[i].tree)
  <2>1. i # 0 /\ TreeOf(i) = commits[i].tree
    BY DEF CommitsOK, TreeOf
  <2>2. QED
    BY <1>1, <2>1 DEF Brings, Touched, ContentsOf
<1>2. ASSUME NEW c, Committed(c)
      PROVE  \E i \in DOMAIN commits : c \in Brings(i)
  <2> DEFINE T == {i \in DOMAIN commits : c \in ContentsOf(commits[i].tree)}
  <2>1. T # {} /\ T \in SUBSET Nat
    BY <1>2 DEF Committed, CommitsOK
  <2> HIDE DEF T
  <2>2. PICK i \in T : \A j \in T : i <= j
    BY <2>1, LeastNatural
  <2>3. i \in DOMAIN commits /\ i \in Nat /\ i > 0 /\ c \in ContentsOf(commits[i].tree)
    BY <2>2 DEF T, CommitsOK
  <2>4. PICK p \in Path : commits[i].tree[p] = c /\ c # NoFile
    BY <2>3 DEF ContentsOf
  <2> DEFINE q == commits[i].parent
  <2>5. q \in Nat /\ q < i /\ (q # 0 => q \in DOMAIN commits)
    BY <2>3 DEF CommitsOK
  <2>6. q \notin T
    BY <2>2, <2>3, <2>5
  <2>7. TreeOf(q)[p] # c
    <3>1. CASE q = 0
      BY <2>4, <3>1 DEF TreeOf
    <3>2. CASE q # 0
      <4>1. c \notin ContentsOf(commits[q].tree)
        BY <2>5, <2>6, <3>2 DEF T
      <4>2. QED
        BY <2>4, <3>2, <4>1 DEF ContentsOf, TreeOf
    <3>3. QED
      BY <3>1, <3>2
  <2>8. TreeOf(i)[p] = c
    BY <2>3, <2>4 DEF TreeOf
  <2>9. p \in Touched(i)
    BY <2>4, <2>7, <2>8 DEF Touched
  <2>10. c \in Brings(i)
    BY <2>8, <2>9 DEF Brings
  <2>11. QED
    BY <2>3, <2>10
<1>3. QED
  BY <1>1, <1>2 DEF Committed

LEMMA LpmInvInit == LpmInit => LpmInv
<1> SUFFICES ASSUME LpmInit
             PROVE  LpmInv
  OBVIOUS
<1>1. PICK n \in 1 .. MaxCommits :
        commits \in {h \in [1 .. n -> [tree : Tree, parent : 0 .. n - 1]] :
                       \A c \in 1 .. n : h[c].parent < c}
  BY DEF LpmInit
<1>2. n \in Nat /\ DOMAIN commits = 1 .. n /\ Len(commits) = n
  BY <1>1
<1>3. CommitsOK
  BY <1>1, <1>2 DEF CommitsOK
<1>4. ScannedSoFar = {}
  BY <1>2 DEF LpmInit, ScannedSoFar
<1>5. DOMAIN judged = {}
  BY DEF LpmInit
<1>6. QED
  BY <1>2, <1>3, <1>4, <1>5 DEF LpmInit, LpmInv, Unset, EveryFileIsJudged

\* The repository does not change
LEMMA SameRepository ==
  ASSUME commits' = commits
  PROVE  /\ CommitsOK => CommitsOK'
         /\ \A i : Brings(i)' = Brings(i)
         /\ \A c : Committed(c)' = Committed(c)
<1>1. \A i : Brings(i)' = Brings(i)
  BY DEF Brings, TreeOf, Touched
<1>2. \A c : Committed(c)' = Committed(c)
  BY DEF Committed, ContentsOf
<1>3. CommitsOK => CommitsOK'
  BY DEF CommitsOK, Tree
<1>4. QED
  BY <1>1, <1>2, <1>3

\* The property in terms of JudgedWell
FilesWell == result # NoFile =>
  /\ DOMAIN result.files = result.of
  /\ \A c \in result.of : JudgedWell(Committed(c), result.files[c])

LEMMA JudgedIs == EveryFileIsJudged <=> FilesWell
BY DEF EveryFileIsJudged, FilesWell, JudgedWell, Committed

LEMMA LpmInvNext == LpmInv /\ [LpmNext]_lpmVars => LpmInv'
<1> SUFFICES ASSUME LpmInv, [LpmNext]_lpmVars
             PROVE  LpmInv'
  OBVIOUS
<1>a. commits' = commits
  BY DEF LpmNext, lpmVars, PrepareSources, ScanCommit, ScanRelease, AnalyzeFile, FinishRelease, Terminate
<1>b. /\ CommitsOK /\ CommitsOK' /\ scanned \in 0 .. Len(commits) /\ Len(commits) \in Nat
      /\ \A i : Brings(i)' = Brings(i)
      /\ \A c : Committed(c)' = Committed(c)
  BY <1>a, SameRepository DEF LpmInv, CommitsOK
<1>c. /\ \A c : c \in sources <=> \E i \in ScannedSoFar : c \in Brings(i)
      /\ step \in {"files", "releases"} => scanned = Len(commits)
      /\ \A c \in DOMAIN judged : JudgedWell(Committed(c), judged[c])
      /\ FilesWell
  BY JudgedIs DEF LpmInv
<1>d. FilesWell' => EveryFileIsJudged'
  BY DEF EveryFileIsJudged, FilesWell, JudgedWell, Committed
<1>e. ASSUME UNCHANGED <<scanned, sources>>
      PROVE  \A c : c \in sources' <=> \E i \in ScannedSoFar' : c \in Brings(i)'
  <2>1. ScannedSoFar' = ScannedSoFar
    BY <1>a, <1>e DEF ScannedSoFar
  <2>2. QED
    BY <1>b, <1>c, <1>e, <2>1
<1>f. result' = result => EveryFileIsJudged'
  BY <1>b, <1>c, <1>d DEF FilesWell
<1>g. judged' = judged => \A c \in DOMAIN judged' : JudgedWell(Committed(c)', judged'[c])
  BY <1>b, <1>c
<1>1. CASE PrepareSources
  <2>1. UNCHANGED <<scanned, sources, judged, result>> /\ step' \notin {"files", "releases"}
    BY <1>1 DEF PrepareSources, Fail, Clone, Raise
  <2>2. QED
    BY <1>a, <1>b, <1>e, <1>f, <1>g, <2>1 DEF LpmInv
<1>2. CASE ScanCommit
  <2>1. UNCHANGED <<judged, result>> /\ step' \notin {"files", "releases"}
    BY <1>2 DEF ScanCommit, Raise
  <2>2. CASE UNCHANGED <<scanned, sources>>
    BY <1>a, <1>b, <1>e, <1>f, <1>g, <2>1, <2>2 DEF LpmInv
  <2>3. CASE /\ scanned < Len(commits) /\ scanned' = scanned + 1
             /\ head' = Len(commits) - scanned
             /\ sources' = sources \cup {TreeOf(head')[p] : p \in Touched(head')}
    <3>1. sources' = sources \cup Brings(head')
      BY <2>3 DEF Brings
    <3>2. ScannedSoFar' = ScannedSoFar \cup {head'}
      <4>1. head' \in DOMAIN commits /\ head' = Len(commits) - scanned
        BY <1>b, <2>3 DEF CommitsOK
      <4>2. \A i \in DOMAIN commits : i > Len(commits) - (scanned + 1) <=>
              i > Len(commits) - scanned \/ i = Len(commits) - scanned
        BY <1>b DEF CommitsOK
      <4>3. \A i : i \in ScannedSoFar' <=> i \in DOMAIN commits /\ i > Len(commits) - (scanned + 1)
        BY <1>a, <2>3 DEF ScannedSoFar
      <4>4. QED
        BY <4>1, <4>2, <4>3 DEF ScannedSoFar
    <3>3. \A c : c \in sources' <=> \E i \in ScannedSoFar' : c \in Brings(i)'
      BY <1>b, <1>c, <3>1, <3>2
    <3>4. scanned' \in 0 .. Len(commits)
      BY <1>b, <2>3
    <3>5. QED
      BY <1>a, <1>b, <1>f, <1>g, <2>1, <3>3, <3>4 DEF LpmInv
  <2>4. QED
    BY <1>2, <2>2, <2>3 DEF ScanCommit
<1>3. CASE ScanRelease
  <2>1. UNCHANGED <<scanned, sources>> /\ scanned = Len(commits) /\ judged' = <<>> /\ result' = NoFile
    BY <1>3 DEF ScanRelease
  <2>2. DOMAIN judged' = {}
    BY <2>1
  <2>3. QED
    BY <1>a, <1>b, <1>d, <1>e, <2>1, <2>2 DEF LpmInv, FilesWell
<1>4. CASE AnalyzeFile
  <2>1. UNCHANGED <<scanned, sources, result>> /\ step = "files" /\ step' \in {"files", "raised"}
    BY <1>4 DEF AnalyzeFile, Raise
  <2>2. PICK c : /\ c \notin DOMAIN judged
                 /\ \/ c \in sources /\ Judge(c, <<>>, Coherent)
                    \/ /\ c \notin sources
                       /\ \E findings \in Findings : Judge(c, findings, Risk(findings))
                    \/ UNCHANGED judged
    BY <1>4 DEF AnalyzeFile
  <2>3. c \in sources <=> Committed(c)
    <3>1. scanned = Len(commits)
      BY <1>c, <2>1
    <3>2. ScannedSoFar = DOMAIN commits
      BY <1>b, <3>1 DEF ScannedSoFar, CommitsOK
    <3>3. QED
      BY <1>b, <1>c, <3>2, FirstCommitBrings
  <2>4. ASSUME NEW findings, NEW risk, Judge(c, findings, risk),
               JudgedWell(Committed(c), [findings |-> findings, risk |-> risk])
        PROVE  \A d \in DOMAIN judged' : JudgedWell(Committed(d)', judged'[d])
    <3>1. /\ DOMAIN judged' = DOMAIN judged \cup {c}
          /\ judged'[c] = [findings |-> findings, risk |-> risk]
          /\ \A d \in DOMAIN judged : judged'[d] = judged[d]
      BY <2>2, <2>4 DEF Judge
    <3>2. QED
      BY <1>b, <1>c, <2>4, <3>1
  <2>5. \A d \in DOMAIN judged' : JudgedWell(Committed(d)', judged'[d])
    <3>1. CASE c \in sources /\ Judge(c, <<>>, Coherent)
      <4>1. JudgedWell(Committed(c), [findings |-> <<>>, risk |-> Coherent])
        BY <2>3, <3>1 DEF JudgedWell
      <4>2. QED
        BY <2>4, <3>1, <4>1
    <3>2. ASSUME c \notin sources, NEW findings \in Findings, Judge(c, findings, Risk(findings))
          PROVE  \A d \in DOMAIN judged' : JudgedWell(Committed(d)', judged'[d])
      <4>1. JudgedWell(Committed(c), [findings |-> findings, risk |-> Risk(findings)])
        BY <2>3, <3>2, RiskIsWorst DEF JudgedWell
      <4>2. QED
        BY <2>4, <3>2, <4>1
    <3>3. CASE UNCHANGED judged
      BY <1>g, <3>3
    <3>4. QED
      BY <2>2, <3>1, <3>2, <3>3
  <2>6. QED
    BY <1>a, <1>b, <1>c, <1>e, <1>f, <2>1, <2>5 DEF LpmInv
<1>5. CASE FinishRelease
  <2>1. /\ UNCHANGED <<scanned, sources, judged>> /\ step = "files" /\ ContentsOf(release) = DOMAIN judged
        /\ result'.of = ContentsOf(release) /\ result'.files = judged
    BY <1>5 DEF FinishRelease
  <2>2. EveryFileIsJudged'
    <3>1. FilesWell'
      BY <1>b, <1>c, <2>1 DEF FilesWell
    <3>2. QED
      BY <1>d, <3>1
  <2>3. QED
    BY <1>a, <1>b, <1>c, <1>e, <1>g, <2>1, <2>2 DEF LpmInv
<1>6. CASE Terminate
  <2>1. UNCHANGED <<scanned, sources, judged, result>> /\ step' = "ended"
    BY <1>6 DEF Terminate
  <2>2. QED
    BY <1>a, <1>b, <1>e, <1>f, <1>g, <2>1 DEF LpmInv
<1>7. CASE UNCHANGED lpmVars
  <2>1. UNCHANGED <<scanned, sources, judged, result, step>>
    BY <1>7 DEF lpmVars
  <2>2. QED
    BY <1>a, <1>b, <1>c, <1>e, <1>f, <1>g, <2>1 DEF LpmInv
<1>8. QED
  BY <1>1, <1>2, <1>3, <1>4, <1>5, <1>6, <1>7 DEF LpmNext

\* lastpymile: for any history of commits, with any branches, and any findings
\* of bandit, the files of a release are the ones its result is about, a file
\* that was ever committed is coherent and another one has its worst risk
THEOREM FilesAreJudged == LpmSpec => []EveryFileIsJudged
<1>1. LpmInv => EveryFileIsJudged
  BY DEF LpmInv
<1>2. QED
  BY <1>1, LpmInvInit, LpmInvNext, PTL DEF LpmSpec

------------------------------------------------------------------------------
(* The list of tasks: WalkMissesNothing                                    *)

\* How manieth t is in S, from the greatest f down
Rank(S, f, t) == Cardinality({u \in S : f[u] >= f[t]})

\* The ranks in a finite set are 1, 2, ... without a gap
LEMMA RanksAreAll ==
  ASSUME NEW S, IsFiniteSet(S), NEW f, \A t \in S : f[t] \in Nat,
         \A t, u \in S : f[t] = f[u] => t = u
  PROVE  [t \in S |-> Rank(S, f, t)] \in Bijection(S, 1 .. Cardinality(S))
<1> DEFINE Above(t) == {u \in S : f[u] >= f[t]}
           n == Cardinality(S)
           g == [t \in S |-> Rank(S, f, t)]
<1>1. \A t \in S : IsFiniteSet(Above(t)) /\ Cardinality(Above(t)) <= n /\ t \in Above(t)
  <2> TAKE t \in S
  <2>1. Above(t) \in SUBSET S /\ t \in Above(t)
    OBVIOUS
  <2>2. QED
    BY <2>1, FS_Subset
<1>2. n \in Nat
  BY FS_CardinalityType
<1>3. \A t \in S : Cardinality(Above(t)) \in 1 .. n
  <2> TAKE t \in S
  <2>1. Cardinality(Above(t)) \in Nat /\ Cardinality(Above(t)) # 0
    BY <1>1, FS_CardinalityType, FS_EmptySet
  <2>2. QED
    BY <1>1, <1>2, <2>1
<1>4. \A t, u \in S : f[t] > f[u] => Cardinality(Above(t)) # Cardinality(Above(u))
  <2> SUFFICES ASSUME NEW t \in S, NEW u \in S, f[t] > f[u]
               PROVE  Cardinality(Above(t)) # Cardinality(Above(u))
    OBVIOUS
  <2>1. Above(t) \in SUBSET Above(u) /\ u \notin Above(t) /\ u \in Above(u)
    OBVIOUS
  <2>2. QED
    BY <1>1, <2>1, FS_Subset
<1>5. \A t, u \in S : t # u => f[t] > f[u] \/ f[u] > f[t]
  OBVIOUS
<1>6. \A t, u \in S : Cardinality(Above(t)) = Cardinality(Above(u)) => t = u
  BY <1>4, <1>5
<1>7. \A t \in S : g[t] = Cardinality(Above(t))
  BY DEF Rank
<1> HIDE DEF Above, g
<1>8. g \in Injection(S, 1 .. n)
  <2>1. g \in [S -> 1 .. n]
    <3>1. g = [t \in S |-> g[t]]
      BY DEF g
    <3>2. QED
      BY <1>3, <1>7, <3>1
  <2>2. \A t, u \in S : g[t] = g[u] => t = u
    BY <1>6, <1>7
  <2>3. QED
    BY <2>1, <2>2 DEF Injection, IsInjective
<1>9. IsFiniteSet(1 .. n) /\ Cardinality(1 .. n) = n
  BY <1>2, FS_Interval
<1>10. g \in Surjection(S, 1 .. n)
  BY <1>8, <1>9, FS_Injection
<1>11. QED
  BY <1>8, <1>10 DEF Bijection, g

\* A page before a later one is full
LEMMA PageIsFull ==
  ASSUME NEW S, IsFiniteSet(S), NEW f, \A t \in S : f[t] \in Nat,
         \A t, u \in S : f[t] = f[u] => t = u,
         NEW from \in Nat, NEW size \in Nat, NEW last \in S, Rank(S, f, last) >= from + size, from > 0
  PROVE  Cardinality({t \in S : Rank(S, f, t) \in from .. from + size - 1}) = size
<1> DEFINE g == [t \in S |-> Rank(S, f, t)]
           I == from .. from + size - 1
           P == {t \in S : g[t] \in I}
           h == [t \in P |-> g[t]]
<1>1. g \in Bijection(S, 1 .. Cardinality(S))
  BY RanksAreAll
<1>2. Cardinality(S) \in Nat /\ g[last] \in 1 .. Cardinality(S) /\ g[last] >= from + size
  <2>1. Cardinality(S) \in Nat
    BY FS_CardinalityType
  <2>2. g[last] = Rank(S, f, last)
    OBVIOUS
  <2> HIDE DEF g
  <2>3. g[last] \in 1 .. Cardinality(S)
    BY <1>1 DEF Bijection, Injection
  <2>4. QED
    BY <2>1, <2>2, <2>3
<1>3. I \subseteq 1 .. Cardinality(S)
  BY <1>2
<1>4. \A k \in I : \E t \in S : g[t] = k
  BY <1>1, <1>3 DEF Bijection, Surjection
<1>5. \A t, u \in S : g[t] = g[u] => t = u
  <2> HIDE DEF g
  <2>1. QED
    BY <1>1 DEF Bijection, Injection, IsInjective
<1> HIDE DEF g, I
<1>6. h \in [P -> I]
  OBVIOUS
<1>7. \A t, u \in P : h[t] = h[u] => t = u
  BY <1>5
<1>8. \A k \in I : \E t \in P : h[t] = k
  BY <1>4
<1> HIDE DEF P, h
<1>9. h \in Bijection(P, I)
  BY <1>6, <1>7, <1>8 DEF Bijection, Injection, Surjection, IsInjective
<1>10. IsFiniteSet(P)
  BY FS_Subset DEF P
<1>11. Cardinality(P) = Cardinality(I)
  BY <1>9, <1>10, FS_Bijection DEF ExistsBijection
<1>12. Cardinality(I) = size
  <2>1. /\ from \in Int /\ from + size - 1 \in Int
        /\ (IF from > from + size - 1 THEN 0 ELSE (from + size - 1) - from + 1) = size
    OBVIOUS
  <2>2. QED
    BY <2>1, FS_Interval DEF I
<1>13. QED
  BY <1>11, <1>12 DEF P, g, I

AnyStatus == Statuses \cup {"absent", "deleted"}

ApiTypeOK ==
  /\ status \in [Id -> AnyStatus] /\ created \in [Id -> Nat]
  /\ DOMAIN call = {"op", "scope", "page", "seen", "stayed", "left"}
  /\ call.scope \subseteq Statuses /\ call.page \in Nat \ {0}


\* No two tasks were created at once
CreatedOK ==
  /\ IsFiniteSet(Ever)
  /\ \A t \in Ever : created[t] <= Cardinality(Ever)
  /\ \A t, u \in Ever : created[t] = created[u] => t = u

\* What the walk has not shown yet is on a page that is still to come
WalkOK == ~call.left =>
  /\ call.op \in {"list", "listed"} =>
       \A t \in call.stayed : t \in Rows(call.scope)
  /\ call.op = "list" =>
       \A t \in call.stayed : t \in call.seen \/ Place(t) > (call.page - 1) * PageSize
  /\ call.op = "listed" => call.stayed \subseteq call.seen

ApiInv == ApiTypeOK /\ CreatedOK /\ WalkOK /\ overdue \subseteq Id

LEMMA PlaceIsRank == \A t : Place(t) = Rank(Rows(call.scope), created, t)
BY DEF Place, Rank

\* The tasks of a list can be told apart by their creation
LEMMA ListIsOrdered ==
  ASSUME ApiTypeOK, CreatedOK
  PROVE  LET S == Rows(call.scope)
         IN /\ IsFiniteSet(S) /\ S \subseteq Ever /\ S \subseteq Id
            /\ \A t \in S : created[t] \in Nat
            /\ \A t, u \in S : created[t] = created[u] => t = u
<1> DEFINE S == Rows(call.scope)
<1>1. S \subseteq Ever /\ S \subseteq Id
  BY DEF ApiTypeOK, Rows, Ever, Statuses
<1>2. IsFiniteSet(S)
  BY <1>1, FS_Subset DEF CreatedOK
<1>3. QED
  BY <1>1, <1>2 DEF ApiTypeOK, CreatedOK

LEMMA ApiInvInit == ApiInit => ApiInv
<1> SUFFICES ASSUME ApiInit
             PROVE  ApiInv
  OBVIOUS
<1>1. status = [t \in Id |-> "absent"]
  BY DEF ApiInit
<1>2. Ever = {}
  BY <1>1 DEF Ever
<1>3. ApiTypeOK
  BY <1>1 DEF ApiInit, ApiTypeOK, AnyStatus
<1>4. CreatedOK
  BY <1>2, FS_EmptySet DEF CreatedOK
<1>5. WalkOK
  BY DEF ApiInit, WalkOK
<1>6. QED
  BY <1>3, <1>4, <1>5 DEF ApiInv, ApiInit

\* A task is created, or those that were change
LEMMA LifecycleStep ==
  ASSUME status \in [Id -> AnyStatus], Lifecycle!Next
  PROVE  /\ status' \in [Id -> AnyStatus]
         /\ \E t \in Id : /\ \A u \in Id \ {t} : status[u] = "absent" <=> status'[u] = "absent"
                          /\ status[t] = "absent" => status'[t] = "pending"
                          /\ status'[t] # "absent"
<1>1. CASE \E late, queue \in SUBSET Id : Lifecycle!SaveMany(late, queue)
  <2>1. PICK late, queue \in SUBSET Id : Lifecycle!SaveMany(late, queue)
    BY <1>1
  <2>2. /\ late \cup queue # {}
        /\ \A t \in late \cup queue : status[t] # "absent"
        /\ status' = [t \in Id |-> IF t \in late THEN "failed"
                                   ELSE IF t \in queue THEN "queued" ELSE status[t]]
    BY <2>1 DEF Lifecycle!SaveMany, Lifecycle!Live
  <2>3. status' \in [Id -> AnyStatus]
    BY <2>2 DEF AnyStatus, Statuses
  <2>4. \A u \in Id : status[u] = "absent" <=> status'[u] = "absent"
    BY <2>2
  <2>5. QED
    BY <2>2, <2>3, <2>4
<1>2. CASE \E t \in Id : Lifecycle!Analyse(t)
  BY <1>2 DEF Lifecycle!Analyse, Lifecycle!Live
<1>3. CASE \E t \in Id : Lifecycle!Create(t) \/ Lifecycle!Queue(t) \/ Lifecycle!Save(t)
                           \/ Lifecycle!Remove(t)
  <2>1. PICK t \in Id : Lifecycle!Create(t) \/ Lifecycle!Queue(t) \/ Lifecycle!Save(t)
                           \/ Lifecycle!Remove(t)
    BY <1>3
  <2>2. \E to \in AnyStatus : /\ status' = [status EXCEPT ![t] = to] /\ to # "absent"
                              /\ status[t] = "absent" => to = "pending"
    BY <2>1 DEF Lifecycle!Create, Lifecycle!Queue, Lifecycle!Save, Lifecycle!Remove,
                Lifecycle!Become, Lifecycle!Live, Lifecycle!Ended, AnyStatus, Statuses
  <2>3. QED
    BY <2>2
<1>4. QED
  BY <1>1, <1>2, <1>3 DEF Lifecycle!Next

\* What happens to the queue during a walk
LEMMA WatchedWalk ==
  ASSUME ApiTypeOK, CreatedOK, WalkOK, CreatedOK', status' \in [Id -> AnyStatus], created' \in [Id -> Nat],
         Watch, \A t \in Ever : created'[t] = created[t] /\ status'[t] # "absent"
  PROVE  WalkOK' /\ ApiTypeOK'
<1> DEFINE S == Rows(call.scope)
           T == {t \in Id : status'[t] \in call.scope}
<1>1. /\ call'.op = call.op /\ call'.scope = call.scope /\ call'.page = call.page
      /\ call'.seen = call.seen /\ call'.stayed = call.stayed \cap T
      /\ call'.left <=> call.left \/ ~(S \subseteq T)
      /\ DOMAIN call' = DOMAIN call
  BY DEF ApiTypeOK, Watch
<1>2. Rows(call.scope)' = T
  BY <1>1 DEF Rows
<1>3. ApiTypeOK'
  BY <1>1 DEF ApiTypeOK
<1>4. ASSUME ~call'.left, NEW t \in S, t \in T
      PROVE  Place(t)' >= Place(t)
  <2> DEFINE A == {u \in S : created[u] >= created[t]}
             B == {u \in T : created'[u] >= created'[t]}
  <2>1. S \subseteq T /\ S \subseteq Ever
    BY <1>1, <1>4, ListIsOrdered
  <2>2. \A u \in S : created'[u] = created[u]
    BY <2>1
  <2>3. A \in SUBSET B
    BY <1>4, <2>1, <2>2
  <2>4. T \subseteq Ever'
    BY <1>2, <1>3, ListIsOrdered DEF Ever, ApiTypeOK, Statuses
  <2>5. IsFiniteSet(B)
    BY <2>4, FS_Subset DEF CreatedOK
  <2> HIDE DEF A, B
  <2>6. Cardinality(A) <= Cardinality(B) /\ IsFiniteSet(A)
    BY <2>3, <2>5, FS_Subset
  <2>7. Cardinality(A) \in Nat /\ Cardinality(B) \in Nat
    BY <2>5, <2>6, FS_CardinalityType
  <2>8. Place(t) = Cardinality(A) /\ Place(t)' = Cardinality(B)
    BY <1>2 DEF Place, A, B
  <2>9. QED
    BY <2>6, <2>7, <2>8
<1>5. ASSUME ~call'.left
      PROVE  /\ call'.op \in {"list", "listed"} => \A t \in call'.stayed : t \in T
             /\ call'.op = "list" => \A t \in call'.stayed :
                  t \in call'.seen \/ Place(t)' > (call'.page - 1) * PageSize
             /\ call'.op = "listed" => call'.stayed \subseteq call'.seen
  <2>1. ~call.left /\ call'.stayed \subseteq T
    BY <1>1, <1>5
  <2>2. ASSUME call.op = "list", NEW t \in call.stayed, t \in T
        PROVE  t \in call.seen \/ Place(t)' > (call.page - 1) * PageSize
    <3>1. t \in S /\ (t \in call.seen \/ Place(t) > (call.page - 1) * PageSize)
      BY <2>1, <2>2 DEF WalkOK
    <3> DEFINE k == (call.page - 1) * PageSize
    <3>2. k \in Nat
      BY PageConstants DEF ApiTypeOK
    <3>3. Place(t) \in Nat /\ Place(t)' \in Nat
      <4>1. \A R : IsFiniteSet(R) => Cardinality(R) \in Nat
        BY FS_CardinalityType
      <4>2. IsFiniteSet(S) /\ IsFiniteSet(T)
        <5>1. T \subseteq Ever'
          BY <1>2, <1>3, ListIsOrdered DEF Ever, ApiTypeOK, Statuses
        <5>2. QED
          BY <5>1, FS_Subset, ListIsOrdered DEF CreatedOK
      <4>3. /\ IsFiniteSet({u \in S : created[u] >= created[t]})
            /\ IsFiniteSet({u \in T : created'[u] >= created'[t]})
        BY <4>2, FS_Subset
      <4>4. QED
        BY <1>2, <4>1, <4>3 DEF Place
    <3>4. Place(t)' >= Place(t)
      BY <1>4, <1>5, <2>2, <3>1
    <3> HIDE DEF k
    <3>5. \A a, b, c \in Nat : a > b /\ c >= a => c > b
      OBVIOUS
    <3>6. t \in call.seen \/ Place(t)' > k
      <4>1. CASE t \in call.seen
        BY <4>1
      <4>2. CASE Place(t) > k
        BY <3>2, <3>3, <3>4, <3>5, <4>2, Zenon
      <4>3. QED
        BY <3>1, <4>1, <4>2 DEF k
    <3>7. QED
      BY <3>6 DEF k
  <2>3. call.op = "listed" => call.stayed \subseteq call.seen
    BY <2>1 DEF WalkOK
  <2> HIDE DEF S, T
  <2>4. QED
    BY <1>1, <2>1, <2>2, <2>3
<1>6. WalkOK'
  BY <1>2, <1>5 DEF WalkOK
<1>7. QED
  BY <1>3, <1>6

LEMMA EvolveKeeps == ApiInv /\ Evolve => ApiInv'
<1> SUFFICES ASSUME ApiInv, Evolve
             PROVE  ApiInv'
  OBVIOUS
<1>1. ApiTypeOK /\ CreatedOK /\ WalkOK /\ overdue \subseteq Id
  BY DEF ApiInv
<1>2. /\ Lifecycle!Next /\ Watch
      /\ created' = [t \in Id |-> IF status[t] = "absent" /\ status'[t] = "pending"
                                  THEN Cardinality(Ever) + 1 ELSE created[t]]
      /\ overdue' \subseteq Id
  BY <1>1 DEF Evolve
<1>3. status \in [Id -> AnyStatus] /\ created \in [Id -> Nat]
  BY <1>1 DEF ApiTypeOK
<1>4. status' \in [Id -> AnyStatus]
  BY <1>2, <1>3, LifecycleStep
<1>5. PICK t \in Id : /\ \A u \in Id \ {t} : status[u] = "absent" <=> status'[u] = "absent"
                      /\ status[t] = "absent" => status'[t] = "pending"
                      /\ status'[t] # "absent"
  BY <1>2, <1>3, LifecycleStep
<1>6. Ever' = Ever \cup {t} /\ Ever \subseteq Id
  BY <1>5 DEF Ever
<1>7. Cardinality(Ever) \in Nat
  BY <1>1, FS_CardinalityType DEF CreatedOK
<1>8. IsFiniteSet(Ever') /\ Cardinality(Ever') = IF t \in Ever THEN Cardinality(Ever) ELSE Cardinality(Ever) + 1
  BY <1>1, <1>6, FS_AddElement DEF CreatedOK
<1>9. \A u \in Ever : created'[u] = created[u] /\ status'[u] # "absent"
  BY <1>2, <1>5 DEF Ever
<1>10. t \notin Ever => created'[t] = Cardinality(Ever) + 1
  BY <1>2, <1>5 DEF Ever
<1>11. created' \in [Id -> Nat]
  BY <1>2, <1>3, <1>7
<1>12. CreatedOK'
  <2>1. \A u \in Ever : created[u] \in Nat /\ created[u] <= Cardinality(Ever)
    BY <1>1, <1>3, <1>6 DEF CreatedOK
  <2>2. CASE t \in Ever
    <3>1. Ever' = Ever
      BY <1>6, <2>2
    <3>2. QED
      BY <1>1, <1>9, <3>1 DEF CreatedOK
  <2>3. CASE t \notin Ever
    <3>1. \A u \in Ever : created'[u] # Cardinality(Ever) + 1 /\ created'[u] <= Cardinality(Ever) + 1
      BY <1>7, <1>9, <2>1
    <3>2. \A u, v \in Ever : created'[u] = created'[v] => u = v
      BY <1>1, <1>9 DEF CreatedOK
    <3>3. Cardinality(Ever') = Cardinality(Ever) + 1 /\ created'[t] = Cardinality(Ever) + 1
      BY <1>8, <1>10, <2>3
    <3>4. \A u \in Ever' : created'[u] <= Cardinality(Ever')
      <4>1. Cardinality(Ever) + 1 <= Cardinality(Ever) + 1
        BY <1>7
      <4>2. QED
        BY <1>6, <3>1, <3>3, <4>1
    <3>5. \A u, v \in Ever' : created'[u] = created'[v] => u = v
      BY <1>6, <3>1, <3>2, <3>3
    <3>6. QED
      BY <1>8, <3>4, <3>5 DEF CreatedOK
  <2>4. QED
    BY <2>2, <2>3
<1>13. WalkOK' /\ ApiTypeOK'
  BY <1>1, <1>2, <1>4, <1>9, <1>11, <1>12, WatchedWalk
<1>14. QED
  BY <1>2, <1>12, <1>13 DEF ApiInv

LEMMA CheckKeeps == ApiInv /\ Check => ApiInv'
<1> SUFFICES ASSUME ApiInv, Check
             PROVE  ApiInv'
  OBVIOUS
<1>1. ApiTypeOK /\ CreatedOK /\ WalkOK /\ overdue \subseteq Id
  BY DEF ApiInv
<1>2. overdue' = {} /\ created' = created
  BY DEF Check
<1>3. CASE overdue = {}
  <2>1. UNCHANGED <<status, call>>
    BY <1>3 DEF Check
  <2>2. Ever' = Ever /\ ApiTypeOK'
    BY <1>1, <1>2, <2>1 DEF Ever, ApiTypeOK
  <2>3. \A t : Place(t)' = Place(t) /\ Rows(call.scope)' = Rows(call.scope)
    BY <1>2, <2>1 DEF Place, Rows
  <2>4. CreatedOK' /\ WalkOK'
    BY <1>1, <1>2, <2>1, <2>2, <2>3 DEF CreatedOK, WalkOK
  <2>5. QED
    BY <1>2, <2>2, <2>4 DEF ApiInv
<1>4. CASE overdue # {}
  <2>1. Lifecycle!SaveMany(overdue, {}) /\ status \in [Id -> AnyStatus]
    BY <1>1, <1>4 DEF Check, ApiTypeOK
  <2>2. Watch
    BY <1>4 DEF Check
  <2>3. /\ status' = [t \in Id |-> IF t \in overdue THEN "failed" ELSE status[t]]
        /\ \A t \in overdue : status[t] # "absent"
        /\ status \in [Id -> AnyStatus]
    BY <2>1 DEF Lifecycle!SaveMany, Lifecycle!Live
  <2>4. status' \in [Id -> AnyStatus]
    BY <2>3 DEF AnyStatus, Statuses
  <2>5. Ever' = Ever /\ \A u \in Ever : status'[u] # "absent"
    BY <2>3 DEF Ever
  <2>6. CreatedOK'
    BY <1>1, <1>2, <2>5 DEF CreatedOK
  <2>7. created' \in [Id -> Nat]
    BY <1>1, <1>2 DEF ApiTypeOK
  <2>8. WalkOK' /\ ApiTypeOK'
    BY <1>1, <1>2, <2>2, <2>4, <2>5, <2>6, <2>7, WatchedWalk
  <2>9. QED
    BY <1>2, <2>6, <2>8 DEF ApiInv
<1>5. QED
  BY <1>3, <1>4

\* The page shows what is on it, and when it is not full there is nothing more
LEMMA ListPageKeeps == ApiInv /\ ListPage => ApiInv'
<1> SUFFICES ASSUME ApiInv, ListPage
             PROVE  ApiInv'
  OBVIOUS
<1> DEFINE from  == (call.page - 1) * PageSize + 1
           items == Page(from)
           S     == Rows(call.scope)
<1>1. ApiTypeOK /\ CreatedOK /\ WalkOK /\ overdue \subseteq Id
  BY DEF ApiInv
<1>2. /\ call.op = "list" /\ UNCHANGED <<status, created, overdue>>
      /\ call' = [call EXCEPT !.seen = @ \cup items, !.page = @ + 1,
                    !.op = IF Cardinality(items) < PageSize THEN "listed" ELSE "list"]
  BY DEF ListPage
<1> HIDE DEF items
<1>3. /\ call'.seen = call.seen \cup items /\ call'.page = call.page + 1
      /\ call'.op = IF Cardinality(items) < PageSize THEN "listed" ELSE "list"
      /\ call'.scope = call.scope /\ call'.stayed = call.stayed /\ call'.left = call.left
      /\ DOMAIN call' = DOMAIN call
  BY <1>1, <1>2 DEF ApiTypeOK
<1>4. ApiTypeOK'
  BY <1>1, <1>2, <1>3 DEF ApiTypeOK
<1>5. Ever' = Ever /\ Rows(call.scope)' = S /\ \A t : Place(t)' = Place(t)
  BY <1>2, <1>3 DEF Ever, Rows, Place
<1>6. CreatedOK'
  BY <1>1, <1>2, <1>5 DEF CreatedOK
<1>7. /\ from \in Nat /\ from > 0 /\ PageSize \in Nat /\ PageSize > 0
      /\ (call'.page - 1) * PageSize = from + PageSize - 1
  <2>1. call.page \in Nat /\ call.page > 0 /\ PageSize \in Nat /\ PageSize > 0
    BY <1>1, PageConstants DEF ApiTypeOK
  <2>2. \A a, b \in Nat : a > 0 => \A c : c = a + 1 =>
          (a - 1) * b \in Nat /\ (c - 1) * b = (a - 1) * b + b
    OBVIOUS
  <2>3. (call.page - 1) * PageSize \in Nat /\ (call'.page - 1) * PageSize = (call.page - 1) * PageSize + PageSize
    <3>1. call'.page = call.page + 1
      BY <1>3
    <3>2. QED
      BY <2>1, <2>2, <3>1, Zenon
  <2> DEFINE k == (call.page - 1) * PageSize
  <2>4. k \in Nat /\ from = k + 1 /\ (call'.page - 1) * PageSize = k + PageSize
    BY <2>3
  <2> HIDE DEF k, from
  <2>5. QED
    BY <2>1, <2>4
<1>8. /\ IsFiniteSet(S) /\ \A t \in S : created[t] \in Nat
      /\ \A t, u \in S : created[t] = created[u] => t = u
  BY <1>1, ListIsOrdered
<1>9. ASSUME ~call.left, NEW t \in call.stayed, t \notin call'.seen
      PROVE  t \in S /\ Place(t) >= from + PageSize /\ Place(t) \in Nat
  <2>1. t \in S /\ Place(t) > (call.page - 1) * PageSize
    BY <1>1, <1>2, <1>3, <1>9 DEF WalkOK
  <2>2. Place(t) \in Nat
    <3>1. IsFiniteSet({u \in S : created[u] >= created[t]})
      BY <1>8, FS_Subset
    <3>2. QED
      BY <3>1, FS_CardinalityType DEF Place
  <2>3. Place(t) \notin from .. from + PageSize - 1
    BY <1>3, <1>9, <2>1 DEF items, Page
  <2>4. Place(t) >= from
    <3> DEFINE k == (call.page - 1) * PageSize
    <3>1. k \in Int /\ from = k + 1 /\ Place(t) > k
      BY <1>1, <2>1, PageConstants DEF ApiTypeOK
    <3> HIDE DEF k, from
    <3>2. QED
      BY <2>2, <3>1
  <2> HIDE DEF from
  <2>5. QED
    BY <1>7, <2>1, <2>2, <2>3, <2>4
<1> HIDE DEF from
<1>10. ASSUME ~call.left, NEW t \in call.stayed, t \notin call'.seen
       PROVE  Cardinality(items) = PageSize
  <2>1. t \in S /\ Rank(S, created, t) >= from + PageSize
    BY <1>9, <1>10, PlaceIsRank
  <2>2. items = {u \in S : Rank(S, created, u) \in from .. from + PageSize - 1}
    BY PlaceIsRank DEF items, Page
  <2> HIDE DEF S
  <2>3. QED
    BY <1>7, <1>8, <2>1, <2>2, PageIsFull
<1>11. WalkOK'
  <2> SUFFICES ASSUME ~call'.left
               PROVE  /\ \A t \in call'.stayed : t \in Rows(call.scope)'
                      /\ call'.op = "list" =>
                           \A t \in call'.stayed : t \in call'.seen \/ Place(t)' > (call'.page - 1) * PageSize
                      /\ call'.op = "listed" => call'.stayed \subseteq call'.seen
    BY DEF WalkOK
  <2>1. ~call.left
    BY <1>3
  <2>2. \A t \in call'.stayed : t \in Rows(call.scope)'
    BY <1>1, <1>2, <1>3, <1>5, <2>1 DEF WalkOK
  <2>3. ASSUME NEW t \in call'.stayed, t \notin call'.seen
        PROVE  Place(t)' > (call'.page - 1) * PageSize
    <3>1. Place(t) >= from + PageSize /\ Place(t) \in Nat
      BY <1>3, <1>9, <2>1, <2>3
    <3>2. Place(t) > from + PageSize - 1
      BY <1>7, <3>1
    <3>3. QED
      BY <1>5, <1>7, <3>2
  <2>4. call'.op = "listed" => call'.stayed \subseteq call'.seen
    <3>1. ASSUME call'.op = "listed", NEW t \in call'.stayed, t \notin call'.seen
          PROVE  FALSE
      <4>1. Cardinality(items) = PageSize
        BY <1>3, <1>10, <2>1, <3>1
      <4>2. Cardinality(items) < PageSize
        BY <1>3, <3>1
      <4>3. QED
        BY <1>7, <4>1, <4>2
    <3>2. QED
      BY <3>1
  <2>5. QED
    BY <2>2, <2>3, <2>4
<1>12. QED
  BY <1>1, <1>2, <1>4, <1>6, <1>11 DEF ApiInv

\* The queue stays as it is, and no walk is going on
LEMMA NoWalk ==
  ASSUME ApiInv, UNCHANGED <<status, created>>, overdue' \subseteq Id,
         DOMAIN call' = DOMAIN call, call'.scope \subseteq Statuses, call'.page \in Nat \ {0},
         call'.op \notin {"list", "listed"}
  PROVE  ApiInv'
<1>1. ApiTypeOK /\ CreatedOK
  BY DEF ApiInv
<1>2. ApiTypeOK'
  BY <1>1 DEF ApiTypeOK
<1>3. Ever' = Ever
  BY DEF Ever
<1>4. CreatedOK'
  BY <1>1, <1>3 DEF CreatedOK
<1>5. WalkOK'
  BY DEF WalkOK
<1>6. QED
  BY <1>2, <1>4, <1>5 DEF ApiInv

LEMMA ApiInvNext == ApiInv /\ [ApiNext]_apiVars => ApiInv'
<1> SUFFICES ASSUME ApiInv, [ApiNext]_apiVars
             PROVE  ApiInv'
  OBVIOUS
<1>a. ApiTypeOK /\ CreatedOK /\ WalkOK /\ overdue \subseteq Id
  BY DEF ApiInv
<1>b. Rows({"running"}) \subseteq Id
  BY DEF Rows
<1>1. CASE Evolve
  BY <1>1, EvolveKeeps
<1>2. CASE Check
  BY <1>2, CheckKeeps
<1>3. CASE ListPage
  BY <1>3, ListPageKeeps
<1>4. ASSUME UNCHANGED <<status, created, call>>, overdue' \subseteq Id
      PROVE  ApiInv'
  <2>1. Ever' = Ever /\ \A t : Place(t)' = Place(t) /\ Rows(call.scope)' = Rows(call.scope)
    BY <1>4 DEF Ever, Place, Rows
  <2>2. ApiTypeOK' /\ CreatedOK'
    BY <1>a, <1>4, <2>1 DEF ApiTypeOK, CreatedOK
  <2>3. WalkOK'
    BY <1>a, <1>4, <2>1 DEF WalkOK
  <2>4. QED
    BY <1>4, <2>2, <2>3 DEF ApiInv
<1>5. CASE TimePasses
  BY <1>b, <1>4, <1>5 DEF TimePasses
<1>6. CASE UNCHANGED apiVars
  BY <1>a, <1>4, <1>6 DEF apiVars
<1>7. CASE AskForList
  <2>1. PICK scope \in {Statuses} \cup {{s} : s \in Statuses} : Begin("list", scope)
    BY <1>7 DEF AskForList
  <2>2. /\ UNCHANGED <<status, created, overdue>> /\ scope \subseteq Statuses
        /\ DOMAIN call' = DOMAIN call /\ call'.scope = scope /\ call'.page = 1 /\ call'.op = "list"
        /\ call'.stayed = Rows(scope)
    BY <1>a, <1>7, <2>1 DEF AskForList, Begin, ApiTypeOK
  <2>3. ApiTypeOK'
    BY <1>a, <2>2 DEF ApiTypeOK
  <2>4. Ever' = Ever /\ Rows(call.scope)' = Rows(scope)
    BY <2>2 DEF Ever, Rows
  <2>5. CreatedOK'
    BY <1>a, <2>2, <2>4 DEF CreatedOK
  <2>6. ASSUME NEW t \in Rows(scope)
        PROVE  Place(t)' > 0
    <3> DEFINE A == {u \in Rows(scope) : created[u] >= created[t]}
    <3>1. Rows(scope) \subseteq Ever /\ created[t] \in Nat
      BY <1>a, <2>2 DEF Rows, Ever, Statuses, ApiTypeOK
    <3>2. t \in A /\ A \in SUBSET Ever
      BY <3>1
    <3>3. Place(t)' = Cardinality(A)
      BY <2>2, <2>4 DEF Place
    <3> HIDE DEF A
    <3>4. IsFiniteSet(A) /\ A # {}
      BY <1>a, <3>2, FS_Subset DEF CreatedOK
    <3>5. Cardinality(A) \in Nat /\ Cardinality(A) # 0
      BY <3>4, FS_CardinalityType, FS_EmptySet
    <3>6. QED
      BY <3>3, <3>5
  <2>7. (call'.page - 1) * PageSize = 0
    BY <2>2, PageConstants
  <2>8. WalkOK'
    BY <2>2, <2>4, <2>6, <2>7 DEF WalkOK
  <2>9. QED
    BY <1>a, <2>2, <2>3, <2>5, <2>8 DEF ApiInv
<1>8. CASE AskForQueue
  BY <1>a, <1>8, NoWalk DEF AskForQueue, Begin, ApiTypeOK, Statuses
<1>9. CASE AskForTimeouts
  BY <1>a, <1>9, NoWalk DEF AskForTimeouts, Begin, ApiTypeOK, Statuses
<1>10. CASE ListByStatus
  BY <1>a, <1>10, NoWalk DEF ListByStatus, ApiTypeOK
<1>11. CASE TellTimeouts
  BY <1>a, <1>11, NoWalk DEF TellTimeouts, ApiTypeOK
<1>12. CASE Answer
  <2>1. /\ UNCHANGED <<status, created, overdue>>
        /\ DOMAIN call' = DOMAIN call /\ call'.op = "none" /\ call'.scope = {} /\ call'.page = 1
    BY <1>a, <1>12 DEF Answer, End, ApiTypeOK
  <2>2. QED
    BY <1>a, <2>1, NoWalk
<1>13. QED
  BY <1>1, <1>2, <1>3, <1>5, <1>6, <1>7, <1>8, <1>9, <1>10, <1>11, <1>12 DEF ApiNext

\* list_tasks_api: a client that asks for one page after the other, until one
\* is not full, has seen every task that was in the list all the time, whatever
\* is created and changes in between, unless a task left the list
THEOREM WalksMissNothing == ApiSpec => []WalkMissesNothing
<1>1. ApiInv => WalkMissesNothing
  BY DEF ApiInv, WalkOK, WalkMissesNothing
<1>2. QED
  BY <1>1, ApiInvInit, ApiInvNext, PTL DEF ApiSpec
=============================================================================
