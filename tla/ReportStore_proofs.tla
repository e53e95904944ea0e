-------------------------- MODULE ReportStore_proofs --------------------------
(***************************************************************************)
(* DownloadIsLinked and TypeOK for any number of packages, keys, tasks and *)
(* clients.                                                                *)
(*                                                                         *)
(* The induction follows a report from the task that saves it over the     *)
(* link to it to the copy that is downloaded.  It rests on three facts:    *)
(* under a key of Redis there is only what belongs to a package with that  *)
(* key; a package's report is saved once, and never changes; and so only   *)
(* one task gets as far as to link a report to the package, and the link   *)
(* that somebody publishes is still the package's when he does.            *)
(***************************************************************************)
EXTENDS ReportStore, TLAPS

Content == [of : Package, n : Nat]
Places == {"idle", "store", "save", "latest", "complete", "fetch", "look", "copy"}

Typed ==
  /\ report \in [Package -> Content \cup {None}] /\ newest \in Package \cup {None}
  /\ linked \in [Package -> Package \cup {None}]
  /\ large \in [Key -> Content \cup {None}] /\ copy \in [Key -> Content \cup {None}]
  /\ pc \in [Actor -> Places]
  /\ pkg \in [Actor -> Package \cup {None}] /\ link \in [Actor -> Package \cup {None}]
  /\ data \in [Actor -> Content \cup {None}]
  /\ analyses \in Nat

\* What the database and Redis hold
Rows ==
  /\ \A p \in Package : report[p] # None => report[p].of = p /\ (p \notin Large => report[p].n # Summary)
  /\ newest # None => report[newest] # None
  /\ \A p \in Package : linked[p] # None => report[p] # None /\ report[linked[p]] # None
Stored == \A k \in Key : large[k] # None => KeyOf[large[k].of] = k

\* The report x of p or, when that is only a summary, something under its key
IsOf(x, p) == x \in Content /\ KeyOf[x.of] = KeyOf[p] /\ (p \notin Large => x = report[p])

Copied == \A k \in Key : copy[k] # None =>
  \E p \in Package : KeyOf[p] = k /\ linked[p] # None /\ IsOf(copy[k], linked[p])

\* What those who store, link and publish a report have of it
Saving(a) == pc[a] \in {"store", "save"} =>
  pkg[a] \in Package /\ data[a] \in Content /\ data[a].of = pkg[a] /\ data[a].n # Summary
Linking(a) == pc[a] \in {"latest", "complete"} =>
  /\ pkg[a] \in Package /\ report[pkg[a]] # None /\ linked[pkg[a]] = None
  /\ pc[a] = "latest" => newest # None
  /\ pc[a] = "complete" => link[a] \in Package /\ report[link[a]] # None
Publishing(a) == pc[a] \in {"fetch", "look", "copy"} =>
  /\ pkg[a] \in Package /\ link[a] \in Package /\ linked[pkg[a]] = link[a]
  /\ pc[a] \in {"look", "copy"} => IsOf(data[a], link[a])

\* No two of them link a report to the same package
Alone == \A a, b \in Actor :
  a # b /\ pc[a] \in {"latest", "complete"} /\ pc[b] \in {"latest", "complete"} => pkg[a] # pkg[b]

StoreInv ==
  /\ Typed /\ Rows /\ Stored /\ Copied /\ Alone
  /\ \A a \in Actor : Saving(a) /\ Linking(a) /\ Publishing(a)

LEMMA StoreInit == Init => StoreInv
BY StoreConstants
DEF Init, StoreInv, Typed, Places, Rows, Stored, Copied, Saving, Linking, Publishing, Alone

\* What is read of a report belongs to it
LEMMA ReadIsOwn ==
  ASSUME StoreInv, NEW p \in Package, report[p] # None
  PROVE  IsOf(Read(p), p)
BY StoreConstants DEF StoreInv, Typed, Rows, Stored, Read, Content, IsOf

LEMMA StoreNext == StoreInv /\ [Next]_vars => StoreInv'
<1> SUFFICES ASSUME StoreInv, [Next]_vars
             PROVE  StoreInv'
  OBVIOUS
<1>a. \A p \in Package : report[p] # None => IsOf(Read(p), p)
  BY ReadIsOwn
<1> USE StoreConstants
    DEF StoreInv, Typed, Rows, Stored, Copied, Saving, Linking, Publishing, Alone, At, Goto,
        rows, redis, local
<1>1. ASSUME NEW t \in Task, EndAnalysis(t)
      PROVE  StoreInv'
  BY <1>1 DEF EndAnalysis, Actor, Content, Summary, Places, IsOf
<1>2. ASSUME NEW t \in Task, StoreLarge(t)
      PROVE  StoreInv'
  BY <1>2 DEF StoreLarge, KeyFor, Actor, Content, Places, IsOf
<1>3. ASSUME NEW t \in Task, SaveReport(t)
      PROVE  StoreInv'
  <2>1. pc[t] = "save" /\ pkg[t] \in Package /\ t \in Actor /\ UNCHANGED <<linked, redis, analyses>>
    BY <1>3 DEF SaveReport, Actor
  <2>2. CASE report[pkg[t]] # None
    BY <1>3, <2>1, <2>2 DEF SaveReport, Return, Places, IsOf
  <2>3. CASE report[pkg[t]] = None
    <3> DEFINE saved == IF pkg[t] \in Large THEN [of |-> pkg[t], n |-> Summary] ELSE data[t]
    <3>1. /\ report' = [report EXCEPT ![pkg[t]] = saved] /\ newest' = pkg[t]
          /\ pc' = [pc EXCEPT ![t] = "latest"] /\ UNCHANGED <<pkg, link, data>>
      BY <1>3, <2>3 DEF SaveReport
    <3>2. /\ saved \in Content /\ saved # None /\ saved.of = pkg[t]
          /\ pkg[t] \notin Large => saved.n # Summary
      BY <2>1 DEF Content, Summary
    <3> HIDE DEF saved
    <3>3. /\ report'[pkg[t]] = saved
          /\ \A q \in Package \ {pkg[t]} : report'[q] = report[q]
      BY <2>1, <3>1
    <3>4. \A x, p : p \in Package /\ report[p] # None /\ IsOf(x, p) => IsOf(x, p)'
      BY <2>3, <3>3 DEF IsOf
    <3>5. Typed'
      BY <2>1, <3>1, <3>2 DEF Places
    <3>6. Rows' /\ Stored'
      BY <2>1, <3>1, <3>2, <3>3
    <3>7. Copied'
      BY <2>1, <2>3, <3>4
    <3>8. Alone'
      BY <2>1, <2>3, <3>1
    <3>9. ASSUME NEW a \in Actor
          PROVE  Saving(a)' /\ Linking(a)' /\ Publishing(a)'
      <4>1. Saving(a)' /\ Linking(a)'
        BY <2>1, <2>3, <3>1, <3>2, <3>3
      <4>2. Publishing(a)'
        BY <2>1, <2>3, <3>1, <3>4
      <4>3. QED
        BY <4>1, <4>2
    <3>10. QED
      BY <3>5, <3>6, <3>7, <3>8, <3>9
  <2>4. QED
    BY <2>2, <2>3
<1>4. ASSUME NEW t \in Task, Latest(t)
      PROVE  StoreInv'
  BY <1>4 DEF Latest, Actor, Places, IsOf
<1>5. ASSUME NEW t \in Task, Complete(t)
      PROVE  StoreInv'
  <2>1. /\ pc[t] = "complete" /\ pkg[t] \in Package /\ link[t] \in Package /\ t \in Actor
        /\ UNCHANGED <<report, newest, redis, analyses>>
    BY <1>5 DEF Complete, Actor
  <2>2. CASE \E p \in Package : linked[p] = link[t]
    <3>1. Return(t) /\ linked' = linked
      BY <1>5, <2>2 DEF Complete
    <3>2. QED
      BY <2>1, <3>1 DEF Return, Places, IsOf
  <2>3. CASE ~\E p \in Package : linked[p] = link[t]
    <3>1. /\ linked' = [linked EXCEPT ![pkg[t]] = link[t]]
          /\ pc' = [pc EXCEPT ![t] = "fetch"] /\ UNCHANGED <<pkg, link, data>>
      BY <1>5, <2>3 DEF Complete
    <3>2. \A p \in Package : linked[p] # None => linked'[p] = linked[p]
      BY <2>1, <3>1
    <3>3. Typed' /\ Rows' /\ Stored' /\ Alone'
      BY <2>1, <3>1 DEF Places
    <3>4. Copied'
      BY <2>1, <3>2 DEF IsOf
    <3>5. ASSUME NEW a \in Actor
          PROVE  Saving(a)' /\ Linking(a)' /\ Publishing(a)'
      <4>1. Saving(a)' /\ Linking(a)'
        BY <2>1, <3>1
      <4>2. Publishing(a)'
        BY <2>1, <3>1, <3>2 DEF IsOf
      <4>3. QED
        BY <4>1, <4>2
    <3>6. QED
      BY <3>3, <3>4, <3>5
  <2>4. QED
    BY <2>2, <2>3
<1>6. ASSUME NEW c \in Client, RequestReport(c)
      PROVE  StoreInv'
  BY <1>6 DEF RequestReport, Actor, Places, IsOf
<1>7. ASSUME NEW a \in Actor, Fetch(a)
      PROVE  StoreInv'
  <2>1. pc[a] = "fetch" /\ link[a] \in Package /\ report[link[a]] # None
    BY <1>7 DEF Fetch
  <2>2. IsOf(Read(link[a]), link[a]) /\ Read(link[a]) \in Content
    BY <1>a, <2>1 DEF IsOf
  <2>3. UNCHANGED <<rows, redis, analyses>>
    BY <1>7 DEF Fetch
  <2>4. CASE Return(a)
    BY <2>1, <2>3, <2>4 DEF Return, Places, IsOf
  <2>5. CASE ~Return(a)
    <3>1. /\ data' = [data EXCEPT ![a] = Read(link[a])] /\ pc' = [pc EXCEPT ![a] = "look"]
          /\ UNCHANGED <<pkg, link>>
      BY <1>7, <2>5 DEF Fetch
    <3> DEFINE x == Read(link[a])
    <3>2. x \in Content /\ IsOf(x, link[a]) /\ data' = [data EXCEPT ![a] = x]
      BY <2>2, <3>1
    <3> HIDE DEF x
    <3>3. QED
      BY <2>1, <2>3, <3>1, <3>2 DEF Places, IsOf
  <2>6. QED
    BY <2>4, <2>5
<1>8. ASSUME NEW a \in Actor, Look(a)
      PROVE  StoreInv'
  <2>1. pc[a] = "look" /\ UNCHANGED <<rows, redis, analyses>>
    BY <1>8 DEF Look
  <2>2. CASE Return(a)
    BY <2>1, <2>2 DEF Return, Places, IsOf
  <2>3. CASE ~Return(a)
    <3>1. pc' = [pc EXCEPT ![a] = "copy"] /\ UNCHANGED <<pkg, link, data>>
      BY <1>8, <2>3 DEF Look
    <3>2. QED
      BY <2>1, <3>1 DEF Places, IsOf
  <2>4. QED
    BY <2>2, <2>3
<1>9. ASSUME NEW a \in Actor, SetCopy(a)
      PROVE  StoreInv'
  BY <1>9 DEF SetCopy, Return, KeyFor, Places, IsOf
<1>10. ASSUME NEW k \in Key, Expire(k)
       PROVE  StoreInv'
  BY <1>10 DEF Expire, IsOf
<1>11. CASE UNCHANGED vars
  BY <1>11 DEF vars, IsOf
<1>12. QED
  BY <1>1, <1>2, <1>3, <1>4, <1>5, <1>6, <1>7, <1>8, <1>9, <1>10, <1>11
  DEF Next, Work, Publish, Actor

\* What is downloaded is what the completed task of a package links to, for any
\* number of tasks that save and clients that ask, in any order, and whatever
\* packages share a key
THEOREM DownloadsAreLinked == Spec => []DownloadIsLinked
<1>1. StoreInv => DownloadIsLinked
  BY StoreConstants DEF StoreInv, Copied, IsOf, DownloadIsLinked
<1>2. QED
  BY StoreInit, StoreNext, <1>1, PTL DEF Spec

------------------------------------------------------------------------------
(* The types *)

LEMMA TypeNext == StoreInv /\ TypeOK /\ [Next]_vars => TypeOK'
<1> SUFFICES ASSUME StoreInv, TypeOK, [Next]_vars
             PROVE  TypeOK'
  OBVIOUS
<1>a. /\ MaxAnalyses \in Nat /\ MaxFaults \in Nat /\ KeyOf \in [Package -> Key]
      /\ \A t \in Task : t \in Actor
      /\ \A c \in Client : c \in Actor
  BY StoreConstants DEF Actor
<1>b. Fault => faults' \in 0 .. MaxFaults
  BY <1>a DEF Fault, TypeOK
<1>c. \A p \in Package : Read(p) \in Contents \cup {None}
  BY <1>a DEF Read, TypeOK
<1>d. [of : Package, n : {Summary}] \subseteq Contents
  BY <1>a DEF Contents, Summary
<1> USE DEF TypeOK, At, Goto, rows, redis, local
<1>1. ASSUME NEW t \in Task, EndAnalysis(t)
      PROVE  TypeOK'
  BY <1>1, <1>a DEF EndAnalysis, Contents
<1>2. ASSUME NEW t \in Task, StoreLarge(t)
      PROVE  TypeOK'
  <2>1. pkg[t] \in Package
    BY <1>2, <1>a DEF StoreLarge, StoreInv, Saving
  <2>2. QED
    BY <1>2, <1>a, <1>b, <2>1 DEF StoreLarge, KeyFor
<1>3. ASSUME NEW t \in Task, SaveReport(t)
      PROVE  TypeOK'
  <2>1. pkg[t] \in Package
    BY <1>3, <1>a DEF SaveReport, StoreInv, Saving
  <2>2. QED
    BY <1>3, <1>a, <1>d, <2>1 DEF SaveReport, Return
<1>4. ASSUME NEW t \in Task, Latest(t)
      PROVE  TypeOK'
  BY <1>4, <1>a DEF Latest
<1>5. ASSUME NEW t \in Task, Complete(t)
      PROVE  TypeOK'
  BY <1>5, <1>a DEF Complete, Return
<1>6. ASSUME NEW c \in Client, RequestReport(c)
      PROVE  TypeOK'
  BY <1>6, <1>a DEF RequestReport
<1>7. ASSUME NEW a \in Actor, Fetch(a)
      PROVE  TypeOK'
  <2>1. link[a] \in Package
    BY <1>7 DEF Fetch, StoreInv, Publishing
  <2>2. QED
    BY <1>7, <2>1, <1>a, <1>b, <1>c DEF Fetch, Return
<1>8. ASSUME NEW a \in Actor, Look(a)
      PROVE  TypeOK'
  BY <1>8, <1>a DEF Look, Return
<1>9. ASSUME NEW a \in Actor, SetCopy(a)
      PROVE  TypeOK'
  <2>1. pkg[a] \in Package
    BY <1>9 DEF SetCopy, StoreInv, Publishing
  <2>2. QED
    BY <1>9, <2>1, <1>a, <1>b DEF SetCopy, Return, KeyFor
<1>10. ASSUME NEW k \in Key, Expire(k)
       PROVE  TypeOK'
  BY <1>10 DEF Expire
<1>11. CASE UNCHANGED vars
  BY <1>11 DEF vars
<1>12. QED
  BY <1>1, <1>2, <1>3, <1>4, <1>5, <1>6, <1>7, <1>8, <1>9, <1>10, <1>11
  DEF Next, Work, Publish, Actor

\* Every variable keeps its type
THEOREM TypesAreKept == Spec => []TypeOK
<1>1. Init => TypeOK
  BY StoreConstants DEF Init, TypeOK
<1>2. QED
  BY StoreInit, StoreNext, TypeNext, <1>1, PTL DEF Spec
==============================================================================
