---------------------------- MODULE PackageLists ----------------------------
(***************************************************************************)
(* The lists of package names behind the web forms (RepositoryService in   *)
(* package_analysis/services/repository_service.py).  Every web worker     *)
(* takes a list from its own lru_cache, else from a file that the workers  *)
(* share, else from the registry, and then writes the file: in place, and  *)
(* without a lock.  A worker may be killed at any point.                   *)
(*                                                                         *)
(* A list is whole, a part, empty, or read off an error page.  A behaviour *)
(* is about the list of one ecosystem.                                     *)
(***************************************************************************)
EXTENDS Naturals, FiniteSets

CONSTANTS
  Worker,   \* web workers
  MaxKills, \* of them
  MaxErrors \* when writing the file

VARIABLES
  ecosystem, \* whose list it is
  stored,    \* "missing", "torn", or the list in it
  writing,   \* workers that have the file open for writing
  overlap,   \* they have not had it each to itself
  doing,     \* what each worker does
  fetched,   \* the list each has from the registry
  cache,     \* its lru_cache; "nothing" if there was no answer yet
  failed,    \* workers that did not get or could not write the list
  kills, errors

listVars == <<ecosystem, stored, writing, overlap, doing, fetched, cache, failed, kills, errors>>

------------------------------------------------------------------------------
(* What a worker can get from a registry; "fails" is an answer that is       *)
(* remembered as an empty list and not written.  Only npm's looks at the     *)
(* status: of a JSON object that tells of an error, packagist's takes the    *)
(* packageNames it does not have, an empty list                              *)

PypiFetch      == {"whole", "page", "fails"}
NpmFetch       == {"whole", "fails"}
RubygemsFetch  == {"whole", "page", "fails"}
\* The index is cloned only if its new temporary directory is not there
RustFetch      == {"empty"}
PackagistFetch == {"whole", "empty", "fails"}
\* Three indexes; one that does not answer is left out
WolfiFetch     == {"whole", "part", "empty"}

Registry == [pypi |-> PypiFetch, npm |-> NpmFetch, rubygems |-> RubygemsFetch,
             rust |-> RustFetch, packagist |-> PackagistFetch, wolfi |-> WolfiFetch]

Csv          == {"pypi", "rubygems"}  \* the others are JSON
RefetchesBad == {"pypi", "npm"}       \* after an error in the file; the others raise
KeepsErrors  == {"pypi", "npm", "rubygems", "packagist"} \* as an empty list

\* With the source; such a list is fetched once its file has been removed
Shipped      == {"pypi", "rubygems", "packagist", "wolfi"}

------------------------------------------------------------------------------

Do(w, what)      == doing' = [doing EXCEPT ![w] = what]
Remember(w, lst) == cache' = [cache EXCEPT ![w] = lst] /\ Do(w, "idle")
RememberError(w) == Remember(w, "empty") /\ failed' = failed \cup {w}

\* A request for the list that the cache does not answer
Ask(w) ==
  /\ doing[w] = "idle" /\ cache[w] = "nothing"
  /\ Do(w, IF stored = "missing" THEN "fetch" ELSE "read")
  /\ UNCHANGED <<ecosystem, stored, writing, overlap, fetched, cache, failed, kills, errors>>

\* A reader that takes what there is of any file
ReadLoosely(w) ==
  /\ doing[w] = "read"
  /\ Remember(w, IF stored = "torn" THEN "part" ELSE stored)
  /\ UNCHANGED <<ecosystem, stored, writing, overlap, fetched, failed, kills, errors>>

\* The first part of a JSON file is an error, of a CSV file a shorter list
ReadFile(w) ==
  /\ doing[w] = "read"
  /\ \/ stored # "torn" /\ Remember(w, stored)
     \/ stored = "torn" /\ ecosystem \in Csv /\ Remember(w, "part")
     \/ /\ stored = "torn" /\ ecosystem \notin Csv
        /\ Do(w, IF ecosystem \in RefetchesBad THEN "fetch" ELSE "idle")
        /\ UNCHANGED cache
  /\ UNCHANGED <<ecosystem, stored, writing, overlap, fetched, failed, kills, errors>>

FetchList(w) ==
  /\ doing[w] = "fetch"
  /\ \E lst \in Registry[ecosystem] :
       \/ lst = "fails" /\ RememberError(w) /\ UNCHANGED fetched
       \/ /\ lst # "fails" /\ Do(w, "open")
          /\ fetched' = [fetched EXCEPT ![w] = lst]
          /\ UNCHANGED <<cache, failed>>
  /\ UNCHANGED <<ecosystem, stored, writing, overlap, kills, errors>>

\* open(..., "w") empties the file, whoever reads or writes it
OpenFile(w) ==
  /\ doing[w] = "open" /\ Do(w, "write")
  /\ overlap' = (writing # {})
  /\ stored' = "torn" /\ writing' = writing \cup {w}
  /\ UNCHANGED <<ecosystem, fetched, cache, failed, kills, errors>>

\* Two that write at a time leave a whole file only if they write the same
WriteFile(w) ==
  /\ doing[w] = "write"
  /\ writing' = writing \ {w}
  /\ \/ /\ stored' \in {IF writing' = {} THEN fetched[w] ELSE "torn"}
                     \cup (IF overlap THEN {"torn"} ELSE {})
        /\ Remember(w, fetched[w]) /\ UNCHANGED <<failed, errors>>
     \/ /\ errors < MaxErrors /\ errors' = errors + 1 /\ UNCHANGED stored
        /\ IF ecosystem \in KeepsErrors THEN RememberError(w)
           ELSE Do(w, "idle") /\ UNCHANGED <<cache, failed>>
  /\ UNCHANGED <<ecosystem, overlap, fetched, kills>>

\* Another takes the worker's place, with an empty cache
Kill(w) ==
  /\ kills < MaxKills /\ kills' = kills + 1
  /\ Do(w, "idle")
  /\ cache' = [cache EXCEPT ![w] = "nothing"]
  /\ failed' = failed \ {w} /\ writing' = writing \ {w}
  /\ UNCHANGED <<ecosystem, stored, overlap, fetched, errors>>

ListsInit ==
  /\ ecosystem \in DOMAIN Registry
  /\ stored \in {"missing"} \cup (IF ecosystem \in Shipped THEN {"whole"} ELSE {})
  /\ writing = {} /\ overlap = FALSE
  /\ doing = [w \in Worker |-> "idle"] /\ fetched = [w \in Worker |-> "nothing"]
  /\ cache = [w \in Worker |-> "nothing"] /\ failed = {} /\ kills = 0 /\ errors = 0

ListsNext == \E w \in Worker : Ask(w) \/ ReadFile(w) \/ FetchList(w) \/ OpenFile(w) \/ WriteFile(w) \/ Kill(w)

ListsSpec == ListsInit /\ [][ListsNext]_listVars

------------------------------------------------------------------------------
(* Properties *)

\* The lists of npm and packagist are never answered in part, whatever other
\* workers do to the file meanwhile and wherever one was killed; npm's is empty
\* only for the worker that failed to get it, and never from the file
ServedWhole == \A w \in Worker :
  /\ ecosystem \in {"npm", "packagist"} => cache[w] \in {"nothing", "whole", "empty"}
  /\ ecosystem = "npm" /\ cache[w] = "empty" => w \in failed
==============================================================================
