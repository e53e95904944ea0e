--------------------------- MODULE RateLimit_proofs ---------------------------
(***************************************************************************)
(* AdmittedBound for any number of processes, with any limit, each of      *)
(* which serves any number of requests with the key at a time.  The        *)
(* processes do not know of each other: what is proved is about one        *)
(* process p and the requests it serves.                                   *)
(*                                                                         *)
(* With one request at a time what was admitted is never more than the     *)
(* counter, or what the request read of it.                                *)
(*                                                                         *)
(* With two, Twice(n) is double the number of requests they can still pass *)
(* when the counter stands at n and neither has read it: one reads it, the *)
(* other one passes the rest of the limit, and the first sets it back to   *)
(* n + 1.  A request that has read s passes and may set the counter back,  *)
(* after which Twice(s + 1) counts again.  What was admitted and what can  *)
(* still be never exceeds Twice(0).                                        *)
(***************************************************************************)
EXTENDS RateLimit, FiniteSetTheorems, TLAPS

Pending(c) == c \in checked

TypeInv ==
  /\ LimitTypes
  /\ \A p \in Process : count[p] <= Limit
  /\ \A c \in Request : Pending(c) => seen[c] < Limit

LEMMA TypeInit == LimitInit => TypeInv
BY LimitConstants DEF LimitInit, TypeInv, LimitTypes, Pending

LEMMA TypeNext == TypeInv /\ [LimitNext]_limitVars => TypeInv'
<1> SUFFICES ASSUME TypeInv, [LimitNext]_limitVars
             PROVE  TypeInv'
  OBVIOUS
<1> USE LimitConstants DEF TypeInv, LimitTypes, Pending
<1>1. ASSUME NEW c \in Request, CheckLimit(c)
      PROVE  TypeInv'
  BY <1>1 DEF CheckLimit
<1>2. ASSUME NEW c \in Request, Count(c)
      PROVE  TypeInv'
  <2>1. ServedBy[c] \in Process /\ seen[c] + 1 \in Nat /\ seen[c] + 1 <= Limit
    BY <1>2 DEF Count
  <2>2. /\ count' = [count EXCEPT ![ServedBy[c]] = seen[c] + 1]
        /\ idle' = [idle EXCEPT ![ServedBy[c]] = FALSE]
        /\ admitted' = [admitted EXCEPT ![ServedBy[c]] = @ + 1]
        /\ seen' = [seen EXCEPT ![c] = 0] /\ checked' = checked \ {c}
    BY <1>2 DEF Count
  <2>3. LimitTypes'
    BY <2>1, <2>2
  <2>4. \A p \in Process : count'[p] <= Limit
    BY <2>1, <2>2
  <2>5. \A d \in Request : d \in checked' => seen'[d] < Limit
    BY <2>2
  <2>6. QED
    BY <2>3, <2>4, <2>5
<1>3. ASSUME NEW p \in Process, HourPasses(p)
      PROVE  TypeInv'
  BY <1>3 DEF HourPasses
<1>4. ASSUME NEW p \in Process, CounterExpires(p)
      PROVE  TypeInv'
  BY <1>4 DEF CounterExpires
<1>5. CASE UNCHANGED limitVars
  BY <1>5 DEF limitVars
<1>6. QED
  BY <1>1, <1>2, <1>3, <1>4, <1>5 DEF LimitNext

\* Every counter is a number of requests and every request has read one
THEOREM LimitTypesAreKept == LimitSpec => []LimitTypes
<1>1. TypeInv => LimitTypes
  BY DEF TypeInv
<1>2. QED
  BY TypeInit, TypeNext, <1>1, PTL DEF LimitSpec

\* What a step of another process leaves alone
Same(p) ==
  /\ count'[p] = count[p] /\ admitted'[p] = admitted[p]
  /\ \A c \in Served(p) : seen'[c] = seen[c] /\ (Pending(c)' <=> Pending(c))

LEMMA Elsewhere ==
  ASSUME TypeInv, NEW p \in Process, [LimitNext]_limitVars
  PROVE  \/ Same(p)
         \/ \E c \in Served(p) : CheckLimit(c) \/ Count(c)
         \/ CounterExpires(p)
<1> USE LimitConstants DEF TypeInv, LimitTypes, Pending, Same, Served
<1>1. ASSUME NEW c \in Request, CheckLimit(c), ServedBy[c] # p
      PROVE  Same(p)
  BY <1>1 DEF CheckLimit
<1>2. ASSUME NEW c \in Request, Count(c), ServedBy[c] # p
      PROVE  Same(p)
  BY <1>2 DEF Count
<1>3. ASSUME NEW q \in Process, HourPasses(q)
      PROVE  Same(p)
  BY <1>3 DEF HourPasses
<1>4. ASSUME NEW q \in Process, CounterExpires(q), q # p
      PROVE  Same(p)
  BY <1>4 DEF CounterExpires
<1>5. CASE UNCHANGED limitVars
  BY <1>5 DEF limitVars
<1>6. QED
  BY <1>1, <1>2, <1>3, <1>4, <1>5 DEF LimitNext

------------------------------------------------------------------------------
(* One request at a time *)

Single(p) == \A c, d \in Served(p) : c = d

OneInv(p) ==
  /\ admitted[p] <= Limit
  /\ IF \E c \in Served(p) : Pending(c)
     THEN \A c \in Served(p) : admitted[p] <= seen[c]
     ELSE admitted[p] <= count[p]

LEMMA OneInit == ASSUME NEW p \in Process, LimitInit
                 PROVE  OneInv(p)
BY LimitConstants DEF LimitInit, OneInv, Pending, Served

LEMMA OneNext ==
  ASSUME NEW p \in Process, Single(p), TypeInv, OneInv(p), [LimitNext]_limitVars
  PROVE  OneInv(p)'
<1> USE LimitConstants
<1>1. CASE Same(p)
  BY <1>1 DEF Same, OneInv, Served
<1>2. ASSUME NEW c \in Served(p), CheckLimit(c)
      PROVE  OneInv(p)'
  <2>1. /\ c \in Request /\ ServedBy[c] = p /\ ~Pending(c) /\ Pending(c)'
        /\ seen'[c] = count[p] /\ admitted'[p] = admitted[p]
        /\ \A d \in Served(p) : d = c
    BY <1>2 DEF CheckLimit, Served, Pending, TypeInv, LimitTypes, Single
  <2>2. admitted[p] <= count[p]
    BY <2>1 DEF OneInv
  <2>3. QED
    BY <2>1, <2>2 DEF OneInv, Served
<1>3. ASSUME NEW c \in Served(p), Count(c)
      PROVE  OneInv(p)'
  <2>1. /\ c \in Request /\ ServedBy[c] = p /\ Pending(c) /\ ~Pending(c)'
        /\ count'[p] = seen[c] + 1 /\ admitted'[p] = admitted[p] + 1
        /\ \A d \in Served(p) : d = c
    BY <1>3 DEF Count, Served, Pending, TypeInv, LimitTypes, Single
  <2>2. admitted[p] <= seen[c] /\ seen[c] < Limit /\ seen[c] \in Nat /\ admitted[p] \in Nat
    BY <2>1 DEF OneInv, TypeInv, LimitTypes
  <2>3. QED
    BY <2>1, <2>2 DEF OneInv, Served
<1>4. CASE CounterExpires(p)
  <2>1. admitted'[p] = 0 /\ count'[p] = 0 /\ UNCHANGED <<checked, seen>>
    BY <1>4 DEF CounterExpires, TypeInv, LimitTypes
  <2>2. \A c \in Served(p) : seen[c] \in Nat
    BY DEF TypeInv, LimitTypes, Served
  <2>3. QED
    BY <2>1, <2>2 DEF OneInv, Served, Pending
<1>5. QED
  BY <1>1, <1>2, <1>3, <1>4, Elsewhere

------------------------------------------------------------------------------
(* Two requests at a time *)

Twice(n) == (Limit - n) * (Limit - n + 3)

TwoInv(p) ==
  /\ (\A c \in Served(p) : ~Pending(c)) => 2 * admitted[p] + Twice(count[p]) <= Twice(0)
  /\ \A c \in Served(p) : Pending(c) /\ (\A d \in Served(p) \ {c} : ~Pending(d)) =>
       IF seen[c] <= count[p]
       THEN 2 * (admitted[p] + Limit - count[p] + 1) + Twice(seen[c] + 1) <= Twice(0)
       ELSE 2 * admitted[p] + Twice(count[p]) <= Twice(0)
  /\ \A c, d \in Served(p) : c # d /\ Pending(c) /\ Pending(d) /\ seen[c] <= seen[d] =>
       2 * (admitted[p] + Limit - seen[d] + 1) + Twice(seen[c] + 1) <= Twice(0)

Pair(p) == \A c, d, e \in Served(p) : c = d \/ d = e \/ c = e

LEMMA TwiceStep == ASSUME NEW n \in 0 .. Limit, n < Limit
                   PROVE  /\ Twice(n) \in Nat /\ Twice(n + 1) \in Nat
                          /\ Twice(n) = 2 * (Limit - n + 1) + Twice(n + 1)
<1> DEFINE m == Limit - n
<1>1. m \in Nat /\ m > 0 /\ Limit \in Nat
  BY LimitConstants
<1>2. Twice(n) = m * (m + 3) /\ Twice(n + 1) = (m - 1) * (m + 2)
  BY <1>1 DEF Twice
<1> HIDE DEF m
<1>3. /\ m * (m + 3) \in Nat /\ (m - 1) * (m + 2) \in Nat
      /\ m * (m + 3) = 2 * (m + 1) + (m - 1) * (m + 2)
  BY <1>1
<1>4. QED
  BY <1>1, <1>2, <1>3 DEF m

LEMMA TwiceFalls == ASSUME NEW n \in 0 .. Limit, NEW m \in n .. Limit
                    PROVE  Twice(n) \in Nat /\ Twice(m) \in Nat /\ Twice(m) + 2 * (m - n) <= Twice(n)
<1> DEFINE a == Limit - n
           b == Limit - m
<1>1. a \in Nat /\ b \in Nat /\ b <= a /\ m - n = a - b
  BY LimitConstants
<1>2. Twice(n) = a * (a + 3) /\ Twice(m) = b * (b + 3)
  BY DEF Twice
<1> HIDE DEF a, b
<1>3. PICK k \in Nat : a = b + k
  BY <1>1
<1>4. /\ a * (a + 3) = b * (b + 3) + 2 * (b * k) + k * k + 3 * k
      /\ b * k \in Nat /\ k * k \in Nat /\ b * (b + 3) \in Nat
  BY <1>1, <1>3
<1>5. QED
  BY <1>1, <1>2, <1>3, <1>4

LEMMA TwoInit == ASSUME NEW p \in Process, LimitInit
                 PROVE  TwoInv(p)
<1>1. Limit \in Nat /\ 0 \in 0 .. Limit
  BY LimitConstants
<1>2. /\ count[p] = 0 /\ admitted[p] = 0 /\ \A c \in Served(p) : ~Pending(c)
  BY DEF LimitInit, Pending
<1>3. 2 * admitted[p] + Twice(count[p]) <= Twice(0)
  BY <1>1, <1>2, TwiceFalls
<1>4. QED
  BY <1>2, <1>3 DEF TwoInv

LEMMA TwoNext ==
  ASSUME NEW p \in Process, Pair(p), TypeInv, TwoInv(p), [LimitNext]_limitVars
  PROVE  TwoInv(p)'
<1> DEFINE n == count[p]
           m == admitted[p]
<1>a. /\ Limit \in Nat /\ n \in 0 .. Limit /\ m \in Nat
      /\ \A c \in Served(p) : seen[c] \in Nat /\ (Pending(c) => seen[c] < Limit)
  BY LimitConstants DEF TypeInv, LimitTypes, Served
<1>b. Served(p)' = Served(p)
  BY DEF Served
<1> HIDE DEF n, m
<1>1. CASE Same(p)
  BY <1>1, <1>b DEF Same, TwoInv, Twice
<1>2. ASSUME NEW c \in Served(p), CheckLimit(c)
      PROVE  TwoInv(p)'
  <2>1. /\ ~Pending(c) /\ Pending(c)' /\ n < Limit
        /\ count'[p] = n /\ admitted'[p] = m /\ seen'[c] = n
        /\ \A d \in Served(p) \ {c} : (Pending(d)' <=> Pending(d)) /\ seen'[d] = seen[d]
    BY <1>2 DEF CheckLimit, Served, Pending, TypeInv, LimitTypes, n, m
  <2>2. CASE \A d \in Served(p) \ {c} : ~Pending(d)
    <3>1. 2 * m + Twice(n) <= Twice(0)
      BY <2>1, <2>2 DEF TwoInv, n, m
    <3>2. 2 * (m + Limit - n + 1) + Twice(n + 1) <= Twice(0)
      BY <1>a, <2>1, <3>1, TwiceStep
    <3>3. QED
      BY <1>a, <1>b, <2>1, <2>2, <3>2 DEF TwoInv, Twice
  <2>3. ASSUME NEW d \in Served(p) \ {c}, Pending(d)
        PROVE  TwoInv(p)'
    <3>1. /\ \A e \in Served(p) : e = c \/ e = d
          /\ \A e \in Served(p) \ {d} : ~Pending(e)
      BY <2>1, <2>3 DEF Pair
    <3>2. IF seen[d] <= n
          THEN 2 * (m + Limit - n + 1) + Twice(seen[d] + 1) <= Twice(0)
          ELSE 2 * m + Twice(n) <= Twice(0)
      BY <2>3, <3>1 DEF TwoInv, n, m
    <3>3. seen[d] \in Nat /\ seen[d] < Limit
      BY <1>a, <2>3
    <3>4. CASE seen[d] < n
      BY <1>a, <1>b, <2>1, <2>3, <3>1, <3>2, <3>3, <3>4 DEF TwoInv, Twice
    <3>5. CASE seen[d] >= n
      <4>1. 2 * (m + Limit - seen[d] + 1) + Twice(n + 1) <= Twice(0)
        <5>1. CASE seen[d] = n
          BY <1>a, <3>2, <3>3, <5>1
        <5>2. CASE seen[d] > n
          BY <1>a, <2>1, <3>2, <3>3, <5>2, TwiceStep
        <5>3. QED
          BY <1>a, <3>3, <3>5, <5>1, <5>2
      <4>2. QED
        BY <1>a, <1>b, <2>1, <2>3, <3>1, <3>2, <3>3, <3>5, <4>1 DEF TwoInv, Twice
    <3>6. QED
      BY <1>a, <3>3, <3>4, <3>5
  <2>4. QED
    BY <2>2, <2>3
<1>3. ASSUME NEW c \in Served(p), Count(c)
      PROVE  TwoInv(p)'
  <2>1. /\ Pending(c) /\ ~Pending(c)' /\ seen[c] \in Nat /\ seen[c] < Limit
        /\ count'[p] = seen[c] + 1 /\ admitted'[p] = m + 1
        /\ \A d \in Served(p) \ {c} : (Pending(d)' <=> Pending(d)) /\ seen'[d] = seen[d]
    BY <1>3, <1>a DEF Count, Served, Pending, TypeInv, LimitTypes, m
  <2>2. CASE \A d \in Served(p) \ {c} : ~Pending(d)
    <3>1. IF seen[c] <= n
          THEN 2 * (m + Limit - n + 1) + Twice(seen[c] + 1) <= Twice(0)
          ELSE 2 * m + Twice(n) <= Twice(0)
      BY <2>1, <2>2 DEF TwoInv, n, m
    <3>2. 2 * (m + 1) + Twice(seen[c] + 1) <= Twice(0)
      BY <1>a, <2>1, <3>1, TwiceFalls
    <3>3. QED
      BY <1>b, <2>1, <2>2, <3>2 DEF TwoInv, Twice
  <2>3. ASSUME NEW d \in Served(p) \ {c}, Pending(d)
        PROVE  TwoInv(p)'
    <3>1. /\ \A e \in Served(p) : e = c \/ e = d
          /\ seen[d] \in Nat /\ seen[d] < Limit
      BY <1>a, <2>3 DEF Pair
    <3>2. CASE seen[c] < seen[d]
      <4>1. 2 * (m + Limit - seen[d] + 1) + Twice(seen[c] + 1) <= Twice(0)
        BY <2>1, <2>3, <3>1, <3>2 DEF TwoInv, m
      <4>2. QED
        BY <1>a, <1>b, <2>1, <2>3, <3>1, <3>2, <4>1 DEF TwoInv, Twice
    <3>3. CASE seen[d] <= seen[c]
      <4>1. 2 * (m + Limit - seen[c] + 1) + Twice(seen[d] + 1) <= Twice(0)
        BY <2>1, <2>3, <3>1, <3>3 DEF TwoInv, m
      <4>2. QED
        BY <1>a, <1>b, <2>1, <2>3, <3>1, <3>3, <4>1 DEF TwoInv, Twice
    <3>4. QED
      BY <2>1, <3>1, <3>2, <3>3
  <2>4. QED
    BY <2>2, <2>3
<1>4. CASE CounterExpires(p)
  <2>1. count'[p] = 0 /\ admitted'[p] = 0 /\ UNCHANGED <<seen, checked>>
    BY <1>4 DEF CounterExpires, TypeInv, LimitTypes
  <2>2. \A c \in Served(p) : Pending(c) =>
          /\ 2 * (0 + Limit - 0 + 1) + Twice(0 + 1) <= Twice(0)
          /\ \A d \in Served(p) : Pending(d) /\ seen[c] <= seen[d] =>
               2 * (0 + Limit - seen[d] + 1) + Twice(seen[c] + 1) <= Twice(0)
    BY <1>a, TwiceStep, TwiceFalls
  <2>3. Twice(0) \in Nat
    BY <1>a, TwiceFalls
  <2>4. QED
    BY <1>a, <1>b, <2>1, <2>2, <2>3, TwiceFalls, TwiceStep DEF TwoInv, Pending, Twice
<1>5. QED
  BY <1>1, <1>2, <1>3, <1>4, Elsewhere

LEMMA TwoAreBounded ==
  ASSUME NEW p \in Process, TypeInv, TwoInv(p)
  PROVE  admitted[p] <= (Limit * (Limit + 3)) \div 2
<1> DEFINE n == count[p]
           m == admitted[p]
<1>1. /\ Limit \in Nat /\ n \in 0 .. Limit /\ m \in Nat
      /\ \A c \in Served(p) : seen[c] \in Nat /\ (Pending(c) => seen[c] < Limit)
  BY LimitConstants DEF TypeInv, LimitTypes, Served
<1> HIDE DEF n, m
<1>2. 2 * m <= Twice(0)
  <2>1. CASE \A c \in Served(p) : ~Pending(c)
    BY <1>1, <2>1, TwiceFalls DEF TwoInv, n, m
  <2>2. ASSUME NEW c \in Served(p), Pending(c), \A d \in Served(p) \ {c} : ~Pending(d)
        PROVE  2 * m <= Twice(0)
    BY <1>1, <2>2, TwiceFalls DEF TwoInv, n, m
  <2>3. ASSUME NEW c \in Served(p), NEW d \in Served(p),
               c # d, Pending(c), Pending(d), seen[c] <= seen[d]
        PROVE  2 * m <= Twice(0)
    BY <1>1, <2>3, TwiceFalls DEF TwoInv, n, m
  <2>4. QED
    BY <1>1, <2>1, <2>2, <2>3
<1>3. Twice(0) = Limit * (Limit + 3) /\ Twice(0) \in Nat
  BY <1>1 DEF Twice
<1> DEFINE most == Limit * (Limit + 3)
<1>4. most \in Nat /\ 2 * m <= most
  BY <1>2, <1>3
<1> HIDE DEF most
<1>5. m <= most \div 2
  BY <1>1, <1>4
<1>6. QED
  BY <1>5 DEF most, m

------------------------------------------------------------------------------
(* The two together *)

AdmittedInv ==
  /\ TypeInv
  /\ \A p \in Process : (Single(p) => OneInv(p)) /\ (Pair(p) => TwoInv(p))

LEMMA OneAtMost ==
  ASSUME NEW S, IsFiniteSet(S), Cardinality(S) <= 1
  PROVE  \A c, d \in S : c = d
<1>1. Cardinality(S) = 0 \/ Cardinality(S) = 1
  BY FS_CardinalityType
<1>2. Cardinality(S) = 0 => S = {}
  BY FS_EmptySet
<1>3. Cardinality(S) = 1 => \E c : S = {c}
  BY FS_Singleton
<1>4. QED
  BY <1>1, <1>2, <1>3

LEMMA TwoAtMost ==
  ASSUME NEW S, IsFiniteSet(S), Cardinality(S) = 2
  PROVE  \A c, d, e \in S : c = d \/ d = e \/ c = e
<1> SUFFICES ASSUME NEW c \in S, NEW d \in S, NEW e \in S, c # d, d # e, c # e
             PROVE  FALSE
  OBVIOUS
<1>1. IsFiniteSet(S \ {c}) /\ Cardinality(S \ {c}) = Cardinality(S) - 1
  BY FS_RemoveElement
<1>2. IsFiniteSet((S \ {c}) \ {d}) /\ Cardinality((S \ {c}) \ {d}) = Cardinality(S \ {c}) - 1
  BY <1>1, d \in S \ {c}, FS_RemoveElement
<1>3. Cardinality((S \ {c}) \ {d}) = 0
  BY <1>1, <1>2
<1>4. (S \ {c}) \ {d} = {}
  BY <1>2, <1>3, FS_EmptySet
<1>5. QED
  BY <1>4

\* A process that serves one request of a key at a time never lets more through
\* than the limit, and one that serves two never more than AdmittedBound says,
\* in whatever order they read and set the counter, for any limit and any
\* number of processes
THEOREM AdmittedIsBounded == IsFiniteSet(Request) /\ LimitSpec => []AdmittedBound
<1>1. LimitInit => AdmittedInv
  BY TypeInit, OneInit, TwoInit DEF AdmittedInv
<1>2. AdmittedInv /\ [LimitNext]_limitVars => AdmittedInv'
  <2> SUFFICES ASSUME AdmittedInv, [LimitNext]_limitVars
               PROVE  AdmittedInv'
    OBVIOUS
  <2>1. TypeInv'
    BY TypeNext DEF AdmittedInv
  <2>2. ASSUME NEW p \in Process
        PROVE  /\ Single(p)' => OneInv(p)'
               /\ Pair(p)' => TwoInv(p)'
    <3>1. (Single(p)' <=> Single(p)) /\ (Pair(p)' <=> Pair(p))
      BY DEF Single, Pair, Served
    <3>2. QED
      BY <3>1, OneNext, TwoNext DEF AdmittedInv
  <2>3. QED
    BY <2>1, <2>2 DEF AdmittedInv
<1>3. IsFiniteSet(Request) /\ AdmittedInv => AdmittedBound
  <2> SUFFICES ASSUME IsFiniteSet(Request), AdmittedInv, NEW p \in Process
               PROVE  /\ Cardinality(Served(p)) <= 1 => admitted[p] <= Limit
                      /\ Cardinality(Served(p)) = 2 => admitted[p] <= (Limit * (Limit + 3)) \div 2
    BY DEF AdmittedBound
  <2>1. IsFiniteSet(Served(p))
    BY FS_Subset DEF Served
  <2>2. ASSUME Cardinality(Served(p)) <= 1
        PROVE  admitted[p] <= Limit
    <3>1. Single(p)
      BY <2>1, <2>2, OneAtMost DEF Single
    <3>2. QED
      BY <3>1 DEF AdmittedInv, OneInv
  <2>3. ASSUME Cardinality(Served(p)) = 2
        PROVE  admitted[p] <= (Limit * (Limit + 3)) \div 2
    <3>1. Pair(p)
      BY <2>1, <2>3, TwoAtMost DEF Pair
    <3>2. QED
      BY <3>1, TwoAreBounded DEF AdmittedInv
  <2>4. QED
    BY <2>2, <2>3
<1>4. IsFiniteSet(Request) => IsFiniteSet(Request)'
  OBVIOUS
<1>5. QED
  BY <1>1, <1>2, <1>3, <1>4, PTL DEF LimitSpec
==============================================================================
