------------------------- MODULE ExitRequests_proofs -------------------------
(***************************************************************************)
(* Proofs about the cache of requested exits, for any number of            *)
(* overlapping tasks, any window, step, chain and set of validators.       *)
(***************************************************************************)
EXTENDS ExitRequests, FiniteSetTheorems, SequenceTheorems,
        WellFoundedInduction, TLAPS

USE ValidatorsAssumption, LookBackAssumption, StepAssumption,
    BoundsAssumption

-----------------------------------------------------------------------------
\* A non-empty set of block numbers has a greatest element.
LEMMA MaxExists ==
    ASSUME NEW n \in Nat, NEW S \in SUBSET (1 .. n), S # {}
    PROVE  Max(S) \in S /\ \A y \in S : Max(S) >= y
<1> DEFINE T == {n - b : b \in S}
<1>1. T \subseteq Nat /\ T # {}
  <2>1. ASSUME NEW b \in S PROVE n - b \in Nat
    <3>1. b \in 1 .. n
      OBVIOUS
    <3>2. QED
      BY <3>1
  <2>2. QED
    BY <2>1
<1>2. PICK x \in T : \A y \in T : ~ (<<y, x>> \in OpToRel(<, Nat))
  BY <1>1, NatLessThanWellFounded, WFMin
<1>3. PICK m \in S : x = n - m
  OBVIOUS
<1>4. ASSUME NEW y \in S PROVE m >= y
  <2>1. n - y \in T
    OBVIOUS
  <2>2. ~ (n - y < n - m)
    BY <1>1, <1>2, <1>3, <2>1 DEF OpToRel
  <2>3. QED
    BY <2>2
<1>5. QED
  BY <1>4 DEF Max

\* And a least one.
LEMMA MinExists ==
    ASSUME NEW n \in Nat, NEW S \in SUBSET (1 .. n), S # {}
    PROVE  Min(S) \in S /\ \A y \in S : Min(S) <= y
<1>1. S \subseteq Nat
  OBVIOUS
<1>2. PICK x \in S : \A y \in S : ~ (<<y, x>> \in OpToRel(<, Nat))
  BY <1>1, NatLessThanWellFounded, WFMin
<1>3. ASSUME NEW y \in S PROVE x <= y
  <2>1. x \in Nat /\ y \in Nat
    BY <1>1
  <2>2. ~ (y < x)
    BY <1>2, <2>1 DEF OpToRel
  <2>3. QED
    BY <2>1, <2>2
<1>4. QED
  BY <1>3 DEF Min

-----------------------------------------------------------------------------
(* The inductive invariant.  An update may skip what it believes to be in  *)
(* the cache for three reasons: the block is not after the newest cached   *)
(* one, it is before the next one to fetch, or the total did not grow.     *)
(* The first needs that no entry was made before those of the blocks below *)
(* it, the others that what was asked there is known or, in a task that    *)
(* adds, still ahead; all within the window of the newest head: what older *)
(* tasks prune lies outside it.                                            *)

\* The processed total grows, strictly where there are requests.
TotalsGrow ==
    \A i, j \in 0 .. Height :
        i <= j =>
            /\ TotalAt(i) <= TotalAt(j)
            /\ (\E b \in 1 .. Height : i < b /\ b <= j /\ requests[b] # {})
                   => TotalAt(i) < TotalAt(j)

\* No entry is missing below another one.
EntriesBelow ==
    \A m \in DOMAIN cache : \A b \in 1 .. Height :
        b < m /\ InWindow(b, newest) /\ requests[b] # {} => b \in DOMAIN cache

\* A total read at a block vouches for the requests up to that block.
Vouched(n, k) == n = TotalAt(k) /\ Gapfree(k)

\* What was asked up to the end of the step is known or ahead of the task.
Gathered(t) ==
    \A b \in 1 .. Height :
        b <= LastOfStep(t) /\ InWindow(b, newest) =>
            \A v \in requests[b] : Known(b, v) \/ <<b, v>> \in ahead[t]

TaskOnCourse(t) ==
    /\ cur[t] <= newest
    /\ Vouched(seen[t].total, seen[t].at)
    /\ pc[t] \in {"total", "open", "fetch", "add"} => cur[t] > 0
    /\ pc[t] \in {"fetch", "add"} => from[t] <= cur[t]
    /\ pc[t] = "fetch" => Gapfree(from[t] - 1)
    /\ pc[t] = "add" => Gathered(t)
    /\ pc[t] = "answered" => Gapfree(cur[t])

IInv ==
    /\ TypeOK
    /\ TotalsGrow
    /\ EntriesBelow
    /\ Vouched(lastTotal, covered)
    /\ \A t \in Tasks : TaskOnCourse(t)

-----------------------------------------------------------------------------
\* The chain has a height.
LEMMA HeightIsNat == TypeOK => Height \in Nat
BY DEF TypeOK, Height

\* The chain as it was, the newest head's window where it was or later, and in
\* that window every entry with what it had.
CacheKept ==
    /\ UNCHANGED chain
    /\ newest' >= newest
    /\ skipped \subseteq skipped'
    /\ \A b \in DOMAIN cache :
          InWindow(b, newest') =>
              b \in DOMAIN cache' /\ cache[b] \subseteq cache'[b]

\* What is in the later window is in the earlier one, and known as before.
LEMMA KnownStays ==
    ASSUME TypeOK, newest' \in Int, CacheKept,
           NEW b \in 1 .. Height, InWindow(b, newest')
    PROVE  InWindow(b, newest) /\ \A v : Known(b, v) => Known(b, v)'
<1>1. InWindow(b, newest)
  <2>1. PICK p, q : p = newest /\ q = newest'
    OBVIOUS
  <2>2. Height \in Nat /\ b \in Int /\ p \in Int /\ q \in Int /\ q >= p
    BY <2>1, HeightIsNat DEF TypeOK, CacheKept
  <2>3. b >= q - LookBack
    BY <2>1 DEF InWindow
  <2>4. b >= p - LookBack
    BY <2>2, <2>3
  <2>5. QED
    BY <2>1, <2>4 DEF InWindow
<1>2. QED
  BY <1>1 DEF CacheKept, Known

\* So a prefix without gaps stays one.
LEMMA GapfreeStable ==
    ASSUME TypeOK, newest' \in Int, CacheKept, NEW n, Gapfree(n)
    PROVE  Gapfree(n)'
<1>1. Height' = Height /\ requests' = requests
  BY DEF CacheKept, chain, Height
<1>2. SUFFICES ASSUME NEW b \in 1 .. Height, b <= n, InWindow(b, newest'),
                      NEW v \in requests[b]
               PROVE  Known(b, v)'
  BY <1>1 DEF Gapfree, InWindow
<1>3. QED
  BY <1>2, KnownStays DEF Gapfree

\* Without new entries the order of the entries stays.
LEMMA EntriesStay ==
    ASSUME TypeOK, newest' \in Int, CacheKept, EntriesBelow,
           DOMAIN cache' \subseteq DOMAIN cache
    PROVE  EntriesBelow'
<1>1. Height' = Height /\ requests' = requests
  BY DEF CacheKept, chain, Height
<1>2. SUFFICES ASSUME NEW m \in DOMAIN cache', NEW b \in 1 .. Height,
                      b < m, InWindow(b, newest'), requests[b] # {}
               PROVE  b \in DOMAIN cache'
  BY <1>1 DEF EntriesBelow, InWindow
<1>3. InWindow(b, newest)
  BY <1>2, KnownStays
<1>4. b \in DOMAIN cache
  BY <1>2, <1>3 DEF EntriesBelow
<1>5. QED
  BY <1>2, <1>4 DEF CacheKept

\* The invariant holds before the first block.
LEMMA InvInit == Init => IInv
<1> SUFFICES ASSUME Init PROVE IInv
  OBVIOUS
<1>1. Height = 0 /\ DOMAIN cache = {}
  BY EmptySeq DEF Init, Height
<1>2. TypeOK
  BY <1>1, EmptySeq DEF Init, TypeOK, Height
<1>3. \A n : Gapfree(n)
  BY <1>1 DEF Gapfree
<1>4. TotalsGrow
  BY <1>1 DEF TotalsGrow, TotalAt
<1>5. EntriesBelow /\ Vouched(lastTotal, covered)
  BY <1>1, <1>3 DEF Init, EntriesBelow, Vouched, TotalAt
<1>6. \A t \in Tasks : TaskOnCourse(t)
  BY <1>3 DEF Init, TaskOnCourse, Vouched, TotalAt
<1>7. QED
  BY <1>2, <1>4, <1>5, <1>6 DEF IInv

-----------------------------------------------------------------------------
(* The chain grows.                                                        *)

\* A new block keeps the invariant: it is not yet anyone's to know.
LEMMA NewBlockStep ==
    ASSUME IInv, NEW asked \in SUBSET Validators, NewBlock(asked)
    PROVE  IInv'
<1>1. /\ TypeOK /\ Height \in Nat /\ Height < MaxBlock
      /\ Len(total) = Height /\ total \in Seq(Nat)
      /\ requests \in Seq(SUBSET Validators)
  BY HeightIsNat DEF IInv, TypeOK, NewBlock
<1>2. /\ Cardinality(asked) \in Nat
      /\ asked # {} => Cardinality(asked) > 0
  <2>1. IsFiniteSet(asked)
    BY FS_Subset
  <2>2. QED
    BY <2>1, FS_CardinalityType, FS_EmptySet
<1>3. TotalAt(Height) \in Nat
  BY <1>1 DEF TotalAt
<1>4. /\ requests' \in Seq(SUBSET Validators) /\ Height' = Height + 1
      /\ \A b \in 1 .. Height : requests'[b] = requests[b]
      /\ requests'[Height + 1] = asked
  BY <1>1, AppendProperties DEF NewBlock, Height
<1>5. /\ total' \in Seq(Nat) /\ Len(total') = Height + 1
      /\ \A b \in 1 .. Height : total'[b] = total[b]
      /\ total'[Height + 1] = TotalAt(Height) + Cardinality(asked)
  <2>1. PICK x \in Nat : x = TotalAt(Height) + Cardinality(asked)
    BY <1>2, <1>3
  <2>2. total' = Append(total, x)
    BY <2>1 DEF NewBlock
  <2>3. /\ Append(total, x) \in Seq(Nat)
        /\ Len(Append(total, x)) = Len(total) + 1
        /\ \A b \in 1 .. Len(total) : Append(total, x)[b] = total[b]
        /\ Append(total, x)[Len(total) + 1] = x
    BY <1>1, <2>1, AppendProperties
  <2>4. QED
    BY <1>1, <2>1, <2>2, <2>3
<1>6. /\ \A n \in 0 .. Height : TotalAt(n)' = TotalAt(n)
      /\ \A n : n = Height + 1 =>
            TotalAt(n)' = TotalAt(Height) + Cardinality(asked)
  <2>1. ASSUME NEW n \in 0 .. Height PROVE TotalAt(n)' = TotalAt(n)
    <3>1. CASE n = 0
      BY <3>1 DEF TotalAt
    <3>2. CASE n # 0
      <4>1. n \in 1 .. Height
        BY <1>1, <3>2
      <4>2. QED
        BY <1>5, <3>2, <4>1 DEF TotalAt
    <3>3. QED
      BY <3>1, <3>2
  <2>2. ASSUME NEW n, n = Height + 1
        PROVE  TotalAt(n)' = TotalAt(Height) + Cardinality(asked)
    <3>1. n # 0
      BY <1>1, <2>2
    <3>2. TotalAt(n)' = total'[n]
      BY <3>1 DEF TotalAt
    <3>3. QED
      BY <1>5, <2>2, <3>2
  <2>3. QED
    BY <2>1, <2>2
<1>7. UNCHANGED <<cache, lastTotal, pc, cur, seen, from, ahead, newest, covered,
                  skipped>>
  BY DEF NewBlock
<1>8. ASSUME NEW n \in Int, n <= Height, Gapfree(n) PROVE Gapfree(n)'
  <2> SUFFICES ASSUME NEW b \in 1 .. (Height + 1), b <= n, InWindow(b, newest),
                      NEW v \in requests'[b]
               PROVE  Known(b, v)
    BY <1>4, <1>7 DEF Gapfree, InWindow, Known
  <2>1. b \in 1 .. Height
    BY <1>1, <1>8
  <2>2. QED
    BY <1>4, <1>8, <2>1 DEF Gapfree
<1>9. TypeOK'
  <2>1. \A b \in DOMAIN cache' :
           cache'[b] \subseteq requests'[b] /\ requests'[b] # {}
    BY <1>1, <1>4, <1>7 DEF TypeOK
  <2>2. /\ DOMAIN cache' \subseteq 1 .. Height'
        /\ cur' \in [Tasks -> 0 .. Height']
        /\ seen' \in [Tasks -> [total : Nat, at : 0 .. Height']]
        /\ newest' \in 0 .. Height' /\ covered' \in 0 .. Height'
        /\ skipped' \subseteq 1 .. Height'
    BY <1>1, <1>4, <1>7 DEF TypeOK
  <2>3. ahead' \in [Tasks -> SUBSET ((1 .. Height') \X Validators)]
    <3>1. 1 .. Height \subseteq 1 .. Height'
      BY <1>1, <1>4
    <3>2. ahead \in [Tasks -> SUBSET ((1 .. Height) \X Validators)]
      BY <1>1 DEF TypeOK
    <3>3. QED
      BY <1>7, <3>1, <3>2
  <2>4. ASSUME NEW t \in Tasks, NEW e \in ahead[t]
        PROVE  /\ pc[t] = "add" /\ e[1] \in from[t] .. LastOfStep(t)
               /\ e[2] \in requests'[e[1]]
    <3>1. e[1] \in 1 .. Height
      BY <1>1, <2>4 DEF TypeOK
    <3>2. QED
      BY <1>1, <1>4, <2>4, <3>1 DEF TypeOK
  <2>5. \A t \in Tasks : LastOfStep(t)' = LastOfStep(t)
    BY <1>7 DEF LastOfStep
  <2>6. \A t \in Tasks : \A e \in ahead'[t] :
           /\ pc'[t] = "add"
           /\ e[1] \in from'[t] .. LastOfStep(t)' /\ e[2] \in requests'[e[1]]
    BY <1>7, <2>4, <2>5
  <2>7. /\ lastTotal' \in Nat /\ from' \in [Tasks -> Int]
        /\ pc' \in [Tasks -> {"idle", "total", "open", "fetch", "add",
                              "answered", "empty_range"}]
    BY <1>1, <1>7 DEF TypeOK
  <2>8. Height' <= MaxBlock /\ Len(total') = Height'
    BY <1>1, <1>4, <1>5
  <2>9. QED
    BY <1>4, <1>5, <2>1, <2>2, <2>3, <2>6, <2>7, <2>8 DEF TypeOK
<1>10. TotalsGrow'
  <2> SUFFICES ASSUME NEW i \in 0 .. (Height + 1), NEW j \in 0 .. (Height + 1),
                      i <= j
               PROVE  /\ TotalAt(i)' <= TotalAt(j)'
                      /\ (\E b \in 1 .. (Height + 1) :
                             i < b /\ b <= j /\ requests'[b] # {})
                            => TotalAt(i)' < TotalAt(j)'
    BY <1>4 DEF TotalsGrow
  <2>1. \A n \in 0 .. Height : TotalAt(n) \in Nat
    BY <1>1 DEF TotalAt
  <2>2. CASE j <= Height
    <3>1. i \in 0 .. Height /\ j \in 0 .. Height
      BY <1>1, <2>2
    <3>2. TotalAt(i)' = TotalAt(i) /\ TotalAt(j)' = TotalAt(j)
      BY <1>6, <3>1
    <3>3. ASSUME NEW b \in 1 .. (Height + 1),
                 i < b, b <= j, requests'[b] # {}
          PROVE  b \in 1 .. Height /\ requests[b] # {}
      <4>1. b \in 1 .. Height
        BY <1>1, <2>2, <3>1, <3>3
      <4>2. QED
        BY <1>4, <3>3, <4>1
    <3>4. QED
      BY <3>1, <3>2, <3>3 DEF IInv, TotalsGrow
  <2>3. CASE i <= Height /\ j = Height + 1
    <3>1. i \in 0 .. Height /\ Height \in 0 .. Height
      BY <1>1, <2>3
    <3>2. TotalAt(i) <= TotalAt(Height)
      BY <1>1, <3>1 DEF IInv, TotalsGrow
    <3>3. /\ TotalAt(i)' = TotalAt(i)
          /\ TotalAt(j)' = TotalAt(Height) + Cardinality(asked)
      BY <1>6, <2>3, <3>1
    <3>4. TotalAt(i) \in Nat /\ TotalAt(Height) \in Nat
      BY <2>1, <3>1
    <3>5. ASSUME NEW b \in 1 .. (Height + 1),
                 i < b, b <= j, requests'[b] # {}
          PROVE  TotalAt(i)' < TotalAt(j)'
      <4>1. CASE b = Height + 1
        BY <1>2, <1>4, <3>2, <3>3, <3>4, <3>5, <4>1
      <4>2. CASE b # Height + 1
        <5>1. b \in 1 .. Height /\ requests[b] # {}
          BY <1>1, <1>4, <3>5, <4>2
        <5>2. TotalAt(i) < TotalAt(Height)
          BY <1>1, <3>1, <3>5, <5>1 DEF IInv, TotalsGrow
        <5>3. QED
          BY <1>2, <3>3, <3>4, <5>2
      <4>3. QED
        BY <4>1, <4>2
    <3>6. QED
      BY <1>2, <3>2, <3>3, <3>4, <3>5
  <2>4. CASE i = Height + 1 /\ j = Height + 1
    <3>1. TotalAt(i)' \in Nat /\ TotalAt(i)' = TotalAt(j)'
      BY <1>2, <1>3, <1>6, <2>4
    <3>2. QED
      BY <1>1, <2>4, <3>1
  <2>5. QED
    BY <1>1, <2>2, <2>3, <2>4
<1>11. EntriesBelow'
  <2> SUFFICES ASSUME NEW m \in DOMAIN cache, NEW b \in 1 .. (Height + 1),
                      b < m, InWindow(b, newest), requests'[b] # {}
               PROVE  b \in DOMAIN cache
    BY <1>4, <1>7 DEF EntriesBelow, InWindow
  <2>1. m \in 1 .. Height
    BY <1>1 DEF TypeOK
  <2>2. b \in 1 .. Height
    BY <1>1, <2>1
  <2>3. QED
    BY <1>4, <2>2 DEF IInv, EntriesBelow
<1>12. ASSUME NEW n, NEW k \in 0 .. Height, Vouched(n, k) PROVE Vouched(n, k)'
  <2>1. Gapfree(k)'
    BY <1>1, <1>8, <1>12 DEF Vouched
  <2>2. QED
    BY <1>6, <1>12, <2>1 DEF Vouched
<1>13. Vouched(lastTotal, covered)'
  <2>1. PICK n, k : n = lastTotal /\ k = covered
    OBVIOUS
  <2>2. Vouched(n, k)'
    BY <1>12, <2>1 DEF IInv, TypeOK
  <2>3. QED
    BY <1>7, <2>1, <2>2
<1>14. ASSUME NEW t \in Tasks PROVE TaskOnCourse(t)'
  <2>1. PICK n, k, f, c : /\ n = seen[t].total /\ k = seen[t].at
                         /\ f = from[t] - 1 /\ c = cur[t]
    OBVIOUS
  <2>2. /\ k \in 0 .. Height /\ c \in 0 .. Height
        /\ f \in Int /\ from[t] \in Int
    BY <1>1, <2>1 DEF TypeOK
  <2>3. Vouched(n, k)'
    BY <1>12, <2>1, <2>2 DEF IInv, TaskOnCourse
  <2>4. Vouched(seen[t].total, seen[t].at)'
    BY <1>7, <2>1, <2>3
  <2>5. ASSUME pc[t] = "fetch" PROVE Gapfree(from[t] - 1)'
    <3>1. f <= Height /\ Gapfree(f)
      BY <1>1, <2>1, <2>2, <2>5 DEF IInv, TaskOnCourse
    <3>2. Gapfree(f)'
      BY <1>8, <2>2, <3>1
    <3>3. QED
      BY <1>7, <2>1, <3>2
  <2>6. ASSUME pc[t] = "answered" PROVE Gapfree(cur[t])'
    <3>1. Gapfree(c) /\ c \in Int /\ c <= Height
      BY <1>1, <2>1, <2>2, <2>6 DEF IInv, TaskOnCourse
    <3>2. Gapfree(c)'
      BY <1>8, <3>1
    <3>3. QED
      BY <1>7, <2>1, <3>2
  <2>7. ASSUME pc[t] = "add" PROVE Gathered(t)'
    <3>1. LastOfStep(t)' = LastOfStep(t)
      BY <1>7 DEF LastOfStep
    <3>2. LastOfStep(t) \in Int /\ LastOfStep(t) <= Height
      BY <1>1, <2>1, <2>2 DEF LastOfStep
    <3>3. SUFFICES ASSUME NEW b \in 1 .. (Height + 1), b <= LastOfStep(t),
                          InWindow(b, newest), NEW v \in requests'[b]
                   PROVE  Known(b, v) \/ <<b, v>> \in ahead[t]
      BY <1>4, <1>7, <3>1 DEF Gathered, InWindow, Known
    <3>4. b \in 1 .. Height
      BY <1>1, <3>2, <3>3
    <3>5. QED
      BY <1>4, <2>7, <3>3, <3>4 DEF IInv, TaskOnCourse, Gathered
  <2>8. /\ cur'[t] <= newest'
        /\ pc'[t] \in {"total", "open", "fetch", "add"} => cur'[t] > 0
        /\ pc'[t] \in {"fetch", "add"} => from'[t] <= cur'[t]
        /\ pc'[t] = pc[t]
    BY <1>7 DEF IInv, TaskOnCourse
  <2>9. QED
    BY <2>4, <2>5, <2>6, <2>7, <2>8 DEF TaskOnCourse
<1>15. QED
  BY <1>9, <1>10, <1>11, <1>13, <1>14 DEF IInv

-----------------------------------------------------------------------------
(* The tasks' steps.                                                       *)

\* A step of task t keeps the invariant when it keeps the cached blocks of the
\* window, and what it adds to the cache and writes for itself is in order.
LEMMA TaskStep ==
    ASSUME IInv, TypeOK', NEW t \in Tasks, CacheKept, EntriesBelow',
           Vouched(lastTotal, covered)',
           \A o \in Tasks \ {t} : /\ pc'[o] = pc[o] /\ cur'[o] = cur[o]
                                 /\ seen'[o] = seen[o] /\ from'[o] = from[o]
                                 /\ ahead'[o] = ahead[o],
           TaskOnCourse(t)'
    PROVE  IInv'
<1>1. TypeOK /\ newest \in Int /\ newest' \in Int /\ Height \in Nat
  <2>1. TypeOK /\ Height \in Nat /\ Height' = Height
    BY HeightIsNat DEF IInv, CacheKept, chain, Height
  <2>2. newest \in 0 .. Height /\ newest' \in 0 .. Height
    BY <2>1 DEF TypeOK
  <2>3. QED
    BY <2>1, <2>2
<1>2. ASSUME NEW n, Gapfree(n) PROVE Gapfree(n)'
  BY <1>1, <1>2, GapfreeStable
<1>3. /\ Height' = Height /\ \A n : TotalAt(n)' = TotalAt(n)
      /\ requests' = requests /\ newest' >= newest
  BY DEF CacheKept, chain, Height, TotalAt
<1>4. TotalsGrow'
  BY <1>3 DEF IInv, TotalsGrow
<1>5. ASSUME NEW o \in Tasks, o # t PROVE TaskOnCourse(o)'
  <2>1. PICK n, k, f, c : /\ n = seen[o].total /\ k = seen[o].at
                         /\ f = from[o] - 1 /\ c = cur[o]
    OBVIOUS
  <2>2. /\ c <= newest /\ Vouched(n, k) /\ c \in Int
        /\ pc[o] \in {"total", "open", "fetch", "add"} => c > 0
        /\ pc[o] \in {"fetch", "add"} => from[o] <= c
        /\ pc[o] = "fetch" => Gapfree(f)
        /\ pc[o] = "add" => Gathered(o)
        /\ pc[o] = "answered" => Gapfree(c)
    <3>1. cur[o] \in 0 .. Height
      BY <1>1 DEF TypeOK
    <3>2. QED
      BY <1>1, <2>1, <3>1 DEF IInv, TaskOnCourse
  <2>3. Vouched(n, k)'
    BY <1>2, <1>3, <2>2 DEF Vouched
  <2>4. /\ pc[o] = "fetch" => Gapfree(f)'
        /\ pc[o] = "answered" => Gapfree(c)'
    BY <1>2, <2>2
  <2>5. /\ n = seen'[o].total /\ k = seen'[o].at
        /\ f = from'[o] - 1 /\ c = cur'[o] /\ pc'[o] = pc[o]
        /\ ahead'[o] = ahead[o] /\ from'[o] = from[o]
    BY <1>5, <2>1
  <2>6. Vouched(seen[o].total, seen[o].at)'
    BY <2>3, <2>5
  <2>7. /\ pc'[o] = "fetch" => Gapfree(from[o] - 1)'
        /\ pc'[o] = "answered" => Gapfree(cur[o])'
    BY <2>4, <2>5
  <2>8. ASSUME pc'[o] = "add" PROVE Gathered(o)'
    <3>1. LastOfStep(o)' = LastOfStep(o) /\ Gathered(o)
      BY <2>1, <2>2, <2>5, <2>8 DEF LastOfStep
    <3>2. SUFFICES ASSUME NEW b \in 1 .. Height, b <= LastOfStep(o),
                          InWindow(b, newest'), NEW v \in requests[b]
                   PROVE  Known(b, v)' \/ <<b, v>> \in ahead[o]
      BY <1>3, <2>5, <3>1 DEF Gathered, InWindow
    <3>3. InWindow(b, newest) /\ (Known(b, v) => Known(b, v)')
      BY <1>1, <3>2, KnownStays
    <3>4. QED
      BY <3>1, <3>2, <3>3 DEF Gathered
  <2>9. cur'[o] <= newest'
    BY <1>1, <1>3, <2>2, <2>5
  <2>10. /\ pc'[o] \in {"total", "open", "fetch", "add"} => cur'[o] > 0
         /\ pc'[o] \in {"fetch", "add"} => from'[o] <= cur'[o]
    BY <2>2, <2>5
  <2>11. QED
    BY <2>6, <2>7, <2>8, <2>9, <2>10 DEF TaskOnCourse
<1>6. QED
  BY <1>4, <1>5 DEF IInv

\* Totals that vouched for a block still do.
LEMMA VouchedStays ==
    ASSUME IInv, TypeOK', CacheKept, NEW n, NEW k, Vouched(n, k)
    PROVE  Vouched(n, k)'
<1>1. TypeOK /\ Height \in Nat /\ Height' = Height
  BY HeightIsNat DEF IInv, CacheKept, chain, Height
<1>2. newest' \in Int
  <2>1. newest' \in 0 .. Height
    BY <1>1 DEF TypeOK
  <2>2. QED
    BY <1>1, <2>1
<1>3. Gapfree(k)'
  BY <1>1, <1>2, GapfreeStable DEF Vouched
<1>4. QED
  BY <1>3 DEF Vouched, TotalAt, CacheKept, chain

\* A step that changes nothing of the other tasks.
Only(t) ==
    /\ pc' = [pc EXCEPT ![t] = pc'[t]]
    /\ cur' = [cur EXCEPT ![t] = cur'[t]]
    /\ seen' = [seen EXCEPT ![t] = seen'[t]]
    /\ from' = [from EXCEPT ![t] = from'[t]]
    /\ ahead' = [ahead EXCEPT ![t] = ahead'[t]]

\* It keeps the types when it does for its own task and for the cache.
LEMMA TaskTypes ==
    ASSUME TypeOK, NEW t \in Tasks, UNCHANGED chain,
           DOMAIN cache' \subseteq 1 .. Height,
           \A b \in DOMAIN cache' :
              cache'[b] \subseteq requests[b] /\ requests[b] # {},
           lastTotal' \in Nat, covered' \in 0 .. Height,
           newest' \in 0 .. Height, skipped' \subseteq 1 .. Height,
           Only(t),
           pc'[t] \in {"idle", "total", "open", "fetch", "add", "answered",
                       "empty_range"},
           cur'[t] \in 0 .. Height,
           seen'[t] \in [total : Nat, at : 0 .. Height],
           from'[t] \in Int,
           ahead'[t] \in SUBSET ((1 .. Height) \X Validators),
           \A e \in ahead'[t] :
              /\ pc'[t] = "add" /\ e[1] \in from'[t] .. LastOfStep(t)'
              /\ e[2] \in requests[e[1]]
    PROVE  /\ TypeOK'
           /\ \A o \in Tasks \ {t} :
                 /\ pc'[o] = pc[o] /\ cur'[o] = cur[o]
                 /\ seen'[o] = seen[o] /\ from'[o] = from[o]
                 /\ ahead'[o] = ahead[o]
<1>1. Height' = Height /\ requests' = requests /\ total' = total
  BY DEF chain, Height
<1>2. /\ \A o \in Tasks \ {t} :
            /\ pc'[o] = pc[o] /\ cur'[o] = cur[o]
            /\ seen'[o] = seen[o] /\ from'[o] = from[o]
            /\ ahead'[o] = ahead[o]
  BY DEF TypeOK, Only
<1>3. ASSUME NEW o \in Tasks, NEW e \in ahead'[o]
      PROVE  /\ pc'[o] = "add" /\ e[1] \in from'[o] .. LastOfStep(o)'
             /\ e[2] \in requests[e[1]]
  <2>1. CASE o = t
    BY <1>3, <2>1
  <2>2. CASE o # t
    <3>1. LastOfStep(o)' = LastOfStep(o)
      BY <1>2, <2>2 DEF LastOfStep
    <3>2. QED
      BY <1>2, <1>3, <2>2, <3>1 DEF TypeOK
  <2>3. QED
    BY <2>1, <2>2
<1>4. /\ pc' \in [Tasks -> {"idle", "total", "open", "fetch", "add", "answered",
                            "empty_range"}]
      /\ cur' \in [Tasks -> 0 .. Height]
      /\ seen' \in [Tasks -> [total : Nat, at : 0 .. Height]]
      /\ from' \in [Tasks -> Int]
      /\ ahead' \in [Tasks -> SUBSET ((1 .. Height) \X Validators)]
  BY DEF TypeOK, Only
<1>5. TypeOK'
  BY <1>1, <1>3, <1>4 DEF TypeOK
<1>6. QED
  BY <1>2, <1>5

\* A variable of the tasks is itself with one value replaced by itself.
LEMMA Same ==
    ASSUME TypeOK, NEW t \in Tasks
    PROVE  /\ pc = [pc EXCEPT ![t] = pc[t]]
           /\ cur = [cur EXCEPT ![t] = cur[t]]
           /\ seen = [seen EXCEPT ![t] = seen[t]]
           /\ from = [from EXCEPT ![t] = from[t]]
           /\ ahead = [ahead EXCEPT ![t] = ahead[t]]
BY DEF TypeOK

\* What the types say of one task and of the cache.
LEMMA Types ==
    ASSUME TypeOK, NEW t \in Tasks
    PROVE  /\ Height \in Nat /\ newest \in 0 .. Height
           /\ covered \in 0 .. Height /\ lastTotal \in Nat
           /\ skipped \subseteq 1 .. Height
           /\ DOMAIN cache \subseteq 1 .. Height
           /\ \A b \in DOMAIN cache :
                 cache[b] \subseteq requests[b] /\ requests[b] # {}
           /\ pc[t] \in {"idle", "total", "open", "fetch", "add", "answered",
                         "empty_range"}
           /\ cur[t] \in 0 .. Height /\ from[t] \in Int
           /\ seen[t] \in [total : Nat, at : 0 .. Height]
           /\ ahead[t] \in SUBSET ((1 .. Height) \X Validators)
           /\ LastOfStep(t) \in Int /\ LastOfStep(t) <= cur[t]
<1>1. Height \in Nat
  BY HeightIsNat
<1>2. cur[t] \in 0 .. Height /\ from[t] \in Int
  BY DEF TypeOK
<1>3. LastOfStep(t) \in Int /\ LastOfStep(t) <= cur[t]
  BY <1>1, <1>2 DEF LastOfStep
<1>4. QED
  BY <1>1, <1>2, <1>3 DEF TypeOK

\* A task that begins on a head moves the window forward and takes over the
\* total, with what that total vouches for.
LEMMA BeginStep ==
    ASSUME IInv, NEW t \in Tasks, NEW n \in 1 .. Height, Begin(t, n)
    PROVE  IInv'
<1>1. TypeOK
  BY DEF IInv
<1>2. /\ UNCHANGED <<chain, cache, lastTotal, from, ahead, covered, skipped>>
      /\ newest' = n /\ n >= newest /\ pc[t] # "add"
      /\ pc' = [pc EXCEPT ![t] = "total"]
      /\ cur' = [cur EXCEPT ![t] = n]
      /\ seen' = [seen EXCEPT ![t] = [total |-> lastTotal, at |-> covered]]
  BY DEF Begin, chain
<1>3. ahead[t] = {}
  BY <1>1, <1>2 DEF TypeOK
<1>4. /\ TypeOK' /\ pc'[t] = "total" /\ cur'[t] = n
      /\ seen'[t] = [total |-> lastTotal, at |-> covered]
      /\ \A o \in Tasks \ {t} : /\ pc'[o] = pc[o] /\ cur'[o] = cur[o]
                               /\ seen'[o] = seen[o] /\ from'[o] = from[o]
                               /\ ahead'[o] = ahead[o]
  <2>1. /\ pc'[t] = "total" /\ cur'[t] = n
        /\ seen'[t] = [total |-> lastTotal, at |-> covered]
        /\ from'[t] = from[t] /\ ahead'[t] = {}
    BY <1>1, <1>2, <1>3 DEF TypeOK
  <2>2. Only(t)
    BY <1>1, <1>2, <2>1, Same DEF Only
  <2>3. seen'[t] \in [total : Nat, at : 0 .. Height] /\ cur'[t] \in 0 .. Height
    BY <1>1, <2>1, Types
  <2>4. QED
    BY <1>1, <1>2, <2>1, <2>2, <2>3, Types, TaskTypes
<1>5. CacheKept /\ newest' \in Int
  BY <1>1, <1>2, Types DEF CacheKept
<1>6. PICK m, k : m = lastTotal /\ k = covered
  OBVIOUS
<1>7. Vouched(m, k)'
  BY <1>4, <1>5, <1>6, VouchedStays DEF IInv
<1>8. Vouched(lastTotal, covered)' /\ Vouched(seen[t].total, seen[t].at)'
  BY <1>2, <1>4, <1>6, <1>7
<1>9. TaskOnCourse(t)'
  BY <1>1, <1>2, <1>4, <1>8 DEF TaskOnCourse
<1>10. EntriesBelow'
  BY <1>1, <1>2, <1>5, EntriesStay DEF IInv
<1>11. QED
  BY <1>4, <1>5, <1>8, <1>9, <1>10, TaskStep

\* Steps that only move a task on, or end it.
LEMMA MoveStep ==
    ASSUME IInv, NEW t \in Tasks,
           Fails(t) \/ ReadTotal(t) \/ EmptyRange(t)
    PROVE  IInv'
<1>1. TypeOK
  BY DEF IInv
<1>2. /\ UNCHANGED <<chain, cache, lastTotal, cur, seen, from, newest, covered,
                     skipped>>
      /\ pc'[t] \in {"idle", "open", "empty_range"}
      /\ pc' = [pc EXCEPT ![t] = pc'[t]]
      /\ pc[t] \in {"total", "open", "fetch", "add"}
  BY <1>1 DEF Fails, ReadTotal, EmptyRange, TypeOK
<1>3. ahead' = [ahead EXCEPT ![t] = {}]
  <2>1. CASE Fails(t)
    BY <2>1 DEF Fails
  <2>2. CASE ReadTotal(t) \/ EmptyRange(t)
    <3>1. ahead' = ahead /\ pc[t] # "add"
      BY <2>2 DEF ReadTotal, EmptyRange
    <3>2. ahead[t] = {}
      BY <1>1, <3>1 DEF TypeOK
    <3>3. QED
      BY <1>1, <3>1, <3>2, Same
  <2>3. QED
    BY <2>1, <2>2
<1>4. /\ TypeOK'
      /\ \A o \in Tasks \ {t} : /\ pc'[o] = pc[o] /\ cur'[o] = cur[o]
                               /\ seen'[o] = seen[o] /\ from'[o] = from[o]
                               /\ ahead'[o] = ahead[o]
  <2>1. Only(t) /\ ahead'[t] = {}
    BY <1>1, <1>2, <1>3, Same DEF Only, TypeOK
  <2>2. QED
    BY <1>1, <1>2, <2>1, Types, TaskTypes
<1>5. CacheKept /\ newest' \in Int
  BY <1>1, <1>2, Types DEF CacheKept
<1>6. PICK m, k, n, j : /\ m = lastTotal /\ k = covered
                       /\ n = seen[t].total /\ j = seen[t].at
  OBVIOUS
<1>7. Vouched(m, k)' /\ Vouched(n, j)'
  <2>1. Vouched(m, k)'
    BY <1>4, <1>5, <1>6, VouchedStays DEF IInv
  <2>2. Vouched(n, j)'
    BY <1>4, <1>5, <1>6, VouchedStays DEF IInv, TaskOnCourse
  <2>3. QED
    BY <2>1, <2>2
<1>8. Vouched(lastTotal, covered)' /\ Vouched(seen[t].total, seen[t].at)'
  BY <1>2, <1>6, <1>7
<1>9. TaskOnCourse(t)'
  BY <1>2, <1>8 DEF IInv, TaskOnCourse
<1>10. EntriesBelow'
  BY <1>1, <1>2, <1>5, EntriesStay DEF IInv
<1>11. QED
  BY <1>4, <1>5, <1>8, <1>9, <1>10, TaskStep

\* The total did not grow, so nothing was asked since it was copied.
LEMMA EarlyReturnStep ==
    ASSUME IInv, NEW t \in Tasks, EarlyReturn(t)
    PROVE  IInv'
<1>1. TypeOK
  BY DEF IInv
<1>2. /\ UNCHANGED <<chain, cache, cur, seen, from, ahead, newest, skipped>>
      /\ pc' = [pc EXCEPT ![t] = "answered"]
      /\ lastTotal' = seen[t].total /\ covered' = seen[t].at
      /\ pc[t] = "total" /\ total[cur[t]] <= seen[t].total
  BY DEF EarlyReturn, NothingNew, chain
<1>3. PICK k, c, m : k = seen[t].at /\ c = cur[t] /\ m = seen[t].total
  OBVIOUS
<1>4. /\ k \in 0 .. Height /\ c \in 1 .. Height
      /\ m = TotalAt(k) /\ Gapfree(k) /\ TotalAt(c) = total[c]
      /\ Vouched(m, k)
  <2>1. k \in 0 .. Height /\ c \in 0 .. Height /\ Height \in Nat
    BY <1>1, <1>3, Types
  <2>2. c > 0 /\ Vouched(m, k)
    BY <1>2, <1>3 DEF IInv, TaskOnCourse
  <2>3. c \in 1 .. Height /\ TotalAt(c) = total[c]
    BY <2>1, <2>2 DEF TotalAt
  <2>4. QED
    BY <2>1, <2>2, <2>3 DEF Vouched
<1>5. Gapfree(c)
  <2> SUFFICES ASSUME NEW b \in 1 .. Height, b <= c, InWindow(b, newest),
                      NEW v \in requests[b]
               PROVE  Known(b, v)
    BY DEF Gapfree
  <2>1. CASE b <= k
    BY <1>4, <2>1 DEF Gapfree
  <2>2. CASE k < b
    <3>1. TotalAt(k) < TotalAt(c)
      BY <1>1, <1>4, <2>2, Types DEF IInv, TotalsGrow
    <3>2. TotalAt(c) <= TotalAt(k)
      BY <1>2, <1>3, <1>4
    <3>3. TotalAt(c) \in Int /\ TotalAt(k) \in Int
      BY <1>1, <1>4 DEF TypeOK, TotalAt
    <3>4. QED
      BY <3>1, <3>2, <3>3
  <2>3. QED
    BY <1>1, <1>4, <2>1, <2>2, Types
<1>6. /\ TypeOK' /\ pc'[t] = "answered"
      /\ \A o \in Tasks \ {t} : /\ pc'[o] = pc[o] /\ cur'[o] = cur[o]
                               /\ seen'[o] = seen[o] /\ from'[o] = from[o]
                               /\ ahead'[o] = ahead[o]
  <2>1. pc'[t] = "answered" /\ ahead'[t] = {} /\ Only(t)
    BY <1>1, <1>2, Same DEF Only, TypeOK
  <2>2. lastTotal' \in Nat /\ covered' \in 0 .. Height
    BY <1>1, <1>2, Types
  <2>3. QED
    BY <1>1, <1>2, <2>1, <2>2, Types, TaskTypes
<1>7. CacheKept /\ newest' \in Int
  BY <1>1, <1>2, Types DEF CacheKept
<1>8. Vouched(m, k)' /\ Gapfree(c)'
  BY <1>1, <1>4, <1>5, <1>6, <1>7, VouchedStays, GapfreeStable
<1>9. /\ Vouched(lastTotal, covered)' /\ Vouched(seen[t].total, seen[t].at)'
      /\ Gapfree(cur[t])'
  BY <1>2, <1>3, <1>8
<1>10. TaskOnCourse(t)'
  BY <1>2, <1>6, <1>9 DEF IInv, TaskOnCourse
<1>11. EntriesBelow'
  BY <1>1, <1>2, <1>7, EntriesStay DEF IInv
<1>12. QED
  BY <1>6, <1>7, <1>9, <1>10, <1>11, TaskStep

\* A step of a task in its range: the totals are those it had.
LEMMA RangeStep ==
    ASSUME IInv, NEW t \in Tasks, CacheKept, EntriesBelow', Only(t),
           UNCHANGED <<lastTotal, cur, seen, newest, covered>>,
           DOMAIN cache' \subseteq 1 .. Height,
           \A b \in DOMAIN cache' :
              cache'[b] \subseteq requests[b] /\ requests[b] # {},
           skipped' \subseteq 1 .. Height,
           pc[t] \in {"open", "fetch", "add"}, pc'[t] \in {"fetch", "add"},
           from'[t] \in Int, from'[t] <= cur[t],
           ahead'[t] \in SUBSET ((1 .. Height) \X Validators),
           \A e \in ahead'[t] :
              /\ pc'[t] = "add" /\ e[1] \in from'[t] .. LastOfStep(t)'
              /\ e[2] \in requests[e[1]],
           pc'[t] = "fetch" => Gapfree(from[t] - 1)',
           pc'[t] = "add" => Gathered(t)'
    PROVE  IInv'
<1>1. TypeOK
  BY DEF IInv
<1>2. /\ TypeOK'
      /\ \A o \in Tasks \ {t} : /\ pc'[o] = pc[o] /\ cur'[o] = cur[o]
                               /\ seen'[o] = seen[o] /\ from'[o] = from[o]
                               /\ ahead'[o] = ahead[o]
  BY <1>1, Types, TaskTypes DEF CacheKept
<1>3. PICK m, k, n, j : /\ m = lastTotal /\ k = covered
                       /\ n = seen[t].total /\ j = seen[t].at
  OBVIOUS
<1>4. Vouched(m, k)' /\ Vouched(n, j)'
  <2>1. Vouched(m, k)'
    BY <1>2, <1>3, VouchedStays DEF IInv
  <2>2. Vouched(n, j)'
    BY <1>2, <1>3, VouchedStays DEF IInv, TaskOnCourse
  <2>3. QED
    BY <2>1, <2>2
<1>5. Vouched(lastTotal, covered)' /\ Vouched(seen[t].total, seen[t].at)'
  BY <1>3, <1>4
<1>6. TaskOnCourse(t)'
  BY <1>5 DEF IInv, TaskOnCourse
<1>7. QED
  BY <1>2, <1>5, <1>6, TaskStep

\* The range starts where the cache ends, or at the window's first block; an
\* entry before it is whole or counted as skipped.
LEMMA OpenStep ==
    ASSUME IInv, NEW t \in Tasks, Open(t)
    PROVE  IInv'
<1>1. TypeOK
  BY DEF IInv
<1>2. PICK f : f = FirstToFetch(t)
  OBVIOUS
<1>3. /\ UNCHANGED <<chain, cache, lastTotal, cur, seen, ahead, newest,
                     covered>>
      /\ skipped' = skipped \union {b \in DOMAIN cache : cache[b] # requests[b]}
      /\ pc' = [pc EXCEPT ![t] = "fetch"]
      /\ from' = [from EXCEPT ![t] = f]
      /\ f <= cur[t] /\ pc[t] = "open"
  BY <1>2 DEF Open, chain
<1>4. cur[t] \in Int /\ cur[t] <= newest /\ newest \in Int /\ Height \in Nat
  BY <1>1, Types DEF IInv, TaskOnCourse
<1>5. /\ LastCached \in Int
      /\ \A b \in 1 .. Height : b <= LastCached /\ InWindow(b, newest)
                                /\ requests[b] # {} => b \in DOMAIN cache
  <2>1. CASE DOMAIN cache = {}
    BY <1>1, <1>4, <2>1 DEF LastCached
  <2>2. CASE DOMAIN cache # {}
    <3>1. LastCached \in DOMAIN cache /\ DOMAIN cache \subseteq 1 .. Height
      BY <1>1, <1>4, <2>2, MaxExists, Types DEF LastCached
    <3>2. ASSUME NEW b \in 1 .. Height, b <= LastCached, InWindow(b, newest),
                 requests[b] # {}
          PROVE  b \in DOMAIN cache
      <4>1. CASE b = LastCached
        BY <3>1, <4>1
      <4>2. CASE b # LastCached
        <5>1. b < LastCached
          BY <1>4, <3>1, <3>2, <4>2
        <5>2. QED
          BY <3>1, <3>2, <5>1 DEF IInv, EntriesBelow
      <4>3. QED
        BY <4>1, <4>2
    <3>3. QED
      BY <1>4, <3>1, <3>2
  <2>3. QED
    BY <2>1, <2>2
<1>6. f \in Int /\ f \in {LastCached + 1, cur[t] - LookBack}
  BY <1>2, <1>4, <1>5 DEF FirstToFetch
<1>7. ASSUME NEW b \in 1 .. Height, b <= f - 1, InWindow(b, newest),
             NEW v \in requests[b]
      PROVE  Known(b, v)'
  <2>1. b \in DOMAIN cache
    <3>1. CASE f = LastCached + 1
      BY <1>4, <1>5, <1>7, <3>1
    <3>2. CASE f = cur[t] - LookBack
      BY <1>4, <1>7, <3>2 DEF InWindow
    <3>3. QED
      BY <1>6, <3>1, <3>2
  <2>2. cache[b] = requests[b] \/ b \in skipped'
    BY <1>3, <2>1
  <2>3. QED
    BY <1>3, <2>1, <2>2 DEF Known
<1>8. /\ pc'[t] = "fetch" /\ from'[t] = f /\ ahead'[t] = {} /\ Only(t)
  BY <1>1, <1>3, Same DEF Only, TypeOK
<1>9. Gapfree(from[t] - 1)'
  <2>1. Height' = Height /\ requests' = requests /\ newest' = newest
    BY <1>3 DEF chain, Height
  <2>2. QED
    BY <1>7, <1>8, <2>1 DEF Gapfree
<1>10. CacheKept /\ newest' \in Int
  BY <1>3, <1>4 DEF CacheKept
<1>11. EntriesBelow'
  BY <1>1, <1>3, <1>10, EntriesStay DEF IInv
<1>12. skipped' \subseteq 1 .. Height
  BY <1>1, <1>3, Types
<1>13. QED
  BY <1>1, <1>3, <1>6, <1>8, <1>9, <1>10, <1>11, <1>12, Types, RangeStep

\* What was fetched is ahead; what was asked before is known.
LEMMA FetchStep ==
    ASSUME IInv, NEW t \in Tasks, Fetch(t)
    PROVE  IInv'
<1>1. TypeOK
  BY DEF IInv
<1>2. /\ UNCHANGED <<chain, cache, lastTotal, cur, seen, from, newest, covered,
                     skipped>>
      /\ ahead' = [ahead EXCEPT ![t] = Logs(t)]
      /\ pc' = [pc EXCEPT ![t] = "add"]
      /\ pc[t] = "fetch"
  BY DEF Fetch, chain
<1>3. /\ pc'[t] = "add" /\ from'[t] = from[t] /\ ahead'[t] = Logs(t) /\ Only(t)
      /\ LastOfStep(t)' = LastOfStep(t)
  BY <1>1, <1>2, Same DEF Only, TypeOK, LastOfStep
<1>4. /\ Logs(t) \in SUBSET ((1 .. Height) \X Validators)
      /\ \A e \in Logs(t) : /\ e[1] \in from[t] .. LastOfStep(t)
                           /\ e[2] \in requests[e[1]]
  BY <1>1, Types DEF Logs
<1>5. CacheKept /\ newest' \in Int
  BY <1>1, <1>2, Types DEF CacheKept
<1>6. EntriesBelow'
  BY <1>1, <1>2, <1>5, EntriesStay DEF IInv
<1>7. Gathered(t)'
  <2>1. Height' = Height /\ requests' = requests /\ newest' = newest
    BY <1>2 DEF chain, Height
  <2>2. SUFFICES ASSUME NEW b \in 1 .. Height, b <= LastOfStep(t),
                        InWindow(b, newest), NEW v \in requests[b]
                 PROVE  Known(b, v) \/ <<b, v>> \in Logs(t)
    BY <1>2, <1>3, <2>1 DEF Gathered, InWindow, Known
  <2>3. CASE from[t] <= b
    <3>1. v \in Validators
      BY <1>1, <2>2 DEF TypeOK, Height
    <3>2. QED
      BY <2>2, <2>3, <3>1 DEF Logs
  <2>4. CASE ~(from[t] <= b)
    <3>1. Gapfree(from[t] - 1) /\ b <= from[t] - 1
      BY <1>1, <1>2, <2>4, Types DEF IInv, TaskOnCourse
    <3>2. QED
      BY <2>2, <3>1 DEF Gapfree
  <2>5. QED
    BY <2>3, <2>4
<1>8. from[t] <= cur[t]
  BY <1>2 DEF IInv, TaskOnCourse
<1>9. QED
  BY <1>1, <1>2, <1>3, <1>4, <1>5, <1>6, <1>7, <1>8, Types, RangeStep

\* The next block of a task is the first with an event ahead.
LEMMA NextIsLeast ==
    ASSUME TypeOK, NEW t \in Tasks, ahead[t] # {}
    PROVE  /\ NextBlock(t) \in 1 .. Height /\ NextBlock(t) <= LastOfStep(t)
           /\ requests[NextBlock(t)] # {}
           /\ \A b, v : <<b, v>> \in ahead[t] => NextBlock(t) <= b
<1> DEFINE S == {e[1] : e \in ahead[t]}
<1>1. ahead[t] \in SUBSET ((1 .. Height) \X Validators) /\ Height \in Nat
  BY Types
<1>2. S \in SUBSET (1 .. Height) /\ S # {}
  BY <1>1
<1>3. NextBlock(t) \in S /\ \A b \in S : NextBlock(t) <= b
  BY <1>1, <1>2, MinExists DEF NextBlock
<1>4. PICK e \in ahead[t] : NextBlock(t) = e[1]
  BY <1>3
<1>5. e[1] \in from[t] .. LastOfStep(t) /\ e[2] \in requests[e[1]]
  BY DEF TypeOK
<1>6. NextBlock(t) <= LastOfStep(t) /\ requests[NextBlock(t)] # {}
  BY <1>4, <1>5, Types
<1>7. ASSUME NEW b, NEW v, <<b, v>> \in ahead[t] PROVE b \in S
  <2>1. <<b, v>>[1] = b
    OBVIOUS
  <2>2. QED
    BY <1>7, <2>1
<1>8. QED
  BY <1>2, <1>3, <1>6, <1>7

\* An addition changes nothing of the task but what it has ahead; what leaves
\* that is in the cache.
LEMMA AddStep ==
    ASSUME IInv, NEW t \in Tasks, pc[t] = "add", CacheKept, EntriesBelow',
           UNCHANGED <<lastTotal, pc, cur, seen, from, newest, covered,
                       skipped>>,
           DOMAIN cache' \subseteq 1 .. Height,
           \A b \in DOMAIN cache' :
              cache'[b] \subseteq requests[b] /\ requests[b] # {},
           NEW A, ahead' = [ahead EXCEPT ![t] = A], A \subseteq ahead[t],
           \A b, v : <<b, v>> \in ahead[t] \ A =>
                        b \in DOMAIN cache' /\ v \in cache'[b]
    PROVE  IInv'
<1>1. TypeOK
  BY DEF IInv
<1>2. /\ pc'[t] = "add" /\ from'[t] = from[t] /\ ahead'[t] = A /\ Only(t)
      /\ LastOfStep(t)' = LastOfStep(t) /\ newest' \in Int
      /\ from[t] <= cur[t]
  <2>1. ahead'[t] = A /\ ahead' = [ahead EXCEPT ![t] = ahead'[t]]
    BY <1>1 DEF TypeOK
  <2>2. Only(t)
    BY <1>1, <2>1, Same DEF Only
  <2>3. newest' \in Int
    BY <1>1, Types
  <2>4. QED
    BY <2>1, <2>2, <2>3 DEF LastOfStep, IInv, TaskOnCourse
<1>3. /\ A \in SUBSET ((1 .. Height) \X Validators)
      /\ \A e \in A : /\ e[1] \in from[t] .. LastOfStep(t)
                     /\ e[2] \in requests[e[1]]
  <2>1. A \in SUBSET ((1 .. Height) \X Validators)
    BY <1>1, Types
  <2>2. QED
    BY <1>1, <2>1 DEF TypeOK
<1>4. Gathered(t)'
  <2>1. Height' = Height /\ requests' = requests
    BY DEF CacheKept, chain, Height
  <2>2. SUFFICES ASSUME NEW b \in 1 .. Height, b <= LastOfStep(t),
                        InWindow(b, newest'), NEW v \in requests[b]
                 PROVE  Known(b, v)' \/ <<b, v>> \in A
    BY <1>2, <2>1 DEF Gathered, InWindow
  <2>3. InWindow(b, newest) /\ (Known(b, v) => Known(b, v)')
    BY <1>1, <1>2, <2>2, KnownStays
  <2>4. Known(b, v) \/ <<b, v>> \in ahead[t]
    BY <2>2, <2>3 DEF IInv, TaskOnCourse, Gathered
  <2>5. <<b, v>> \in ahead[t] \ A => Known(b, v)'
    BY DEF Known
  <2>6. QED
    BY <2>3, <2>4, <2>5
<1>5. QED
  BY <1>1, <1>2, <1>3, <1>4, Types, RangeStep

\* The entry comes after those of the blocks below it.
LEMMA NewEntryStep ==
    ASSUME IInv, NEW t \in Tasks, NewEntry(t)
    PROVE  IInv'
<1> DEFINE nb == NextBlock(t)
<1>1. TypeOK
  BY DEF IInv
<1>2. /\ pc[t] = "add" /\ ahead[t] # {} /\ nb \notin DOMAIN cache
      /\ cache' = [b \in DOMAIN cache \union {nb} |->
                      IF b \in DOMAIN cache THEN cache[b] ELSE {}]
      /\ UNCHANGED <<chain, lastTotal, pc, cur, seen, from, ahead, newest,
                     covered, skipped>>
  BY DEF NewEntry, chain
<1>3. /\ nb \in 1 .. Height /\ nb <= LastOfStep(t) /\ requests[nb] # {}
      /\ \A b, v : <<b, v>> \in ahead[t] => nb <= b
  BY <1>1, <1>2, NextIsLeast
<1> HIDE DEF nb
<1>4. /\ DOMAIN cache' = DOMAIN cache \union {nb}
      /\ \A b \in DOMAIN cache : cache'[b] = cache[b]
      /\ cache'[nb] = {}
  BY <1>2
<1>5. CacheKept
  BY <1>1, <1>2, <1>4, Types DEF CacheKept
<1>6. /\ DOMAIN cache' \subseteq 1 .. Height
      /\ \A b \in DOMAIN cache' :
            cache'[b] \subseteq requests[b] /\ requests[b] # {}
  BY <1>1, <1>3, <1>4, Types
<1>7. EntriesBelow'
  <2>1. Height' = Height /\ requests' = requests /\ newest' = newest
    BY <1>2 DEF chain, Height
  <2>2. SUFFICES ASSUME NEW m \in DOMAIN cache', NEW b \in 1 .. Height,
                        b < m, InWindow(b, newest), requests[b] # {}
                 PROVE  b \in DOMAIN cache'
    BY <2>1 DEF EntriesBelow, InWindow
  <2>3. CASE m \in DOMAIN cache
    BY <1>4, <2>2, <2>3 DEF IInv, EntriesBelow
  <2>4. CASE m \notin DOMAIN cache
    <3>1. m = nb /\ b < nb /\ b <= LastOfStep(t)
      BY <1>1, <1>3, <1>4, <2>2, <2>4, Types
    <3>2. PICK v \in requests[b] : TRUE
      BY <2>2
    <3>3. <<b, v>> \notin ahead[t]
      BY <1>1, <1>3, <3>1, Types
    <3>4. Known(b, v)
      BY <1>2, <2>2, <3>1, <3>2, <3>3 DEF IInv, TaskOnCourse, Gathered
    <3>5. QED
      BY <1>4, <3>4 DEF Known
  <2>5. QED
    BY <2>3, <2>4
<1>8. ahead' = [ahead EXCEPT ![t] = ahead[t]]
  BY <1>1, <1>2, Same
<1>9. QED
  BY <1>2, <1>5, <1>6, <1>7, <1>8, AddStep

\* The validator is in its entry from the step on in which it is no longer
\* ahead.
LEMMA AddRequestStep ==
    ASSUME IInv, NEW t \in Tasks, NEW v \in Validators,
           ahead[t] # {}, AddRequest(t, v)
    PROVE  IInv'
<1> DEFINE nb == NextBlock(t)
           A == ahead[t] \ {<<nb, v>>}
<1>1. TypeOK
  BY DEF IInv
<1>2. /\ pc[t] = "add" /\ <<nb, v>> \in ahead[t] /\ nb \in DOMAIN cache
      /\ cache' = [cache EXCEPT ![nb] = @ \union {v}]
      /\ ahead' = [ahead EXCEPT ![t] = A]
      /\ UNCHANGED <<chain, lastTotal, pc, cur, seen, from, newest, covered,
                     skipped>>
  BY DEF AddRequest, chain
<1> HIDE DEF nb
<1>3. v \in requests[nb]
  <2>1. \A e \in ahead[t] : e[2] \in requests[e[1]]
    BY <1>1 DEF TypeOK
  <2>2. <<nb, v>>[2] \in requests[<<nb, v>>[1]]
    BY <1>2, <2>1
  <2>3. QED
    BY <2>2
<1>4. /\ DOMAIN cache' = DOMAIN cache
      /\ \A b \in DOMAIN cache : b # nb => cache'[b] = cache[b]
      /\ cache'[nb] = cache[nb] \union {v}
  BY <1>2
<1>5. CacheKept
  <2>1. \A b \in DOMAIN cache : cache[b] \subseteq cache'[b]
    BY <1>2, <1>4
  <2>2. QED
    BY <1>1, <1>2, <1>4, <2>1, Types DEF CacheKept
<1>6. /\ DOMAIN cache' \subseteq 1 .. Height
      /\ \A b \in DOMAIN cache' :
            cache'[b] \subseteq requests[b] /\ requests[b] # {}
  BY <1>1, <1>2, <1>3, <1>4, Types
<1>7. EntriesBelow'
  <2>1. newest' \in Int
    BY <1>1, <1>2, Types
  <2>2. QED
    BY <1>1, <1>4, <1>5, <2>1, EntriesStay DEF IInv
<1>8. A \subseteq ahead[t]
  OBVIOUS
<1>9. ASSUME NEW b, NEW w, <<b, w>> \in ahead[t] \ A
      PROVE  b \in DOMAIN cache' /\ w \in cache'[b]
  <2>1. b = nb /\ w = v
    BY <1>9
  <2>2. QED
    BY <1>2, <1>4, <2>1
<1> HIDE DEF A
<1>10. QED
  BY <1>2, <1>5, <1>6, <1>7, <1>8, <1>9, AddStep

\* With nothing ahead there is no gap up to the end of the step.
LEMMA NothingAhead ==
    ASSUME IInv, NEW t \in Tasks, pc[t] = "add", ahead[t] = {}
    PROVE  Gapfree(LastOfStep(t))
<1>1. Gathered(t)
  BY DEF IInv, TaskOnCourse
<1>2. QED
  BY <1>1 DEF Gathered, Gapfree

\* So the next step may begin behind it.
LEMMA StepAddedStep ==
    ASSUME IInv, NEW t \in Tasks, StepAdded(t)
    PROVE  IInv'
<1>1. TypeOK
  BY DEF IInv
<1>2. PICK l : l = LastOfStep(t)
  OBVIOUS
<1>3. /\ UNCHANGED <<chain, cache, lastTotal, cur, seen, ahead, newest, covered,
                     skipped>>
      /\ pc' = [pc EXCEPT ![t] = "fetch"]
      /\ from' = [from EXCEPT ![t] = l + 1]
      /\ l < cur[t] /\ pc[t] = "add" /\ ahead[t] = {}
  BY <1>2 DEF StepAdded, chain
<1>4. l \in Int /\ Gapfree(l) /\ cur[t] \in Int
  BY <1>1, <1>2, <1>3, NothingAhead, Types
<1>5. /\ pc'[t] = "fetch" /\ from'[t] = l + 1 /\ ahead'[t] = {} /\ Only(t)
  BY <1>1, <1>3, Same DEF Only, TypeOK
<1>6. CacheKept /\ newest' \in Int
  BY <1>1, <1>3, Types DEF CacheKept
<1>7. EntriesBelow'
  BY <1>1, <1>3, <1>6, EntriesStay DEF IInv
<1>8. Gapfree(from[t] - 1)'
  <2>1. Gapfree(l)'
    BY <1>1, <1>4, <1>6, GapfreeStable
  <2>2. from'[t] - 1 = l
    BY <1>4, <1>5
  <2>3. QED
    BY <2>1, <2>2
<1>9. from'[t] \in Int /\ from'[t] <= cur[t]
  BY <1>3, <1>4, <1>5
<1>10. QED
  BY <1>1, <1>3, <1>5, <1>6, <1>7, <1>8, <1>9, Types, RangeStep

\* After the last step the new total vouches for the task's block; what is
\* pruned lies outside the newest window.
LEMMA AllAddedStep ==
    ASSUME IInv, NEW t \in Tasks, AllAdded(t)
    PROVE  IInv'
<1>1. TypeOK
  BY DEF IInv
<1>2. PICK c : c = cur[t]
  OBVIOUS
<1>3. /\ UNCHANGED <<chain, cur, seen, from, ahead, newest, skipped>>
      /\ cache' = Pruned(cache, c)
      /\ lastTotal' = total[c] /\ covered' = c
      /\ pc' = [pc EXCEPT ![t] = "answered"]
      /\ LastOfStep(t) = c /\ pc[t] = "add" /\ ahead[t] = {}
  BY <1>2 DEF AllAdded, chain
<1>4. /\ c \in 1 .. Height /\ c <= newest /\ newest \in Int
      /\ Height \in Nat
  BY <1>1, <1>2, <1>3, Types DEF IInv, TaskOnCourse
<1>5. /\ DOMAIN cache' = {b \in DOMAIN cache : InWindow(b, c)}
      /\ \A b \in DOMAIN cache' : cache'[b] = cache[b]
  BY <1>3 DEF Pruned
<1>6. CacheKept
  <2>1. ASSUME NEW b \in DOMAIN cache, InWindow(b, newest)
        PROVE  b \in DOMAIN cache'
    <3>1. b \in Int /\ b >= newest - LookBack
      BY <1>1, <1>4, <2>1, Types DEF InWindow
    <3>2. b >= c - LookBack
      BY <1>4, <3>1
    <3>3. QED
      BY <1>5, <3>2 DEF InWindow
  <2>2. newest' = newest /\ newest >= newest /\ skipped' = skipped
    BY <1>3, <1>4
  <2>3. QED
    BY <1>3, <1>5, <2>1, <2>2 DEF CacheKept
<1>7. /\ TypeOK' /\ pc'[t] = "answered"
      /\ \A o \in Tasks \ {t} : /\ pc'[o] = pc[o] /\ cur'[o] = cur[o]
                               /\ seen'[o] = seen[o] /\ from'[o] = from[o]
                               /\ ahead'[o] = ahead[o]
  <2>1. pc'[t] = "answered" /\ ahead'[t] = {} /\ Only(t)
    BY <1>1, <1>3, Same DEF Only, TypeOK
  <2>2. total[c] \in Nat
    BY <1>1, <1>4 DEF TypeOK
  <2>3. lastTotal' \in Nat /\ covered' \in 0 .. Height
    BY <1>3, <1>4, <2>2
  <2>4. /\ DOMAIN cache' \subseteq 1 .. Height
        /\ \A b \in DOMAIN cache' :
              cache'[b] \subseteq requests[b] /\ requests[b] # {}
    BY <1>1, <1>5, Types
  <2>5. QED
    BY <1>1, <1>3, <2>1, <2>3, <2>4, Types, TaskTypes
<1>8. EntriesBelow' /\ newest' \in Int
  BY <1>1, <1>3, <1>4, <1>5, <1>6, EntriesStay DEF IInv
<1>9. Gapfree(c)'
  BY <1>1, <1>3, <1>6, <1>8, NothingAhead, GapfreeStable
<1>10. PICK m, n, j : m = total[c] /\ n = seen[t].total /\ j = seen[t].at
  OBVIOUS
<1>11. Vouched(m, c)'
  <2>1. TotalAt(c)' = total[c]
    BY <1>3, <1>4 DEF TotalAt, chain
  <2>2. QED
    BY <1>9, <1>10, <2>1 DEF Vouched
<1>12. Vouched(n, j)'
  BY <1>6, <1>7, <1>10, VouchedStays DEF IInv, TaskOnCourse
<1>13. /\ Vouched(lastTotal, covered)' /\ Vouched(seen[t].total, seen[t].at)'
       /\ Gapfree(cur[t])'
  BY <1>2, <1>3, <1>9, <1>10, <1>11, <1>12
<1>14. TaskOnCourse(t)'
  BY <1>3, <1>7, <1>13 DEF IInv, TaskOnCourse
<1>15. QED
  BY <1>6, <1>7, <1>8, <1>13, <1>14, TaskStep

\* Every step keeps the invariant.
LEMMA InvStep == IInv /\ [Next]_vars => IInv'
<1> SUFFICES ASSUME IInv, [Next]_vars PROVE IInv'
  OBVIOUS
<1>1. CASE UNCHANGED vars
  BY <1>1 DEF vars, chain, IInv, TypeOK, TotalsGrow, TotalAt, EntriesBelow,
     Gapfree, Known, Vouched, TaskOnCourse, Gathered, LastOfStep, InWindow,
     Height
<1>2. CASE Next
  BY <1>2, NewBlockStep, BeginStep, MoveStep, EarlyReturnStep, OpenStep,
     FetchStep, NewEntryStep, AddRequestStep, StepAddedStep, AllAddedStep
     DEF Next
<1>3. QED
  BY <1>1, <1>2

-----------------------------------------------------------------------------
(* The results.                                                            *)

\* The invariant holds at all times.
LEMMA Inductive == Spec => []IInv
<1>1. QED
  BY InvInit, InvStep, PTL DEF Spec

\* The cache keeps its types: an entry holds requests of its block only.
THEOREM TypeCorrect == Spec => []TypeOK
<1>1. IInv => TypeOK
  BY DEF IInv
<1>2. QED
  BY <1>1, Inductive, PTL

\* No request of the lookback window is unknown to the newest head's update,
\* whatever failed before it and whichever other tasks run beside it, but for
\* blocks an update skipped with their entry half-filled.
THEOREM NoRequestMissed == Spec => []ExpectedExitsKnown
<1>1. IInv => ExpectedExitsKnown
  BY DEF IInv, TaskOnCourse, ExpectedExitsKnown
<1>2. QED
  BY <1>1, Inductive, PTL
=============================================================================
