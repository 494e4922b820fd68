---------------------------- MODULE Caches_proofs ----------------------------
(***************************************************************************)
(* Proofs about the cache of requested consolidations (BusRequests, beside *)
(* ExitRequests in MCCaches), for any number of overlapping tasks, any     *)
(* window, step, chain, set of batches and number of reorganisations.      *)
(***************************************************************************)
EXTENDS MCCaches, ExitRequests_proofs

USE LookBackAssumption, StepAssumption, BusBoundsAssumption

-----------------------------------------------------------------------------
(* The inductive invariant.  A task may pass over a block for three        *)
(* reasons: it lies before the newest cached one, it lies before the       *)
(* window, or its events were fetched.  The first needs that no entry was  *)
(* ever made before those of the blocks below it; the last holds although  *)
(* the entry stays away until the event's turn comes, and although the     *)
(* newest block may be replaced, which tasks for it are then blamed for no *)
(* longer.                                                                 *)

InNewest(b) == Bus!InWindow(b, busNewest)

\* Batch g of block b is known, or its block was skipped with an entry not
\* whole.
Settled(b, g) == b \in DOMAIN busCache /\ (b \in torn \/ g \in busCache[b])

\* The blocks up to which task t has fetched, or did not have to.
Seen(t) == CASE busPc[t] = "fetch" -> busFrom[t] - 1
             [] busPc[t] = "add" -> Bus!LastOfStep(t)
             [] busPc[t] = "answered" -> busCur[t]
             [] OTHER -> 0

\* Block b cannot have been replaced since task t was started.
Fixed(t, b) == b < busCur[t] \/ (b = busCur[t] /\ t \in latest)

\* What was requested in a block task t has seen is settled or still pending.
Settles(t) ==
    \A b \in 1 .. Bus!Height :
        InNewest(b) /\ b <= Seen(t) /\ Fixed(t, b) =>
            \A g \in requested[b] : <<b, g>> \in pending[t] \/ Settled(b, g)

OnCourse(t) ==
    /\ busCur[t] <= busNewest
    /\ busPc[t] # "add" => pending[t] = {}
    /\ busPc[t] \in {"fetch", "add"} => busFrom[t] <= busCur[t]

\* No entry is missing below another one.
EntriesInOrder ==
    \A m \in DOMAIN busCache : \A b \in 1 .. Bus!Height :
        b < m /\ InNewest(b) /\ requested[b] # {} => b \in DOMAIN busCache

BusInv ==
    /\ BusTypeOK
    /\ pending \in [Tasks -> SUBSET ((1 .. Bus!Height) \X Batches)]
    /\ EntriesInOrder
    /\ \A t \in Tasks : OnCourse(t) /\ Settles(t)

-----------------------------------------------------------------------------
(* The parts of a task.                                                    *)

\* The chain has a height, and the tasks handle blocks of it.
LEMMA BusNumbers ==
    ASSUME BusInv
    PROVE  /\ Bus!Height \in Nat /\ busNewest \in Nat /\ busNewest <= Bus!Height
           /\ \A t \in Tasks :
                 /\ busCur[t] \in Nat /\ busCur[t] <= busNewest
                 /\ busFrom[t] \in Int
                 /\ Bus!LastOfStep(t) \in Int
                 /\ Bus!LastOfStep(t) <= busCur[t]
                 /\ Seen(t) \in Int
<1>1. Bus!Height \in Nat /\ busNewest \in 0 .. Bus!Height
  BY DEF BusInv, BusTypeOK, Bus!TypeOK, Bus!Height
<1>2. ASSUME NEW t \in Tasks
      PROVE  /\ busCur[t] \in 0 .. Bus!Height /\ busFrom[t] \in Int
             /\ busCur[t] <= busNewest
  BY DEF BusInv, BusTypeOK, Bus!TypeOK, OnCourse
<1>3. ASSUME NEW t \in Tasks
      PROVE  /\ Bus!LastOfStep(t) \in Int
             /\ Bus!LastOfStep(t) <= busCur[t]
  BY <1>1, <1>2 DEF Bus!LastOfStep
<1>4. ASSUME NEW t \in Tasks PROVE Seen(t) \in Int
  BY <1>1, <1>2, <1>3 DEF Seen
<1>5. QED
  BY <1>1, <1>2, <1>3, <1>4

\* What was settled in the newest window stays so, when the cache loses none
\* of that window and gains what it gains.
Grows ==
    /\ requested' = requested
    /\ busNewest' \in Nat /\ busNewest <= busNewest'
    /\ torn \subseteq torn'
    /\ \A b \in DOMAIN busCache :
          InNewest(b)' =>
              b \in DOMAIN busCache' /\ busCache[b] \subseteq busCache'[b]

\* The window of a later head begins later.
LEMMA WindowMoves ==
    ASSUME NEW n \in Nat, NEW k \in Nat, n <= k, NEW b \in Int,
           Bus!InWindow(b, k)
    PROVE  Bus!InWindow(b, n)
BY DEF Bus!InWindow

LEMMA SettledStays ==
    ASSUME Grows, NEW b, NEW g, InNewest(b)', Settled(b, g)
    PROVE  Settled(b, g)'
BY DEF Grows, Settled

\* A task that does not move has its blocks settled as before.
LEMMA OthersStay ==
    ASSUME BusInv, Grows, NEW t \in Tasks,
           busPc'[t] = busPc[t], busCur'[t] = busCur[t],
           busFrom'[t] = busFrom[t], pending'[t] = pending[t],
           t \in latest' => t \in latest
    PROVE  OnCourse(t)' /\ Settles(t)'
<1>1. Bus!LastOfStep(t)' = Bus!LastOfStep(t) /\ Bus!Height' = Bus!Height
  BY DEF Bus!LastOfStep, Grows, Bus!Height
<1>2. Seen(t)' = Seen(t)
  BY <1>1 DEF Seen
<1>3. OnCourse(t)'
  <2>1. busCur[t] <= busNewest'
    BY BusNumbers DEF Grows
  <2>2. QED
    BY <2>1 DEF OnCourse, BusInv
<1>4. ASSUME NEW b \in 1 .. Bus!Height, InNewest(b)', b <= Seen(t),
             Fixed(t, b)', NEW g \in requested[b]
      PROVE  <<b, g>> \in pending[t] \/ Settled(b, g)'
  <2>1. InNewest(b)
    BY <1>4, BusNumbers, WindowMoves DEF InNewest, Grows
  <2>2. Fixed(t, b)
    BY <1>4 DEF Fixed
  <2>3. <<b, g>> \in pending[t] \/ Settled(b, g)
    BY <1>4, <2>1, <2>2 DEF BusInv, Settles
  <2>4. QED
    BY <1>4, <2>3, SettledStays
<1>5. Settles(t)'
  BY <1>1, <1>2, <1>4 DEF Settles, Grows
<1>6. QED
  BY <1>3, <1>5

\* No new entry, none out of order.
LEMMA OrderStays ==
    ASSUME BusInv, Grows, DOMAIN busCache' \subseteq DOMAIN busCache
    PROVE  EntriesInOrder'
<1> SUFFICES ASSUME NEW m \in DOMAIN busCache', NEW b \in 1 .. Bus!Height,
                    b < m, InNewest(b)', requested[b] # {}
             PROVE  b \in DOMAIN busCache'
  BY DEF EntriesInOrder, Grows, Bus!Height
<1>1. InNewest(b)
  BY BusNumbers, WindowMoves DEF InNewest, Grows
<1>2. b \in DOMAIN busCache
  BY <1>1 DEF BusInv, EntriesInOrder
<1>3. QED
  BY <1>2 DEF Grows

\* One task moves, the others do not.
LEMMA BusTaskStep ==
    ASSUME BusInv, Grows, NEW t \in Tasks,
           \A o \in Tasks \ {t} :
              /\ busPc'[o] = busPc[o] /\ busCur'[o] = busCur[o]
              /\ busFrom'[o] = busFrom[o] /\ pending'[o] = pending[o]
              /\ o \in latest' => o \in latest,
           BusTypeOK', EntriesInOrder',
           pending' \in [Tasks -> SUBSET ((1 .. Bus!Height) \X Batches)],
           OnCourse(t)', Settles(t)'
    PROVE  BusInv'
<1>1. \A o \in Tasks : OnCourse(o)' /\ Settles(o)'
  BY OthersStay
<1>2. Bus!Height' = Bus!Height
  BY DEF Grows, Bus!Height
<1>3. QED
  BY <1>1, <1>2 DEF BusInv
-----------------------------------------------------------------------------
(* The chain.                                                              *)

\* Nothing is requested, cached or fetched at the start.
LEMMA BusInit == Bus!Init => BusInv
<1> SUFFICES ASSUME Bus!Init PROVE BusInv
  OBVIOUS
<1>1. /\ requested = <<>> /\ requested \in Seq(SUBSET Batches)
      /\ Bus!Height = 0
  BY EmptySeq DEF Bus!Init, Bus!Height
<1>2. BusTypeOK
  BY <1>1 DEF Bus!Init, BusTypeOK, Bus!TypeOK
<1>3. EntriesInOrder
  BY <1>1 DEF EntriesInOrder
<1>4. \A t \in Tasks : OnCourse(t) /\ Settles(t)
  BY <1>1 DEF Bus!Init, OnCourse, Settles
<1>5. pending \in [Tasks -> SUBSET ((1 .. Bus!Height) \X Batches)]
  BY DEF Bus!Init
<1>6. QED
  BY <1>2, <1>3, <1>4, <1>5 DEF BusInv

\* A step of the chain leaves the blocks below it, and no task is blamed for
\* the block it brings.
LEMMA BusChainStep ==
    ASSUME BusInv, requested' \in Seq(SUBSET Batches),
           Bus!Height' \in Nat, Bus!Height' <= MaxBusBlock,
           Bus!Height <= Bus!Height', reorgs' \in 0 .. MaxReorgs,
           NEW n \in Nat,
           \A b \in 1 .. Bus!Height' : b # n => 
              b \in 1 .. Bus!Height /\ requested'[b] = requested[b],
           n >= Bus!Height,
           \A t \in latest' : t \in latest /\ busCur[t] # n,
           UNCHANGED <<busCache, busPc, busCur, busFrom, pending, busNewest,
                       torn>>
    PROVE  BusInv'
<1>1. /\ Bus!Height \in Nat /\ busNewest \in Nat /\ busNewest <= Bus!Height
      /\ \A t \in Tasks : busCur[t] \in Nat /\ busCur[t] <= Bus!Height
  BY BusNumbers
<1>2. BusTypeOK'
  <2>1. /\ DOMAIN busCache \subseteq 1 .. Bus!Height'
        /\ busCur \in [Tasks -> 0 .. Bus!Height']
        /\ busNewest \in 0 .. Bus!Height'
        /\ torn \subseteq 1 .. Bus!Height'
    BY <1>1 DEF BusInv, BusTypeOK, Bus!TypeOK
  <2>2. \A t \in Tasks : Bus!LastOfStep(t)' = Bus!LastOfStep(t)
    BY DEF Bus!LastOfStep
  <2>3. latest' \subseteq {t \in Tasks : busCur[t] = busNewest}
    BY DEF BusInv, BusTypeOK, Bus!TypeOK
  <2>4. QED
    BY <2>1, <2>2, <2>3 DEF BusInv, BusTypeOK, Bus!TypeOK
<1>3. \A b : InNewest(b)' = InNewest(b)
  BY DEF InNewest
<1>4. EntriesInOrder'
  <2> SUFFICES ASSUME NEW m \in DOMAIN busCache, NEW b \in 1 .. Bus!Height',
                      b < m, InNewest(b), requested'[b] # {}
               PROVE  b \in DOMAIN busCache
    BY <1>3 DEF EntriesInOrder
  <2>1. m \in 1 .. Bus!Height
    BY DEF BusInv, BusTypeOK, Bus!TypeOK
  <2>2. b \in 1 .. Bus!Height /\ b # n
    BY <1>1, <2>1
  <2>3. QED
    BY <2>2 DEF BusInv, EntriesInOrder
<1>5. ASSUME NEW t \in Tasks PROVE OnCourse(t)' /\ Settles(t)'
  <2>1. Seen(t)' = Seen(t)
    BY DEF Seen, Bus!LastOfStep
  <2>2. ASSUME NEW b \in 1 .. Bus!Height', InNewest(b), b <= Seen(t),
               Fixed(t, b)', NEW g \in requested'[b]
        PROVE  <<b, g>> \in pending[t] \/ Settled(b, g)
    <3>1. Fixed(t, b) /\ b <= busCur[t] /\ b # n
      BY <1>1, <2>2 DEF Fixed
    <3>2. b \in 1 .. Bus!Height /\ g \in requested[b]
      BY <2>2, <3>1
    <3>3. QED
      BY <2>2, <3>1, <3>2 DEF BusInv, Settles
  <2>3. \A b, g : Settled(b, g)' = Settled(b, g)
    BY DEF Settled
  <2>4. Settles(t)'
    BY <1>3, <2>1, <2>2, <2>3 DEF Settles
  <2>5. QED
    BY <2>4 DEF OnCourse, BusInv
<1>6. pending' \in [Tasks -> SUBSET ((1 .. Bus!Height') \X Batches)]
  <2>1. 1 .. Bus!Height \subseteq 1 .. Bus!Height'
    BY <1>1
  <2>2. QED
    BY <2>1 DEF BusInv
<1>7. QED
  BY <1>2, <1>4, <1>5, <1>6 DEF BusInv

LEMMA BusNewBlockStep ==
    ASSUME BusInv, NEW added \in SUBSET Batches, Bus!NewBlock(added)
    PROVE  BusInv'
<1>1. /\ requested \in Seq(SUBSET Batches)
      /\ requested' = Append(requested, added)
      /\ Len(requested) \in Nat /\ Len(requested) < MaxBusBlock
  BY BusNumbers
     DEF Bus!NewBlock, Bus!Height, BusInv, BusTypeOK, Bus!TypeOK
<1>2. /\ requested' \in Seq(SUBSET Batches)
      /\ Len(requested') = Len(requested) + 1
      /\ \A b \in 1 .. Len(requested) : requested'[b] = requested[b]
  BY <1>1
<1>3. UNCHANGED <<reorgs, busCache, busPc, busCur, busFrom, pending, busNewest,
                  latest, torn>>
  BY DEF Bus!NewBlock
<1>4. \A t \in latest' : t \in latest /\ busCur[t] # Len(requested) + 1
  <2>1. \A t \in latest : t \in Tasks
    BY DEF BusInv, BusTypeOK, Bus!TypeOK
  <2>2. QED
    BY <1>1, <1>3, <2>1, BusNumbers DEF Bus!Height
<1>5. \A b \in 1 .. Len(requested') : b # Len(requested) + 1 =>
         b \in 1 .. Len(requested) /\ requested'[b] = requested[b]
  BY <1>1, <1>2
<1>6. reorgs' \in 0 .. MaxReorgs
  BY <1>3 DEF BusInv, BusTypeOK, Bus!TypeOK
<1>7. QED
  BY <1>1, <1>2, <1>3, <1>4, <1>5, <1>6, BusChainStep DEF Bus!Height

LEMMA BusReorgStep ==
    ASSUME BusInv, NEW added \in SUBSET Batches, Bus!Reorg(added)
    PROVE  BusInv'
<1>1. /\ requested \in Seq(SUBSET Batches)
      /\ requested' = [requested EXCEPT ![Len(requested)] = added]
      /\ Len(requested) \in Nat /\ Len(requested) <= MaxBusBlock
      /\ Len(requested) > 0
  BY BusNumbers
     DEF Bus!Reorg, Bus!Height, BusInv, BusTypeOK, Bus!TypeOK
<1>2. /\ requested' \in Seq(SUBSET Batches)
      /\ Len(requested') = Len(requested)
      /\ \A b \in 1 .. Len(requested) :
            b # Len(requested) => requested'[b] = requested[b]
  BY <1>1, ExceptSeq
<1>3. /\ UNCHANGED <<busCache, busPc, busCur, busFrom, pending, busNewest,
                     torn>>
      /\ reorgs' = reorgs + 1 /\ reorgs < MaxReorgs
      /\ latest' = {t \in latest : busCur[t] # Len(requested)}
  BY DEF Bus!Reorg, Bus!Height
<1>4. reorgs' \in 0 .. MaxReorgs
  <2>1. reorgs \in 0 .. MaxReorgs
    BY DEF BusInv, BusTypeOK, Bus!TypeOK
  <2>2. QED
    BY <1>3, <2>1
<1>5. \A b \in 1 .. Len(requested') : b # Len(requested) =>
         b \in 1 .. Len(requested) /\ requested'[b] = requested[b]
  BY <1>2
<1>6. \A t \in latest' : t \in latest /\ busCur[t] # Len(requested)
  BY <1>3
<1>7. /\ Len(requested) <= Len(requested') /\ Len(requested') <= MaxBusBlock
      /\ Len(requested') \in Nat /\ Len(requested) >= Len(requested)
  <2>1. Len(requested') = Len(requested)
    BY <1>2
  <2>2. PICK k : k = Len(requested)
    OBVIOUS
  <2>3. k \in Nat /\ k <= MaxBusBlock
    BY <1>1, <2>2
  <2>4. k <= k /\ k >= k
    BY <2>3
  <2>5. QED
    BY <2>1, <2>2, <2>3, <2>4
<1>8. QED
  BY <1>1, <1>2, <1>3, <1>4, <1>5, <1>6, <1>7, BusChainStep DEF Bus!Height
-----------------------------------------------------------------------------
(* The tasks.                                                              *)

\* Who moves, moves alone.
LEMMA OneMoves ==
    ASSUME NEW f, DOMAIN f = Tasks, NEW t \in Tasks, NEW v
    PROVE  /\ [f EXCEPT ![t] = v][t] = v
           /\ \A o \in Tasks \ {t} : [f EXCEPT ![t] = v][o] = f[o]
OBVIOUS

LEMMA BusFunctions ==
    ASSUME BusInv
    PROVE  /\ DOMAIN busPc = Tasks /\ DOMAIN busCur = Tasks
           /\ DOMAIN busFrom = Tasks /\ DOMAIN pending = Tasks
BY DEF BusInv, BusTypeOK, Bus!TypeOK

\* A cache that no step touches keeps what it has.
LEMMA UntouchedGrows ==
    ASSUME BusInv, requested' = requested, busNewest' \in Nat,
           busNewest <= busNewest', torn \subseteq torn', busCache' = busCache
    PROVE  Grows /\ EntriesInOrder'
<1>1. Grows
  BY DEF Grows
<1>2. QED
  BY <1>1, OrderStays

LEMMA BusBeginStep ==
    ASSUME BusInv, NEW t \in Tasks, NEW n \in 1 .. Bus!Height, Bus!Begin(t, n)
    PROVE  BusInv'
<1>1. /\ busPc' = [busPc EXCEPT ![t] = "open"]
      /\ busCur' = [busCur EXCEPT ![t] = n] /\ busNewest' = n
      /\ latest' = (IF n = busNewest THEN latest ELSE {}) \union {t}
      /\ n >= busNewest /\ busPc[t] # "add"
      /\ UNCHANGED <<requested, reorgs, busCache, busFrom, pending, torn>>
  BY DEF Bus!Begin, Bus!chain
<1>2. Bus!Height \in Nat /\ busNewest \in Nat /\ Bus!Height' = Bus!Height
  BY <1>1, BusNumbers DEF Bus!Height
<1>3. Grows /\ EntriesInOrder'
  BY <1>1, <1>2, UntouchedGrows
<1>4. /\ busPc'[t] = "open" /\ busCur'[t] = n
      /\ \A o \in Tasks \ {t} :
            /\ busPc'[o] = busPc[o] /\ busCur'[o] = busCur[o]
            /\ busFrom'[o] = busFrom[o] /\ pending'[o] = pending[o]
            /\ o \in latest' => o \in latest
  BY <1>1, BusFunctions
<1>5. pending[t] = {}
  BY <1>1 DEF BusInv, OnCourse
<1>6. BusTypeOK'
  <2>1. latest' \subseteq {o \in Tasks : busCur'[o] = busNewest'}
    BY <1>1, <1>4 DEF BusInv, BusTypeOK, Bus!TypeOK
  <2>2. ASSUME NEW o \in Tasks, NEW e \in pending'[o]
        PROVE  e \in (busFrom'[o] .. Bus!LastOfStep(o)') \X Batches
    <3>1. o # t /\ e \in pending[o]
      BY <1>1, <1>5, <2>2
    <3>2. Bus!LastOfStep(o)' = Bus!LastOfStep(o) /\ busFrom'[o] = busFrom[o]
      BY <1>4, <3>1 DEF Bus!LastOfStep
    <3>3. QED
      BY <3>1, <3>2 DEF BusInv, BusTypeOK, Bus!TypeOK
  <2>3. /\ busPc' \in [Tasks -> {"idle", "open", "fetch", "add", "answered",
                                  "empty_range"}]
        /\ busCur' \in [Tasks -> 0 .. Bus!Height]
        /\ busNewest' \in 0 .. Bus!Height
    BY <1>1, <1>2 DEF BusInv, BusTypeOK, Bus!TypeOK
  <2>4. QED
    BY <1>1, <1>2, <2>1, <2>2, <2>3 DEF BusInv, BusTypeOK, Bus!TypeOK
<1>7. OnCourse(t)' /\ Settles(t)'
  <2>1. busCur'[t] <= busNewest'
    BY <1>1, <1>4
  <2>2. Seen(t)' = 0
    BY <1>4 DEF Seen
  <2>3. QED
    BY <1>1, <1>2, <1>4, <1>5, <2>1, <2>2 DEF OnCourse, Settles
<1>8. pending' \in [Tasks -> SUBSET ((1 .. Bus!Height) \X Batches)]
  BY <1>1 DEF BusInv
<1>9. QED
  BY <1>3, <1>4, <1>6, <1>7, <1>8, BusTaskStep

\* Types, for a step that neither starts a task nor adds a block.
LEMMA BusTypes ==
    ASSUME BusInv, NEW t \in Tasks,
           UNCHANGED <<requested, reorgs, busCur, busNewest, latest>>,
           \A o \in Tasks \ {t} :
              busFrom'[o] = busFrom[o] /\ pending'[o] = pending[o],
           DOMAIN busCache' \subseteq 1 .. Bus!Height,
           \A b \in DOMAIN busCache' : busCache'[b] \subseteq Batches,
           busPc' \in [Tasks -> {"idle", "open", "fetch", "add", "answered",
                                 "empty_range"}],
           busFrom' \in [Tasks -> Int],
           \A e \in pending'[t] :
              e \in (busFrom'[t] .. Bus!LastOfStep(t)') \X Batches,
           torn' \subseteq 1 .. Bus!Height
    PROVE  BusTypeOK'
<1>1. Bus!Height' = Bus!Height
  BY DEF Bus!Height
<1>2. ASSUME NEW o \in Tasks, NEW e \in pending'[o]
      PROVE  e \in (busFrom'[o] .. Bus!LastOfStep(o)') \X Batches
  <2>1. CASE o = t
    BY <1>2, <2>1
  <2>2. CASE o # t
    <3>1. /\ Bus!LastOfStep(o)' = Bus!LastOfStep(o)
          /\ busFrom'[o] = busFrom[o] /\ e \in pending[o]
      BY <1>2, <2>2 DEF Bus!LastOfStep
    <3>2. QED
      BY <3>1 DEF BusInv, BusTypeOK, Bus!TypeOK
  <2>3. QED
    BY <2>1, <2>2
<1>3. QED
  BY <1>1, <1>2 DEF BusInv, BusTypeOK, Bus!TypeOK
\* The task fails, the cache stays.
LEMMA BusFailsStep ==
    ASSUME BusInv, NEW t \in Tasks, Bus!Fails(t) \/ Bus!EmptyRange(t)
    PROVE  BusInv'
<1>1. /\ UNCHANGED <<requested, reorgs, busCache, busCur, busFrom, busNewest,
                     latest, torn>>
      /\ \/ /\ busPc' = [busPc EXCEPT ![t] = "idle"]
            /\ pending' = [pending EXCEPT ![t] = {}]
         \/ /\ busPc' = [busPc EXCEPT ![t] = "empty_range"]
            /\ busPc[t] = "open" /\ pending' = pending
  BY DEF Bus!Fails, Bus!EmptyRange, Bus!chain
<1>2. Grows /\ EntriesInOrder' /\ Bus!Height' = Bus!Height
  BY <1>1, BusNumbers, UntouchedGrows DEF Bus!Height
<1>3. /\ busPc'[t] \in {"idle", "empty_range"} /\ pending'[t] = {}
      /\ \A o \in Tasks \ {t} :
            busPc'[o] = busPc[o] /\ pending'[o] = pending[o]
  BY <1>1, BusFunctions DEF BusInv, OnCourse
<1>4. busPc' \in [Tasks -> {"idle", "open", "fetch", "add", "answered",
                            "empty_range"}]
  BY <1>1 DEF BusInv, BusTypeOK, Bus!TypeOK
<1>5. BusTypeOK'
  <2>1. /\ DOMAIN busCache \subseteq 1 .. Bus!Height
        /\ \A b \in DOMAIN busCache : busCache[b] \subseteq Batches
        /\ busFrom \in [Tasks -> Int] /\ torn \subseteq 1 .. Bus!Height
    BY DEF BusInv, BusTypeOK, Bus!TypeOK
  <2>2. QED
    BY <1>1, <1>3, <1>4, <2>1, BusTypes
<1>6. OnCourse(t)' /\ Settles(t)'
  <2>1. Seen(t)' = 0
    BY <1>3 DEF Seen
  <2>2. busCur'[t] <= busNewest'
    BY <1>1, BusNumbers
  <2>3. QED
    BY <1>2, <1>3, <2>1, <2>2 DEF OnCourse, Settles
<1>7. pending' \in [Tasks -> SUBSET ((1 .. Bus!Height) \X Batches)]
  BY <1>1 DEF BusInv
<1>8. QED
  BY <1>1, <1>2, <1>3, <1>5, <1>6, <1>7, BusTaskStep

\* The first block to fetch: those before it are cached or out of the window.
LEMMA FirstIsSound ==
    ASSUME BusInv, NEW t \in Tasks
    PROVE  /\ Bus!FirstToFetch(t) \in Int
           /\ \A b \in 1 .. Bus!Height :
                 /\ b < Bus!FirstToFetch(t) /\ InNewest(b)
                 /\ requested[b] # {}
                 => b \in DOMAIN busCache
<1>1. /\ DOMAIN busCache \subseteq 1 .. Bus!Height /\ Bus!Height \in Nat
      /\ busCur[t] \in Nat /\ busNewest \in Nat /\ busCur[t] <= busNewest
  BY BusNumbers DEF BusInv, BusTypeOK, Bus!TypeOK
<1>2. CASE DOMAIN busCache = {}
  <2>1. Bus!LastCached = -1
    BY <1>2 DEF Bus!LastCached
  <2>2. /\ Bus!FirstToFetch(t) \in Int
        /\ Bus!FirstToFetch(t) <= 0
              \/ Bus!FirstToFetch(t) = busCur[t] - LookBack
    BY <1>1, <2>1 DEF Bus!FirstToFetch
  <2>3. QED
    BY <1>1, <2>2 DEF InNewest, Bus!InWindow
<1>3. CASE DOMAIN busCache # {}
  <2>1. PICK m \in DOMAIN busCache :
           m = Bus!LastCached /\ \A b \in DOMAIN busCache : m >= b
    <3>1. Bus!LastCached = Max(DOMAIN busCache)
      BY <1>3 DEF Bus!LastCached, Bus!Max, Max
    <3>2. QED
      BY <1>1, <1>3, <3>1, MaxExists
  <2>2. m \in 1 .. Bus!Height
    BY <1>1
  <2>3. /\ Bus!FirstToFetch(t) \in Int
        /\ Bus!FirstToFetch(t) = m + 1
              \/ Bus!FirstToFetch(t) = busCur[t] - LookBack
    BY <1>1, <2>1, <2>2 DEF Bus!FirstToFetch
  <2>4. ASSUME NEW b \in 1 .. Bus!Height, b < Bus!FirstToFetch(t),
               InNewest(b), requested[b] # {}
        PROVE  b \in DOMAIN busCache
    <3>1. CASE b = m
      BY <3>1
    <3>2. CASE b # m
      <4>1. b < m
        BY <1>1, <2>2, <2>3, <2>4, <3>2 DEF InNewest, Bus!InWindow
      <4>2. QED
        BY <2>4, <4>1 DEF BusInv, EntriesInOrder
    <3>3. QED
      BY <3>1, <3>2
  <2>5. QED
    BY <2>3, <2>4
<1>4. QED
  BY <1>2, <1>3

\* A range is opened: what it leaves out is settled.
LEMMA BusOpenStep ==
    ASSUME BusInv, NEW t \in Tasks, Bus!Open(t)
    PROVE  BusInv'
<1>1. /\ busPc' = [busPc EXCEPT ![t] = "fetch"]
      /\ busFrom' = [busFrom EXCEPT ![t] = Bus!FirstToFetch(t)]
      /\ torn' = torn \union
                    {b \in DOMAIN busCache : busCache[b] # requested[b]}
      /\ busPc[t] = "open" /\ Bus!FirstToFetch(t) <= busCur[t]
      /\ UNCHANGED <<requested, reorgs, busCache, busCur, pending, busNewest,
                     latest>>
  BY DEF Bus!Open, Bus!chain
<1>2. Grows /\ EntriesInOrder' /\ Bus!Height' = Bus!Height
  BY <1>1, BusNumbers, UntouchedGrows DEF Bus!Height
<1>3. /\ busPc'[t] = "fetch" /\ pending[t] = {}
      /\ busFrom'[t] = Bus!FirstToFetch(t)
      /\ \A o \in Tasks \ {t} :
            busPc'[o] = busPc[o] /\ busFrom'[o] = busFrom[o]
  BY <1>1, BusFunctions DEF BusInv, OnCourse
<1>4. Bus!FirstToFetch(t) \in Int
  BY FirstIsSound
<1>5. BusTypeOK'
  <2>1. /\ DOMAIN busCache \subseteq 1 .. Bus!Height
        /\ \A b \in DOMAIN busCache : busCache[b] \subseteq Batches
        /\ torn \subseteq 1 .. Bus!Height
    BY DEF BusInv, BusTypeOK, Bus!TypeOK
  <2>2. /\ busPc' \in [Tasks -> {"idle", "open", "fetch", "add", "answered",
                                  "empty_range"}]
        /\ busFrom' \in [Tasks -> Int]
    BY <1>1, <1>4 DEF BusInv, BusTypeOK, Bus!TypeOK
  <2>3. torn' \subseteq 1 .. Bus!Height
    BY <1>1, <2>1
  <2>4. QED
    BY <1>1, <1>3, <2>1, <2>2, <2>3, BusTypes
<1>6. OnCourse(t)'
  BY <1>1, <1>3, BusNumbers DEF OnCourse
<1>7. Settles(t)'
  <2>1. Seen(t)' = Bus!FirstToFetch(t) - 1
    BY <1>3 DEF Seen
  <2>2. ASSUME NEW b \in 1 .. Bus!Height, b <= Bus!FirstToFetch(t) - 1,
               InNewest(b), NEW g \in requested[b]
        PROVE  Settled(b, g)'
    <3>1. b \in DOMAIN busCache
      <4>1. b < Bus!FirstToFetch(t)
        BY <1>4, <2>2, BusNumbers
      <4>2. QED
        BY <2>2, <4>1, FirstIsSound
    <3>2. QED
      BY <1>1, <3>1 DEF Settled
  <2>3. QED
    BY <1>1, <1>2, <2>1, <2>2 DEF Settles, InNewest
<1>8. pending' \in [Tasks -> SUBSET ((1 .. Bus!Height) \X Batches)]
  BY <1>1 DEF BusInv
<1>9. QED
  BY <1>1, <1>2, <1>3, <1>5, <1>6, <1>7, <1>8, BusTaskStep

\* What a step brings becomes pending.
LEMMA BusFetchStep ==
    ASSUME BusInv, NEW t \in Tasks, Bus!Fetch(t)
    PROVE  BusInv'
<1>1. /\ busPc' = [busPc EXCEPT ![t] = "add"]
      /\ pending' = [pending EXCEPT ![t] = Bus!Logs(t)]
      /\ busPc[t] = "fetch"
      /\ UNCHANGED <<requested, reorgs, busCache, busCur, busFrom, busNewest,
                     latest, torn>>
  BY DEF Bus!Fetch, Bus!chain
<1>2. Grows /\ EntriesInOrder' /\ Bus!Height' = Bus!Height
  BY <1>1, BusNumbers, UntouchedGrows DEF Bus!Height
<1>3. /\ busPc'[t] = "add" /\ pending'[t] = Bus!Logs(t)
      /\ \A o \in Tasks \ {t} :
            busPc'[o] = busPc[o] /\ pending'[o] = pending[o]
      /\ Bus!LastOfStep(t)' = Bus!LastOfStep(t)
  BY <1>1, BusFunctions DEF Bus!LastOfStep
<1>4. /\ Bus!Logs(t) \subseteq (1 .. Bus!Height) \X Batches
      /\ \A e \in Bus!Logs(t) :
            e \in (busFrom[t] .. Bus!LastOfStep(t)) \X Batches
  <2>1. ASSUME NEW e \in Bus!Logs(t)
        PROVE  /\ e \in (1 .. Bus!Height) \X Batches
               /\ e \in (busFrom[t] .. Bus!LastOfStep(t)) \X Batches
    <3>1. /\ e \in (1 .. Bus!Height) \X Batches
          /\ busFrom[t] <= e[1] /\ e[1] <= Bus!LastOfStep(t)
      BY DEF Bus!Logs
    <3>2. e[1] \in busFrom[t] .. Bus!LastOfStep(t)
      BY <3>1, BusNumbers
    <3>3. e = <<e[1], e[2]>> /\ e[2] \in Batches
      BY <3>1
    <3>4. QED
      BY <3>1, <3>2, <3>3
  <2>2. QED
    BY <2>1
<1>5. BusTypeOK'
  <2>1. /\ DOMAIN busCache \subseteq 1 .. Bus!Height
        /\ \A b \in DOMAIN busCache : busCache[b] \subseteq Batches
        /\ torn \subseteq 1 .. Bus!Height /\ busFrom \in [Tasks -> Int]
    BY DEF BusInv, BusTypeOK, Bus!TypeOK
  <2>2. busPc' \in [Tasks -> {"idle", "open", "fetch", "add", "answered",
                              "empty_range"}]
    BY <1>1 DEF BusInv, BusTypeOK, Bus!TypeOK
  <2>3. QED
    BY <1>1, <1>3, <1>4, <2>1, <2>2, BusTypes
<1>6. OnCourse(t)'
  BY <1>1, <1>3 DEF BusInv, OnCourse
<1>7. Settles(t)'
  <2>1. Seen(t)' = Bus!LastOfStep(t) /\ Seen(t) = busFrom[t] - 1
    BY <1>1, <1>3 DEF Seen
  <2>2. ASSUME NEW b \in 1 .. Bus!Height, b <= Bus!LastOfStep(t),
               InNewest(b), Fixed(t, b), NEW g \in requested[b]
        PROVE  <<b, g>> \in Bus!Logs(t) \/ Settled(b, g)
    <3>1. CASE b >= busFrom[t]
      <4>1. g \in Batches
        BY DEF BusInv, BusTypeOK, Bus!TypeOK, Bus!Height
      <4>2. QED
        BY <2>2, <3>1, <4>1 DEF Bus!Logs
    <3>2. CASE ~(b >= busFrom[t])
      <4>1. b <= Seen(t)
        BY <2>1, <3>2, BusNumbers
      <4>2. QED
        BY <1>1, <2>2, <4>1 DEF BusInv, Settles, OnCourse
    <3>3. QED
      BY <3>1, <3>2
  <2>3. \A b, g : Settled(b, g)' = Settled(b, g)
    BY <1>1 DEF Settled
  <2>4. \A b : InNewest(b)' = InNewest(b) /\ Fixed(t, b)' = Fixed(t, b)
    BY <1>1 DEF InNewest, Fixed
  <2>5. QED
    BY <1>1, <1>2, <1>3, <2>1, <2>2, <2>3, <2>4 DEF Settles
<1>8. pending' \in [Tasks -> SUBSET ((1 .. Bus!Height) \X Batches)]
  BY <1>1, <1>4 DEF BusInv
<1>9. QED
  BY <1>1, <1>2, <1>3, <1>5, <1>6, <1>7, <1>8, BusTaskStep
\* The next block of an update is the first with a pending event.
LEMMA NextIsFirst ==
    ASSUME BusInv, NEW t \in Tasks, pending[t] # {}
    PROVE  /\ Bus!NextBlock(t) \in 1 .. Bus!Height
           /\ Bus!NextBlock(t) <= Bus!LastOfStep(t)
           /\ \E g \in Batches : <<Bus!NextBlock(t), g>> \in pending[t]
           /\ \A b \in 1 .. Bus!Height : \A g :
                 <<b, g>> \in pending[t] => Bus!NextBlock(t) <= b
<1> DEFINE S == {e[1] : e \in pending[t]}
<1>1. /\ pending[t] \subseteq (1 .. Bus!Height) \X Batches
      /\ Bus!Height \in Nat
  BY BusNumbers DEF BusInv
<1>2. S \subseteq 1 .. Bus!Height /\ S # {}
  BY <1>1
<1>3. PICK m \in S : \A b \in S : m <= b
  <2>1. S \subseteq Nat
    BY <1>1, <1>2
  <2>2. PICK x \in S : \A b \in S : ~ (<<b, x>> \in OpToRel(<, Nat))
    BY <1>2, <2>1, NatLessThanWellFounded, WFMin
  <2>3. ASSUME NEW b \in S PROVE x <= b
    <3>1. b \in Nat /\ x \in Nat
      BY <2>1
    <3>2. ~ (b < x)
      BY <2>2, <3>1 DEF OpToRel
    <3>3. QED
      BY <3>1, <3>2
  <2>4. QED
    BY <2>3
<1>4. Bus!NextBlock(t) \in S /\ \A b \in S : Bus!NextBlock(t) <= b
  <2>1. Bus!NextBlock(t) = CHOOSE x \in S : \A b \in S : x <= b
    BY DEF Bus!NextBlock, Bus!Min
  <2>2. QED
    BY <1>3, <2>1
<1>5. PICK e \in pending[t] : Bus!NextBlock(t) = e[1]
  BY <1>4
<1>6. e = <<e[1], e[2]>> /\ e[2] \in Batches
  BY <1>1
<1>7. Bus!NextBlock(t) <= Bus!LastOfStep(t)
  <2>1. e \in (busFrom[t] .. Bus!LastOfStep(t)) \X Batches
    BY DEF BusInv, BusTypeOK, Bus!TypeOK
  <2>2. QED
    BY <1>5, <2>1, BusNumbers
<1>8. ASSUME NEW b, NEW g, <<b, g>> \in pending[t]
      PROVE  b \in S
  <2>1. <<b, g>>[1] = b
    OBVIOUS
  <2>2. QED
    BY <1>8, <2>1
<1>9. QED
  BY <1>2, <1>4, <1>5, <1>6, <1>7, <1>8

\* The entry comes after those of the blocks below it.
LEMMA BusNewEntryStep ==
    ASSUME BusInv, NEW t \in Tasks, Bus!NewEntry(t)
    PROVE  BusInv'
<1> DEFINE nb == Bus!NextBlock(t)
<1>1. /\ busPc[t] = "add" /\ pending[t] # {} /\ nb \notin DOMAIN busCache
      /\ busCache' = [b \in DOMAIN busCache \union {nb} |->
                         IF b \in DOMAIN busCache THEN busCache[b] ELSE {}]
      /\ UNCHANGED <<requested, reorgs, busPc, busCur, busFrom, pending,
                     busNewest, latest, torn>>
  BY DEF Bus!NewEntry, Bus!chain
<1>2. /\ nb \in 1 .. Bus!Height /\ nb <= Bus!LastOfStep(t)
      /\ \A b \in 1 .. Bus!Height : \A g :
            <<b, g>> \in pending[t] => nb <= b
  BY <1>1, NextIsFirst
<1> HIDE DEF nb
<1>3. Grows /\ Bus!Height' = Bus!Height
  BY <1>1, BusNumbers DEF Grows, Bus!Height
<1>4. BusTypeOK'
  <2>1. /\ DOMAIN busCache \subseteq 1 .. Bus!Height
        /\ \A b \in DOMAIN busCache : busCache[b] \subseteq Batches
        /\ torn \subseteq 1 .. Bus!Height /\ busFrom \in [Tasks -> Int]
        /\ busPc \in [Tasks -> {"idle", "open", "fetch", "add", "answered",
                                "empty_range"}]
        /\ \A e \in pending[t] :
              e \in (busFrom[t] .. Bus!LastOfStep(t)) \X Batches
    BY DEF BusInv, BusTypeOK, Bus!TypeOK
  <2>2. /\ DOMAIN busCache' \subseteq 1 .. Bus!Height
        /\ \A b \in DOMAIN busCache' : busCache'[b] \subseteq Batches
    BY <1>1, <1>2, <2>1
  <2>3. Bus!LastOfStep(t)' = Bus!LastOfStep(t)
    BY <1>1 DEF Bus!LastOfStep
  <2>4. QED
    BY <1>1, <2>1, <2>2, <2>3, BusTypes
<1>5. EntriesInOrder'
  <2> SUFFICES ASSUME NEW m \in DOMAIN busCache', NEW b \in 1 .. Bus!Height,
                      b < m, InNewest(b), requested[b] # {}
               PROVE  b \in DOMAIN busCache'
    BY <1>1, <1>3 DEF EntriesInOrder, InNewest
  <2>1. CASE m \in DOMAIN busCache
    BY <1>1, <2>1 DEF BusInv, EntriesInOrder
  <2>2. CASE m \notin DOMAIN busCache
    <3>1. m = nb /\ b < nb
      BY <1>1, <2>2
    <3>2. b <= Seen(t) /\ Fixed(t, b)
      BY <1>1, <1>2, <3>1, BusNumbers DEF Seen, Fixed
    <3>3. PICK g \in requested[b] : TRUE
      OBVIOUS
    <3>4. <<b, g>> \notin pending[t]
      BY <1>2, <3>1, BusNumbers
    <3>5. Settled(b, g)
      BY <3>2, <3>3, <3>4 DEF BusInv, Settles
    <3>6. QED
      BY <1>1, <3>5 DEF Settled
  <2>3. QED
    BY <2>1, <2>2
<1>6. OnCourse(t)' /\ Settles(t)'
  BY <1>1, <1>3, OthersStay
<1>7. QED
  BY <1>1, <1>3, <1>4, <1>5, <1>6, BusTaskStep DEF BusInv

\* The batch is in its entry from the step on in which it stops pending.
LEMMA BusAddBatchStep ==
    ASSUME BusInv, NEW t \in Tasks, NEW g \in Batches, pending[t] # {},
           Bus!AddBatch(t, g)
    PROVE  BusInv'
<1> DEFINE nb == Bus!NextBlock(t)
<1>1. /\ busPc[t] = "add" /\ nb \in DOMAIN busCache
      /\ busCache' = [busCache EXCEPT ![nb] = @ \union {g}]
      /\ pending' = [pending EXCEPT ![t] = @ \ {<<nb, g>>}]
      /\ UNCHANGED <<requested, reorgs, busPc, busCur, busFrom, busNewest,
                     latest, torn>>
  BY DEF Bus!AddBatch, Bus!chain
<1> HIDE DEF nb
<1>2. /\ DOMAIN busCache' = DOMAIN busCache
      /\ \A b \in DOMAIN busCache :
            busCache'[b] = IF b = nb THEN busCache[b] \union {g}
                                     ELSE busCache[b]
  BY <1>1
<1>3. Grows /\ EntriesInOrder' /\ Bus!Height' = Bus!Height
  <2>1. Grows
    BY <1>1, <1>2, BusNumbers DEF Grows
  <2>2. QED
    BY <1>1, <1>2, <2>1, OrderStays DEF Bus!Height
<1>4. /\ pending'[t] = pending[t] \ {<<nb, g>>}
      /\ \A o \in Tasks \ {t} : pending'[o] = pending[o]
      /\ Bus!LastOfStep(t)' = Bus!LastOfStep(t)
  BY <1>1, BusFunctions DEF Bus!LastOfStep
<1>5. BusTypeOK'
  <2>1. /\ DOMAIN busCache \subseteq 1 .. Bus!Height
        /\ \A b \in DOMAIN busCache : busCache[b] \subseteq Batches
        /\ torn \subseteq 1 .. Bus!Height /\ busFrom \in [Tasks -> Int]
        /\ busPc \in [Tasks -> {"idle", "open", "fetch", "add", "answered",
                                "empty_range"}]
        /\ \A e \in pending[t] :
              e \in (busFrom[t] .. Bus!LastOfStep(t)) \X Batches
    BY DEF BusInv, BusTypeOK, Bus!TypeOK
  <2>2. \A b \in DOMAIN busCache' : busCache'[b] \subseteq Batches
    BY <1>2, <2>1
  <2>3. QED
    BY <1>1, <1>2, <1>4, <2>1, <2>2, BusTypes
<1>6. OnCourse(t)'
  BY <1>1, <1>4 DEF BusInv, OnCourse
<1>7. Settles(t)'
  <2>1. Seen(t)' = Seen(t)
    BY <1>1, <1>4 DEF Seen
  <2>2. ASSUME NEW b \in 1 .. Bus!Height, b <= Seen(t), InNewest(b),
               Fixed(t, b), NEW h \in requested[b]
        PROVE  <<b, h>> \in pending'[t] \/ Settled(b, h)'
    <3>1. <<b, h>> \in pending[t] \/ Settled(b, h)
      BY <2>2 DEF BusInv, Settles
    <3>2. CASE <<b, h>> = <<nb, g>>
      <4>1. b = nb /\ h = g
        BY <3>2
      <4>2. QED
        BY <1>1, <1>2, <4>1 DEF Settled
    <3>3. CASE <<b, h>> # <<nb, g>>
      BY <1>1, <1>2, <1>4, <3>1, <3>3 DEF Settled
    <3>4. QED
      BY <3>2, <3>3
  <2>3. \A b : InNewest(b)' = InNewest(b) /\ Fixed(t, b)' = Fixed(t, b)
    BY <1>1 DEF InNewest, Fixed
  <2>4. QED
    BY <1>1, <1>3, <2>1, <2>2, <2>3 DEF Settles
<1>8. pending' \in [Tasks -> SUBSET ((1 .. Bus!Height) \X Batches)]
  BY <1>1 DEF BusInv
<1>9. QED
  BY <1>1, <1>3, <1>4, <1>5, <1>6, <1>7, <1>8, BusTaskStep

\* The next step begins where this one ended.
LEMMA BusStepAddedStep ==
    ASSUME BusInv, NEW t \in Tasks, Bus!StepAdded(t)
    PROVE  BusInv'
<1>1. /\ busPc[t] = "add" /\ pending[t] = {}
      /\ Bus!LastOfStep(t) < busCur[t]
      /\ busPc' = [busPc EXCEPT ![t] = "fetch"]
      /\ busFrom' = [busFrom EXCEPT ![t] = Bus!LastOfStep(t) + 1]
      /\ UNCHANGED <<requested, reorgs, busCache, busCur, pending, busNewest,
                     latest, torn>>
  BY DEF Bus!StepAdded, Bus!chain
<1>2. Grows /\ EntriesInOrder' /\ Bus!Height' = Bus!Height
  BY <1>1, BusNumbers, UntouchedGrows DEF Bus!Height
<1>3. /\ busPc'[t] = "fetch" /\ busFrom'[t] = Bus!LastOfStep(t) + 1
      /\ \A o \in Tasks \ {t} :
            busPc'[o] = busPc[o] /\ busFrom'[o] = busFrom[o]
  BY <1>1, BusFunctions
<1>4. Bus!LastOfStep(t) + 1 \in Int /\ Bus!LastOfStep(t) + 1 <= busCur[t]
  BY <1>1, BusNumbers
<1>5. BusTypeOK'
  <2>1. /\ DOMAIN busCache \subseteq 1 .. Bus!Height
        /\ \A b \in DOMAIN busCache : busCache[b] \subseteq Batches
        /\ torn \subseteq 1 .. Bus!Height
    BY DEF BusInv, BusTypeOK, Bus!TypeOK
  <2>2. /\ busPc' \in [Tasks -> {"idle", "open", "fetch", "add", "answered",
                                  "empty_range"}]
        /\ busFrom' \in [Tasks -> Int]
    BY <1>1, <1>4 DEF BusInv, BusTypeOK, Bus!TypeOK
  <2>3. QED
    BY <1>1, <1>3, <2>1, <2>2, BusTypes
<1>6. OnCourse(t)'
  BY <1>1, <1>3, <1>4 DEF BusInv, OnCourse
<1>7. Settles(t)'
  <2>1. Seen(t)' = Seen(t)
    <3>1. Seen(t)' = (Bus!LastOfStep(t) + 1) - 1 /\ Seen(t) = Bus!LastOfStep(t)
      BY <1>1, <1>3 DEF Seen
    <3>2. QED
      BY <3>1, BusNumbers
  <2>2. \A b, g : Settled(b, g)' = Settled(b, g)
    BY <1>1 DEF Settled
  <2>3. \A b : InNewest(b)' = InNewest(b) /\ Fixed(t, b)' = Fixed(t, b)
    BY <1>1 DEF InNewest, Fixed
  <2>4. QED
    BY <1>1, <1>2, <2>1, <2>2, <2>3 DEF BusInv, Settles
<1>8. QED
  BY <1>1, <1>2, <1>3, <1>5, <1>6, <1>7, BusTaskStep DEF BusInv

\* What a task prunes is out of the newest window, too.
LEMMA BusAllAddedStep ==
    ASSUME BusInv, NEW t \in Tasks, Bus!AllAdded(t)
    PROVE  BusInv'
<1>1. /\ busPc[t] = "add" /\ pending[t] = {}
      /\ Bus!LastOfStep(t) = busCur[t]
      /\ busCache' = [b \in {x \in DOMAIN busCache :
                                Bus!InWindow(x, busCur[t])} |-> busCache[b]]
      /\ busPc' = [busPc EXCEPT ![t] = "answered"]
      /\ UNCHANGED <<requested, reorgs, busCur, busFrom, pending, busNewest,
                     latest, torn>>
  BY DEF Bus!AllAdded, Bus!chain
<1>2. /\ DOMAIN busCache' \subseteq DOMAIN busCache
      /\ \A b \in DOMAIN busCache' : busCache'[b] = busCache[b]
  BY <1>1
<1>3. Grows /\ EntriesInOrder' /\ Bus!Height' = Bus!Height
  <2>1. ASSUME NEW b \in DOMAIN busCache, InNewest(b)
        PROVE  b \in DOMAIN busCache' /\ busCache'[b] = busCache[b]
    <3>1. b \in Int
      BY BusNumbers DEF BusInv, BusTypeOK, Bus!TypeOK
    <3>2. Bus!InWindow(b, busCur[t])
      BY <2>1, <3>1, BusNumbers, WindowMoves DEF InNewest
    <3>3. QED
      BY <1>1, <3>2
  <2>2. Grows
    BY <1>1, <2>1, BusNumbers DEF Grows, InNewest
  <2>3. QED
    BY <1>1, <1>2, <2>2, OrderStays DEF Bus!Height
<1>4. /\ busPc'[t] = "answered"
      /\ \A o \in Tasks \ {t} : busPc'[o] = busPc[o]
  BY <1>1, BusFunctions
<1>5. BusTypeOK'
  <2>1. /\ DOMAIN busCache \subseteq 1 .. Bus!Height
        /\ \A b \in DOMAIN busCache : busCache[b] \subseteq Batches
        /\ torn \subseteq 1 .. Bus!Height /\ busFrom \in [Tasks -> Int]
    BY DEF BusInv, BusTypeOK, Bus!TypeOK
  <2>2. busPc' \in [Tasks -> {"idle", "open", "fetch", "add", "answered",
                              "empty_range"}]
    BY <1>1 DEF BusInv, BusTypeOK, Bus!TypeOK
  <2>3. /\ DOMAIN busCache' \subseteq 1 .. Bus!Height
        /\ \A b \in DOMAIN busCache' : busCache'[b] \subseteq Batches
    BY <1>2, <2>1
  <2>4. QED
    BY <1>1, <2>1, <2>2, <2>3, BusTypes
<1>6. OnCourse(t)'
  BY <1>1, <1>4 DEF BusInv, OnCourse
<1>7. Settles(t)'
  <2>1. Seen(t)' = Seen(t)
    BY <1>1, <1>4 DEF Seen
  <2>2. \A b : InNewest(b)' = InNewest(b) /\ Fixed(t, b)' = Fixed(t, b)
    BY <1>1 DEF InNewest, Fixed
  <2>3. \A b, g : InNewest(b) /\ Settled(b, g) => Settled(b, g)'
    BY <1>3, <2>2, SettledStays
  <2>4. QED
    BY <1>1, <1>3, <2>1, <2>2, <2>3 DEF BusInv, Settles
<1>8. QED
  BY <1>1, <1>3, <1>4, <1>5, <1>6, <1>7, BusTaskStep DEF BusInv
-----------------------------------------------------------------------------
(* The theorems.                                                           *)

LEMMA BusStep == BusInv /\ [Bus!Next]_busVars => BusInv'
<1> SUFFICES ASSUME BusInv, [Bus!Next]_busVars PROVE BusInv'
  OBVIOUS
<1>1. CASE UNCHANGED busVars
  <2>1. Grows /\ EntriesInOrder' /\ Bus!Height' = Bus!Height
    BY <1>1, BusNumbers, UntouchedGrows DEF busVars, Bus!Height
  <2>2. BusTypeOK'
    BY <1>1, <2>1
       DEF busVars, BusInv, BusTypeOK, Bus!TypeOK, Bus!LastOfStep
  <2>3. \A t \in Tasks : OnCourse(t)' /\ Settles(t)'
    BY <1>1, <2>1, OthersStay DEF busVars
  <2>4. QED
    BY <1>1, <2>1, <2>2, <2>3 DEF busVars, BusInv
<1>2. QED
  BY <1>1, BusNewBlockStep, BusReorgStep, BusBeginStep, BusFailsStep,
     BusOpenStep, BusFetchStep, BusNewEntryStep, BusAddBatchStep,
     BusStepAddedStep, BusAllAddedStep
     DEF Bus!Next

\* Whichever cache is looked at, the bus is at its start or takes its own steps.
LEMMA BusInductive == MCSpec => []BusInv
<1>1. MCInit => BusInv
  BY BusInit DEF MCInit
<1>2. BusInv /\ [MCNext]_<<part, vars, busVars>> => BusInv'
  BY BusStep DEF MCNext
<1>3. QED
  BY <1>1, <1>2, PTL DEF MCSpec

\* Overlapping updates keep the cache of consolidations well formed, and add
\* events of the step they fetched only.
THEOREM BusTypeCorrect == MCSpec => []BusTypeOK
<1>1. BusInv => BusTypeOK
  BY DEF BusInv
<1>2. QED
  BY <1>1, BusInductive, PTL

\* When the update for the newest head has returned, every batch of its window
\* is known, but those of blocks skipped with an entry not whole: whatever
\* other updates do, and however often the newest block is replaced.
THEOREM BatchesAreKnown == MCSpec => []BatchesKnown
<1>1. BusInv => BatchesKnown
  <2> SUFFICES ASSUME BusInv, NEW t \in latest, busPc[t] = "answered",
                      NEW b \in 1 .. busCur[t],
                      Bus!InWindow(b, busCur[t]), requested[b] # {}
               PROVE  /\ b \in DOMAIN busCache
                      /\ b \in torn \/ requested[b] \subseteq busCache[b]
    BY DEF BatchesKnown, Bus!BatchesKnown
  <2>1. t \in Tasks /\ busCur[t] = busNewest
    BY DEF BusInv, BusTypeOK, Bus!TypeOK
  <2>2. /\ b \in 1 .. Bus!Height /\ b <= Seen(t)
        /\ InNewest(b) /\ Fixed(t, b)
    BY <2>1, BusNumbers DEF Seen, InNewest, Fixed
  <2>3. pending[t] = {}
    BY <2>1 DEF BusInv, OnCourse
  <2>4. \A g \in requested[b] : Settled(b, g)
    BY <2>1, <2>2, <2>3 DEF BusInv, Settles
  <2>5. QED
    BY <2>4 DEF Settled
<1>2. QED
  BY <1>1, BusInductive, PTL
=============================================================================
