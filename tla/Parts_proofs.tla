---------------------------- MODULE Parts_proofs ----------------------------
(***************************************************************************)
(* Proofs about five parts of the watcher, each from the specification of  *)
(* the part: the copy of the users' keys for any hosts of the Keys API and *)
(* any number of refreshes, the keys file for any number of edits, a range *)
(* of any length, a request over any number of hosts, and the start with   *)
(* any depth of the stack and any number of outages.                       *)
(***************************************************************************)
EXTENDS Parts, SequenceTheorems, TLAPS

-----------------------------------------------------------------------------
(* The Keys API source.  The status is read before the keys and stored     *)
(* after them; in between a host may only have moved on, so keys that come *)
(* from the same host are at least as new as the status says.              *)

USE BoundsAssumption

\* The nonce of the API grows.
SnapshotsGrow ==
    \A i, j \in 1 .. Now : i <= j => snapshots[i] <= snapshots[j]

\* An update past its first request has read a status, which the host that
\* answered has not gone back behind; and keys of that host are no older.
ApiOnCourse ==
    /\ pc \in {"modules", "operators", "keys", "parse"} =>
          /\ current # 0
          /\ statusFrom \in KeysHosts
          /\ current <= serves[statusFrom]
    /\ pc = "parse" /\ ~mixed => snapshots[current] <= keys

ApiInv ==
    /\ TypeOK
    /\ SnapshotsGrow
    /\ ApiOnCourse
    /\ StatusCovered

\* The newest snapshot is a number, and no snapshot is ahead of it.
LEMMA LatestIsNewest ==
    ASSUME TypeOK, SnapshotsGrow
    PROVE  /\ Now \in Nat \ {0}
           /\ Latest \in Nat
           /\ \A i \in 1 .. Now : snapshots[i] \in Nat /\ snapshots[i] <= Latest
<1>1. Now \in Nat \ {0} /\ snapshots \in [1 .. Now -> Nat]
  <2>1. snapshots \in Seq(Nat) /\ Now \in 1 .. MaxSnapshots
    BY DEF TypeOK
  <2>2. snapshots \in [1 .. Len(snapshots) -> Nat]
    BY <2>1
  <2>3. QED
    BY <2>1, <2>2 DEF Now
<1>2. Now \in 1 .. Now
  BY <1>1
<1>3. QED
  BY <1>1, <1>2 DEF Latest, SnapshotsGrow

\* What a host serves is a snapshot, and so a number no newer than the newest.
LEMMA ServedIsNumber ==
    ASSUME TypeOK, SnapshotsGrow, NEW k \in KeysHosts
    PROVE  /\ serves[k] \in 1 .. Now
           /\ Served(k) \in 0 .. Latest
<1>1. serves[k] \in 1 .. Now
  BY DEF TypeOK
<1>2. QED
  BY <1>1, LatestIsNewest DEF Served

\* The invariant holds before the first update.
LEMMA ApiInvInit == Init => ApiInv
<1> SUFFICES ASSUME Init PROVE ApiInv
  OBVIOUS
<1>1. Now = 1 /\ snapshots[1] = 1 /\ snapshots \in Seq(Nat)
  BY DEF Init, Now
<1>2. Latest = 1
  BY <1>1 DEF Latest
<1>3. TypeOK
  <2>1. serves \in [KeysHosts -> 1 .. Now]
    BY <1>1 DEF Init
  <2>2. mixed \in BOOLEAN /\ mixedTaken \in BOOLEAN
    BY DEF Init
  <2>3. QED
    BY <1>1, <1>2, <2>1, <2>2 DEF Init, TypeOK
<1>4. SnapshotsGrow
  BY <1>1 DEF SnapshotsGrow
<1>5. QED
  BY <1>3, <1>4 DEF Init, ApiInv, ApiOnCourse, StatusCovered, KeysNotOutdated

\* A block only adds a snapshot, at least as new as the newest.
LEMMA ApiNewBlockStep ==
    ASSUME ApiInv, NewBlock
    PROVE  ApiInv'
<1>1. /\ TypeOK /\ SnapshotsGrow /\ ApiOnCourse /\ StatusCovered
      /\ Now \in Nat \ {0} /\ Latest \in Nat /\ Now < MaxSnapshots
      /\ \A i \in 1 .. Now : snapshots[i] \in Nat /\ snapshots[i] <= Latest
  BY LatestIsNewest DEF ApiInv, NewBlock
<1>2. PICK n \in {Latest, Latest + 1} : snapshots' = Append(snapshots, n)
  BY DEF NewBlock
<1>3. n \in Nat /\ n >= Latest
  BY <1>1, <1>2
<1>4. /\ snapshots' \in Seq(Nat) /\ Now' = Now + 1
      /\ \A i \in 1 .. Now : snapshots'[i] = snapshots[i]
      /\ snapshots'[Now + 1] = n
  <2>1. snapshots \in Seq(Nat)
    BY <1>1 DEF TypeOK
  <2>2. QED
    BY <1>2, <1>3, <2>1, AppendProperties DEF Now
<1>5. Latest' = n
  BY <1>4 DEF Latest
<1>6. UNCHANGED <<serves, status, nonce, userKeys, pc, current, operators,
                  keys, statusFrom, mixed, mixedTaken, failures>>
  BY DEF NewBlock, source, answers, history
<1>7. TypeOK'
  <2>1. Now' \in 1 .. MaxSnapshots
    BY <1>1, <1>4
  <2>2. status \in 0 .. Now' /\ current \in 0 .. Now'
    BY <1>1, <1>4 DEF TypeOK
  <2>3. serves \in [KeysHosts -> 1 .. Now']
    <3>1. 1 .. Now \subseteq 1 .. Now'
      BY <1>1, <1>4
    <3>2. QED
      BY <1>1, <3>1 DEF TypeOK
  <2>4. /\ nonce \in 0 .. Latest' /\ userKeys \in 0 .. Latest'
        /\ operators \in 0 .. Latest' /\ keys \in 0 .. Latest'
    BY <1>1, <1>3, <1>5 DEF TypeOK
  <2>5. /\ pc' \in {"idle", "status", "modules", "operators", "keys", "parse",
                    "same_nonce"} /\ failures' \in 0 .. MaxFailures
        /\ statusFrom' \in KeysHosts \union {NoHost}
        /\ mixed' \in BOOLEAN /\ mixedTaken' \in BOOLEAN
    BY <1>1, <1>6 DEF TypeOK
  <2>6. QED
    BY <1>4, <1>6, <2>1, <2>2, <2>3, <2>4, <2>5 DEF TypeOK
<1>8. SnapshotsGrow'
  <2> SUFFICES ASSUME NEW i \in 1 .. (Now + 1), NEW j \in 1 .. (Now + 1), i <= j
               PROVE  snapshots'[i] <= snapshots'[j]
    BY <1>4 DEF SnapshotsGrow
  <2>1. CASE j <= Now
    BY <1>1, <1>4, <2>1 DEF SnapshotsGrow
  <2>2. CASE i <= Now /\ j = Now + 1
    BY <1>1, <1>3, <1>4, <2>2
  <2>3. CASE i = Now + 1 /\ j = Now + 1
    BY <1>3, <1>4, <2>3
  <2>4. QED
    BY <1>1, <2>1, <2>2, <2>3
<1>9. ApiOnCourse'
  <2>1. ASSUME pc = "parse", ~mixed PROVE snapshots'[current] <= keys
    <3>1. current \in 1 .. Now
      BY <1>1, <2>1 DEF TypeOK, ApiOnCourse
    <3>2. QED
      BY <1>1, <1>4, <2>1, <3>1 DEF ApiOnCourse
  <2>2. QED
    BY <1>1, <1>6, <2>1 DEF ApiOnCourse
<1>10. StatusCovered'
  <2>1. ASSUME status # 0, ~mixedTaken PROVE snapshots'[status] <= userKeys
    <3>1. status \in 1 .. Now
      BY <1>1, <2>1 DEF TypeOK
    <3>2. QED
      BY <1>1, <1>4, <2>1, <3>1 DEF StatusCovered, KeysNotOutdated
  <2>2. QED
    BY <1>6, <2>1 DEF StatusCovered, KeysNotOutdated
<1>11. QED
  BY <1>7, <1>8, <1>9, <1>10 DEF ApiInv

\* A host that refreshes only moves on.
LEMMA ApiRefreshStep ==
    ASSUME ApiInv, NEW k \in KeysHosts, Refresh(k)
    PROVE  ApiInv'
<1>1. /\ TypeOK /\ SnapshotsGrow /\ ApiOnCourse /\ StatusCovered
      /\ Now \in Nat \ {0}
  BY LatestIsNewest DEF ApiInv
<1>2. PICK i \in (serves[k] + 1) .. Now : serves' = [serves EXCEPT ![k] = i]
  BY DEF Refresh
<1>3. UNCHANGED <<snapshots, status, nonce, userKeys, pc, current, operators,
                  keys, statusFrom, mixed, mixedTaken, failures>>
  BY DEF Refresh, source, answers, history
<1>4. serves \in [KeysHosts -> 1 .. Now] /\ i \in 1 .. Now /\ i > serves[k]
  <2>1. serves \in [KeysHosts -> 1 .. Now]
    BY <1>1 DEF TypeOK
  <2>2. serves[k] \in 1 .. Now
    BY <2>1
  <2>3. QED
    BY <1>1, <1>2, <2>1, <2>2
<1>5. /\ serves' \in [KeysHosts -> 1 .. Now]
      /\ \A j \in KeysHosts : serves[j] <= serves'[j]
  <2>1. serves' \in [KeysHosts -> 1 .. Now]
    BY <1>2, <1>4
  <2>2. ASSUME NEW j \in KeysHosts PROVE serves[j] <= serves'[j]
    <3>1. serves[j] \in 1 .. Now
      BY <1>4
    <3>2. CASE j = k
      BY <1>1, <1>2, <1>4, <3>1, <3>2
    <3>3. CASE j # k
      BY <1>1, <1>2, <1>4, <3>1, <3>3
    <3>4. QED
      BY <3>2, <3>3
  <2>3. QED
    BY <2>1, <2>2
<1>6. Now' = Now /\ Latest' = Latest
  BY <1>3 DEF Now, Latest
<1>7. TypeOK'
  BY <1>1, <1>3, <1>5, <1>6 DEF TypeOK
<1>8. SnapshotsGrow' /\ StatusCovered'
  BY <1>1, <1>3, <1>6 DEF SnapshotsGrow, StatusCovered, KeysNotOutdated
<1>9. ApiOnCourse'
  <2>1. ASSUME pc \in {"modules", "operators", "keys", "parse"}
        PROVE  current <= serves'[statusFrom]
    <3>1. statusFrom \in KeysHosts /\ current <= serves[statusFrom]
      BY <1>1, <2>1 DEF ApiOnCourse
    <3>2. /\ serves[statusFrom] <= serves'[statusFrom] /\ current \in 0 .. Now
          /\ serves[statusFrom] \in 1 .. Now /\ serves'[statusFrom] \in 1 .. Now
      BY <1>1, <1>4, <1>5, <3>1 DEF TypeOK
    <3>3. QED
      BY <1>1, <3>1, <3>2
  <2>2. QED
    BY <1>1, <1>3, <2>1 DEF ApiOnCourse
<1>10. QED
  BY <1>7, <1>8, <1>9 DEF ApiInv

\* Every step of an update leaves the API alone, and takes over what a host
\* answers at this moment.
LEMMA ApiUpdateStep ==
    ASSUME ApiInv,
           \/ Begin \/ Fails \/ TakeKeys
           \/ \E k \in KeysHosts : \/ GetStatus(k) \/ GetModules(k)
                                   \/ GetOperators(k) \/ GetKeys(k)
    PROVE  ApiInv'
<1>1. /\ TypeOK /\ SnapshotsGrow /\ ApiOnCourse /\ StatusCovered
      /\ Now \in Nat \ {0} /\ Latest \in Nat
      /\ \A i \in 1 .. Now : snapshots[i] \in Nat /\ snapshots[i] <= Latest
  BY LatestIsNewest DEF ApiInv
<1>2. /\ snapshots' = snapshots /\ serves' = serves
      /\ Now' = Now /\ Latest' = Latest
  BY DEF Begin, Fails, GetStatus, GetModules, GetOperators, GetKeys, TakeKeys,
     api, Now, Latest
<1>3. SnapshotsGrow'
  BY <1>1, <1>2 DEF SnapshotsGrow
<1>4. TypeOK' /\ ApiOnCourse' /\ StatusCovered'
  <2> USE DEF StatusCovered, KeysNotOutdated, source, answers, history
  <2>1. CASE Begin
    BY <1>1, <1>2, <2>1 DEF Begin, TypeOK, ApiOnCourse
  <2>2. CASE Fails
    BY <1>1, <1>2, <2>2 DEF Fails, TypeOK, ApiOnCourse
  <2>3. ASSUME NEW k \in KeysHosts, GetStatus(k)
        PROVE  TypeOK' /\ ApiOnCourse' /\ StatusCovered'
    <3>1. serves[k] \in 1 .. Now
      BY <1>1, ServedIsNumber
    <3>2. QED
      BY <1>1, <1>2, <2>3, <3>1 DEF GetStatus, TypeOK, ApiOnCourse
  <2>4. ASSUME NEW k \in KeysHosts, GetModules(k)
        PROVE  TypeOK' /\ ApiOnCourse' /\ StatusCovered'
    <3>1. Served(k) \in 0 .. Latest
      BY <1>1, ServedIsNumber
    <3>2. QED
      BY <1>1, <1>2, <2>4, <3>1 DEF GetModules, TypeOK, ApiOnCourse
  <2>5. ASSUME NEW k \in KeysHosts, GetOperators(k)
        PROVE  TypeOK' /\ ApiOnCourse' /\ StatusCovered'
    <3>1. Served(k) \in 0 .. Latest
      BY <1>1, ServedIsNumber
    <3>2. QED
      BY <1>1, <1>2, <2>5, <3>1 DEF GetOperators, TypeOK, ApiOnCourse
  <2>6. ASSUME NEW k \in KeysHosts, GetKeys(k)
        PROVE  TypeOK' /\ ApiOnCourse' /\ StatusCovered'
    <3>1. Served(k) \in 0 .. Latest /\ serves[k] \in 1 .. Now
      BY <1>1, ServedIsNumber
    <3>2. current \in 1 .. Now /\ current <= serves[statusFrom]
      BY <1>1, <2>6 DEF GetKeys, TypeOK, ApiOnCourse
    <3>3. k = statusFrom => snapshots[current] <= Served(k)
      BY <1>1, <3>1, <3>2 DEF SnapshotsGrow, Served
    <3>4. QED
      BY <1>1, <1>2, <2>6, <3>1, <3>3 DEF GetKeys, TypeOK, ApiOnCourse
  <2>7. CASE TakeKeys
    <3>1. pc = "parse" /\ (~mixed => snapshots[current] <= keys)
      BY <1>1, <2>7 DEF TakeKeys, ApiOnCourse
    <3>2. CASE OperatorsKnown
      BY <1>1, <1>2, <2>7, <3>1, <3>2
         DEF TakeKeys, StatusRead, TypeOK, ApiOnCourse
    <3>3. CASE ~OperatorsKnown
      BY <1>1, <1>2, <2>7, <3>3 DEF TakeKeys, TypeOK, ApiOnCourse
    <3>4. QED
      BY <3>2, <3>3
  <2>8. QED
    BY <2>1, <2>2, <2>3, <2>4, <2>5, <2>6, <2>7
<1>5. QED
  BY <1>3, <1>4 DEF ApiInv

\* Every step keeps the invariant.
LEMMA ApiStep == ApiInv /\ [Next]_vars => ApiInv'
<1> SUFFICES ASSUME ApiInv, [Next]_vars PROVE ApiInv'
  OBVIOUS
<1>1. CASE UNCHANGED vars
  BY <1>1 DEF vars, ApiInv, TypeOK, SnapshotsGrow, ApiOnCourse, StatusCovered,
     KeysNotOutdated, Now, Latest
<1>2. CASE Next
  BY <1>2, ApiNewBlockStep, ApiRefreshStep, ApiUpdateStep DEF Next
<1>3. QED
  BY <1>1, <1>2

\* The invariant holds at all times.
LEMMA ApiInductive == Spec => []ApiInv
<1>1. QED
  BY ApiInvInit, ApiStep, PTL DEF Spec

\* The source keeps its types, and remembers nothing the API has not answered.
THEOREM ApiTypeCorrect == Spec => []TypeOK
<1>1. ApiInv => TypeOK
  BY DEF ApiInv
<1>2. QED
  BY <1>1, ApiInductive, PTL

\* The status a source remembers is newer than the keys it delivered only when
\* they came from another host: for any hosts, whichever of them answers which
\* request, fails or lags behind, and whenever each was refreshed.
THEOREM StatusIsCovered == Spec => []StatusCovered
<1>1. ApiInv => StatusCovered
  BY DEF ApiInv
<1>2. QED
  BY <1>1, ApiInductive, PTL

HIDE BoundsAssumption

-----------------------------------------------------------------------------
(* The keys file.  What an update has read is at least as new as the time  *)
(* it will remember, and a file once read was not broken; an update that   *)
(* reads at all has found the time remembered to be an older one.          *)

FileOnCourse ==
    /\ filePc = "read" => modified < Len(edits)
    /\ filePc = "remember" =>
         content >= 1 /\ mtime <= content /\ edits[content] # "broken"

FileInv ==
    /\ FileTypeOK
    /\ FileOnCourse
    /\ KeysOfFile

\* The invariant holds with the first content of the file.
LEMMA FileInvInit == File!Init => FileInv
<1> SUFFICES ASSUME File!Init PROVE FileInv
  OBVIOUS
<1>1. edits \in Seq(File!Kinds) /\ Len(edits) = 1
  <2>1. edits \in [1 .. 1 -> File!Kinds] /\ 1 \in Nat
    BY DEF File!Init
  <2>2. edits \in Seq(File!Kinds)
    BY <2>1, SeqDef
  <2>3. Len(edits) \in Nat /\ DOMAIN edits = 1 .. Len(edits)
    BY <2>2
  <2>4. 1 .. Len(edits) = 1 .. 1
    BY <2>1, <2>3
  <2>5. 1 \in 1 .. Len(edits) /\ Len(edits) <= 1
    BY <2>3, <2>4
  <2>6. QED
    BY <2>2, <2>3, <2>5
<1>2. File!Now = 1 /\ 1 \in 1 .. MaxEdits
  BY <1>1, PartsAssumption DEF File!Now
<1>3. FileTypeOK
  BY <1>1, <1>2 DEF FileTypeOK, File!TypeOK, File!Init
<1>4. QED
  BY <1>2, <1>3
     DEF File!Init, FileInv, FileOnCourse, KeysOfFile, File!KeysOfFile

\* An edit adds a content, newer than the time remembered.
LEMMA FileEditStep ==
    ASSUME FileInv, NEW k \in File!Kinds, File!Edit(k)
    PROVE  FileInv'
<1>1. /\ edits \in Seq(File!Kinds) /\ Len(edits) \in 1 .. MaxEdits
      /\ modified \in 0 .. Len(edits) /\ fileKeys \in 0 .. Len(edits)
      /\ filePc \in {"idle", "read", "remember"}
      /\ mtime \in 0 .. Len(edits) /\ content \in 0 .. Len(edits)
  BY DEF FileInv, FileTypeOK, File!TypeOK, File!Now
<1>2. /\ edits' = Append(edits, k) /\ Len(edits) < MaxEdits
      /\ UNCHANGED <<modified, fileKeys, filePc, mtime, content>>
  BY DEF File!Edit, File!Now
<1>3. /\ edits' \in Seq(File!Kinds) /\ Len(edits') = Len(edits) + 1
      /\ \A i \in 1 .. Len(edits) : edits'[i] = edits[i]
  BY <1>1, <1>2
<1>4. FileTypeOK'
  BY <1>1, <1>2, <1>3, PartsAssumption DEF FileTypeOK, File!TypeOK, File!Now
<1>5. FileOnCourse'
  BY <1>1, <1>2, <1>3 DEF FileInv, FileOnCourse
<1>6. KeysOfFile'
  BY <1>1, <1>2, <1>3 DEF KeysOfFile, File!KeysOfFile, File!Now
<1>7. QED
  BY <1>4, <1>5, <1>6 DEF FileInv

\* A step of an update keeps the invariant.
LEMMA FileUpdateStep ==
    ASSUME FileInv, File!Update
    PROVE  FileInv'
<1>1. /\ edits \in Seq(File!Kinds) /\ Len(edits) \in 1 .. MaxEdits
      /\ modified \in 0 .. Len(edits) /\ fileKeys \in 0 .. Len(edits)
      /\ filePc \in {"idle", "read", "remember"}
      /\ mtime \in 0 .. Len(edits) /\ content \in 0 .. Len(edits)
  BY DEF FileInv, FileTypeOK, File!TypeOK, File!Now
<1> USE DEF FileInv, FileTypeOK, File!TypeOK, FileOnCourse, KeysOfFile,
            File!KeysOfFile, File!Now
<1>2. CASE File!LookAtFile
  <2>1. CASE modified = Len(edits)
    BY <1>1, <1>2, <2>1 DEF File!LookAtFile
  <2>2. CASE modified # Len(edits)
    BY <1>1, <1>2, <2>2 DEF File!LookAtFile
  <2>3. QED
    BY <2>1, <2>2
<1>3. CASE File!Read
  BY <1>1, <1>3 DEF File!Read
<1>4. CASE File!ReadFails
  BY <1>1, <1>4 DEF File!ReadFails
<1>5. CASE File!Remember
  <2>1. /\ filePc = "remember" /\ modified' = mtime /\ filePc' = "idle"
        /\ fileKeys' = IF edits[content] = "keys" THEN content ELSE fileKeys
        /\ UNCHANGED <<edits, mtime, content>>
    BY <1>5 DEF File!Remember, File!TimeToRemember
  <2>2. FileTypeOK' /\ FileOnCourse'
    BY <1>1, <2>1
  <2>3. ASSUME mtime = Len(edits)
        PROVE  fileKeys' = Len(edits) \/ edits[Len(edits)] = "empty"
    <3>1. content = Len(edits) /\ edits[content] # "broken"
      BY <1>1, <2>1, <2>3
    <3>2. edits[Len(edits)] \in {"keys", "empty", "broken"}
      BY <1>1 DEF File!Kinds
    <3>3. QED
      BY <2>1, <3>1, <3>2
  <2>4. QED
    BY <2>1, <2>2, <2>3
<1>6. QED
  BY <1>2, <1>3, <1>4, <1>5 DEF File!Update

\* FileInv is an invariant of FileSource.
LEMMA FileInductive == File!Spec => []FileInv
<1>1. FileInv /\ [File!Next]_(File!vars) => FileInv'
  <2> SUFFICES ASSUME FileInv, [File!Next]_(File!vars) PROVE FileInv'
    OBVIOUS
  <2>1. CASE UNCHANGED File!vars
    BY <2>1 DEF File!vars, FileInv, FileTypeOK, File!TypeOK, File!Now,
                FileOnCourse, KeysOfFile, File!KeysOfFile
  <2>2. CASE File!Next
    BY <2>2, FileEditStep, FileUpdateStep DEF File!Next
  <2>3. QED
    BY <2>1, <2>2
<1>2. QED
  BY <1>1, FileInvInit, PTL DEF File!Spec

\* Types of FileSource, and the time remembered by `update_keys` is never ahead
\* of the file, for any number of edits.
THEOREM FileTypeCorrect == File!Spec => []FileTypeOK
<1>1. FileInv => FileTypeOK
  BY DEF FileInv
<1>2. QED
  BY <1>1, FileInductive, PTL

\* However often the file is edited, and in whichever step of `update_keys`:
\* when its modification time is the one remembered and no update is running,
\* the watcher has the keys that are in it, or it holds none.
THEOREM KeysAreOfFile == File!Spec => []KeysOfFile
<1>1. FileInv => KeysOfFile
  BY DEF FileInv
<1>2. QED
  BY <1>1, FileInductive, PTL

-----------------------------------------------------------------------------
(* The range mode.  The loop goes on to a slot only when the updaters that *)
(* the first block started have ended, so every block after it is read     *)
(* with `ended` true; a slot is handled once, and then left behind.        *)

RangeOnCourse ==
    /\ updater = "none" => seen = <<>>
    /\ updater = "done" => ended
    /\ rangePc = "run" /\ seen # <<>> => ended
    /\ rangePc \in {"run", "handle"} => Len(handled) < slot

RangeInv ==
    /\ RangeTypeOK
    /\ RangeOnCourse
    /\ LaterSlotsSeeKeys

\* The invariant holds at the first slot.
LEMMA RangeInvInit == Slots!Init => RangeInv
<1> SUFFICES ASSUME Slots!Init PROVE RangeInv
  OBVIOUS
<1>1. /\ slot = 1 /\ rangePc = "run" /\ updater = "none" /\ ended = FALSE
      /\ handled = <<>> /\ seen = <<>> /\ skipped = {}
  BY DEF Slots!Init
<1>2. Len(handled) = 0 /\ Len(seen) = 0
  BY <1>1
<1>3. handled \in Seq(1 .. LastSlot) /\ seen \in Seq(BOOLEAN)
  BY <1>1
<1>4. 1 \in 1 .. LastSlot
  BY PartsAssumption
<1>5. RangeTypeOK
  <2>1. slot \in 1 .. LastSlot /\ Len(handled) <= slot
    BY <1>1, <1>2, <1>4
  <2>2. skipped \subseteq 1 .. slot /\ ended \in BOOLEAN
    BY <1>1
  <2>3. QED
    BY <1>1, <1>3, <2>1, <2>2 DEF RangeTypeOK, Slots!TypeOK
<1>6. RangeOnCourse
  BY <1>1, <1>2 DEF RangeOnCourse
<1>7. LaterSlotsSeeKeys
  BY <1>2 DEF LaterSlotsSeeKeys, Slots!LaterSlotsSeeKeys
<1>8. QED
  BY <1>5, <1>6, <1>7 DEF RangeInv

\* A block is read: the first, or one with `ended` true.
LEMMA RangeReadStep ==
    ASSUME RangeInv, Slots!BlockRead
    PROVE  RangeInv'
<1>1. /\ rangePc = "run" /\ rangePc' = "handle" /\ updater' = "running"
      /\ seen' = Append(seen, ended) /\ seen \in Seq(BOOLEAN)
      /\ ended \in BOOLEAN
      /\ UNCHANGED <<slot, ended, handled, skipped>>
  BY DEF Slots!BlockRead, RangeInv, RangeTypeOK, Slots!TypeOK
<1>2. /\ seen' \in Seq(BOOLEAN) /\ Len(seen) \in Nat
      /\ Len(seen') = Len(seen) + 1 /\ seen'[Len(seen) + 1] = ended
      /\ \A i \in 1 .. Len(seen) : seen'[i] = seen[i]
  BY <1>1
<1>3. RangeTypeOK'
  BY <1>1, <1>2 DEF RangeInv, RangeTypeOK, Slots!TypeOK
<1>4. RangeOnCourse'
  BY <1>1 DEF RangeInv, RangeOnCourse
<1>5. ASSUME NEW i \in 2 .. Len(seen')
      PROVE  seen'[i]
  <2>1. CASE i \in 2 .. Len(seen)
    BY <1>2, <2>1 DEF RangeInv, LaterSlotsSeeKeys, Slots!LaterSlotsSeeKeys
  <2>2. CASE i = Len(seen) + 1
    <3>1. seen # <<>>
      BY <1>2, <2>2
    <3>2. ended
      BY <1>1, <3>1 DEF RangeInv, RangeOnCourse
    <3>3. QED
      BY <1>2, <2>2, <3>2
  <2>3. QED
    BY <1>2, <1>5, <2>1, <2>2
<1>6. LaterSlotsSeeKeys'
  BY <1>5 DEF LaterSlotsSeeKeys, Slots!LaterSlotsSeeKeys
<1>7. QED
  BY <1>3, <1>4, <1>6 DEF RangeInv

\* Every other step leaves `seen` as it is.
LEMMA RangeOtherStep ==
    ASSUME RangeInv,
           \/ Slots!NotOk \/ Slots!Handled \/ Slots!HandlerNotOk
           \/ Slots!Raises \/ Slots!UpdateEnds \/ Slots!NextSlot
           \/ Slots!NoUpdater
    PROVE  RangeInv'
<1>1. /\ slot \in 1 .. LastSlot /\ LastSlot \in Nat
      /\ updater \in {"none", "running", "done"} /\ ended \in BOOLEAN
      /\ handled \in Seq(1 .. LastSlot) /\ Len(handled) \in Nat
      /\ Len(handled) <= slot /\ skipped \subseteq 1 .. slot
      /\ seen \in Seq(BOOLEAN)
  BY PartsAssumption DEF RangeInv, RangeTypeOK, Slots!TypeOK
<1>2. seen' = seen
  BY DEF Slots!NotOk, Slots!Handled, Slots!HandlerNotOk, Slots!Raises,
         Slots!UpdateEnds, Slots!NextSlot, Slots!NoUpdater
<1>3. LaterSlotsSeeKeys'
  BY <1>2 DEF RangeInv, LaterSlotsSeeKeys, Slots!LaterSlotsSeeKeys
<1>4. RangeTypeOK' /\ RangeOnCourse'
  <2> USE DEF RangeInv, RangeTypeOK, Slots!TypeOK, RangeOnCourse
  <2>1. CASE Slots!NotOk
    BY <1>1, <2>1 DEF Slots!NotOk
  <2>2. CASE Slots!Handled
    <3>1. /\ handled' \in Seq(1 .. LastSlot)
          /\ Len(handled') = Len(handled) + 1 /\ Len(handled) < slot
      BY <1>1, <2>2 DEF Slots!Handled
    <3>2. QED
      BY <1>1, <2>2, <3>1 DEF Slots!Handled
  <2>3. CASE Slots!HandlerNotOk
    BY <1>1, <2>3 DEF Slots!HandlerNotOk
  <2>4. CASE Slots!Raises
    BY <1>1, <2>4 DEF Slots!Raises
  <2>5. CASE Slots!UpdateEnds
    BY <1>1, <2>5 DEF Slots!UpdateEnds
  <2>6. CASE Slots!NextSlot
    <3>1. CASE slot = LastSlot
      BY <1>1, <2>6, <3>1 DEF Slots!NextSlot, Slots!AtEnd, Slots!Awaited
    <3>2. CASE slot # LastSlot
      BY <1>1, <2>6, <3>2 DEF Slots!NextSlot, Slots!AtEnd, Slots!Awaited
    <3>3. QED
      BY <3>1, <3>2
  <2>7. CASE Slots!NoUpdater
    BY <1>1, <2>7 DEF Slots!NoUpdater
  <2>8. QED
    BY <2>1, <2>2, <2>3, <2>4, <2>5, <2>6, <2>7
<1>5. QED
  BY <1>3, <1>4 DEF RangeInv

\* RangeInv is an invariant of RangeRun.
LEMMA RangeInductive == Slots!Spec => []RangeInv
<1>1. RangeInv /\ [Slots!Next]_(Slots!vars) => RangeInv'
  <2> SUFFICES ASSUME RangeInv, [Slots!Next]_(Slots!vars) PROVE RangeInv'
    OBVIOUS
  <2>1. CASE UNCHANGED Slots!vars
    BY <2>1 DEF Slots!vars, RangeInv, RangeTypeOK, Slots!TypeOK, RangeOnCourse,
                LaterSlotsSeeKeys, Slots!LaterSlotsSeeKeys
  <2>2. CASE Slots!Next
    BY <2>2, RangeReadStep, RangeOtherStep DEF Slots!Next
  <2>3. QED
    BY <2>1, <2>2
<1>2. QED
  BY <1>1, RangeInvInit, PTL DEF Slots!Spec

\* Types of RangeRun; `range(start, end + 1)` is never left, and no more slots
\* are handled than it has come to, however long it is.
THEOREM RangeTypeCorrect == Slots!Spec => []RangeTypeOK
<1>1. RangeInv => RangeTypeOK
  BY DEF RangeInv
<1>2. QED
  BY <1>1, RangeInductive, PTL

\* In a range of any length, with any slots missed or failing, only the first
\* block that is read may be handled before the updaters have ended once.
THEOREM LaterSlotsDoSeeKeys == Slots!Spec => []LaterSlotsSeeKeys
<1>1. RangeInv => LaterSlotsSeeKeys
  BY DEF RangeInv
<1>2. QED
  BY <1>1, RangeInductive, PTL

-----------------------------------------------------------------------------
(* A request.  While it is running, every host before the one at hand was  *)
(* asked, could not serve it, and has left its error at its own place.     *)

HttpTypeOK ==
    /\ kind \in Http!Kinds
    /\ outcome \in [Http!Hosts -> Http!Outcomes]
    /\ host \in 1 .. NumHosts + 1
    /\ errors \in Seq(Http!Outcomes)

ErrorsOfHosts ==
    result = "" =>
        /\ host <= NumHosts
        /\ Len(errors) = host - 1
        /\ \A h \in 1 .. host - 1 :
               errors[h] = outcome[h] /\ ~Http!Usable(h)

HttpInv ==
    /\ HttpTypeOK
    /\ ErrorsOfHosts
    /\ FirstUsableServes
    /\ MissedSlotWins

\* The invariant holds before the first host is asked.
LEMMA HttpInvInit == Http!Init => HttpInv
<1> SUFFICES ASSUME Http!Init PROVE HttpInv
  OBVIOUS
<1>1. host = 1 /\ errors = <<>> /\ result = ""
  BY DEF Http!Init
<1>2. Len(errors) = 0 /\ errors \in Seq(Http!Outcomes)
  BY <1>1, EmptySeq
<1>3. 1 \in 1 .. NumHosts + 1 /\ 1 <= NumHosts /\ 0 = 1 - 1 /\ 1 .. 1 - 1 = {}
  BY PartsAssumption
<1>4. HttpTypeOK
  BY <1>1, <1>2, <1>3 DEF Http!Init, HttpTypeOK
<1>5. ErrorsOfHosts
  BY <1>1, <1>2, <1>3 DEF ErrorsOfHosts
<1>6. FirstUsableServes /\ MissedSlotWins
  BY <1>1 DEF FirstUsableServes, Http!FirstUsableServes,
              MissedSlotWins, Http!MissedSlotWins
<1>7. QED
  BY <1>4, <1>5, <1>6 DEF HttpInv

\* A host is a number between the first and the last, and so is the next one but
\* for one more.
LEMMA HostNumbers ==
    ASSUME NEW h \in Http!Hosts
    PROVE  /\ h \in Nat /\ NumHosts \in Nat /\ 1 <= h /\ h <= NumHosts
           /\ h + 1 \in 1 .. NumHosts + 1 /\ h + 1 - 1 = h
           /\ h # NumHosts => h + 1 <= NumHosts
<1>1. NumHosts \in Nat /\ h \in 1 .. NumHosts
  BY PartsAssumption DEF Http!Hosts
<1>2. QED
  BY <1>1

\* The hosts that FirstUsableServes names are the usable ones.
LEMMA UsableHosts ==
    ASSUME outcome \in [Http!Hosts -> Http!Outcomes], NEW h \in Http!Hosts
    PROVE  Http!Usable(h) <=> \/ outcome[h] = "ok"
                              \/ outcome[h] = "old" /\ kind # "head"
BY DEF Http!Usable, Http!TooOld

\* The host at hand is the first one that can serve the request.
LEMMA AnswerStep ==
    ASSUME HttpInv, Http!Answer
    PROVE  HttpInv'
<1> DEFINE usable == {h \in Http!Hosts : outcome[h] = "ok"
                            \/ (outcome[h] = "old" /\ kind # "head")}
<1>1. /\ host \in Http!Hosts /\ Http!Usable(host) /\ result = ""
      /\ result' = "ok" /\ host' = host + 1
      /\ UNCHANGED <<kind, outcome, errors>>
      /\ outcome \in [Http!Hosts -> Http!Outcomes]
  BY DEF Http!Answer, HttpInv, HttpTypeOK
<1>2. host \in usable
  BY <1>1, UsableHosts
<1>3. ASSUME NEW h \in usable
      PROVE  host <= h
  <2>1. Http!Usable(h) /\ h \in Http!Hosts
    BY <1>1, UsableHosts
  <2>2. h \notin 1 .. host - 1
    BY <1>1, <2>1 DEF HttpInv, ErrorsOfHosts
  <2>3. host \in Nat /\ h \in Nat /\ h >= 1
    BY <1>1, <2>1, HostNumbers
  <2>4. QED
    BY <2>2, <2>3
<1>4. Http!Min(usable) = host
  <2>1. \A h \in usable : h \in Nat
    BY PartsAssumption DEF Http!Hosts
  <2>2. \A x \in usable : (\A y \in usable : x <= y) => x = host
    BY <1>2, <1>3, <2>1
  <2> HIDE DEF usable
  <2>3. QED
    BY <1>2, <1>3, <2>2 DEF Http!Min
<1>5. FirstUsableServes'
  BY <1>1, <1>2, <1>4 DEF FirstUsableServes, Http!FirstUsableServes
<1>6. HttpTypeOK'
  <2>1. host' \in 1 .. NumHosts + 1
    BY <1>1, HostNumbers
  <2>2. QED
    BY <1>1, <2>1 DEF HttpInv, HttpTypeOK
<1>7. ErrorsOfHosts' /\ MissedSlotWins'
  BY <1>1 DEF ErrorsOfHosts, MissedSlotWins, Http!MissedSlotWins
<1>8. QED
  BY <1>5, <1>6, <1>7 DEF HttpInv

\* The host at hand cannot serve the request: the next one is asked, or, after
\* the last one, the request ends with an error.
LEMMA FailsStep ==
    ASSUME HttpInv, Http!Fails
    PROVE  HttpInv'
<1> DEFINE es == Append(errors, outcome[host])
           usable == {h \in Http!Hosts : outcome[h] = "ok"
                            \/ (outcome[h] = "old" /\ kind # "head")}
<1>1. /\ host \in Http!Hosts /\ ~Http!Usable(host) /\ result = ""
      /\ errors' = es /\ host' = host + 1
      /\ result' = IF Http!ForceRaise(es) # "" THEN Http!ForceRaise(es)
                   ELSE IF host = NumHosts THEN es[Len(es)] ELSE ""
      /\ UNCHANGED <<kind, outcome>>
  BY DEF Http!Fails
<1>2. /\ kind \in Http!Kinds /\ outcome \in [Http!Hosts -> Http!Outcomes]
      /\ errors \in Seq(Http!Outcomes)
      /\ NumHosts \in Nat \ {0} /\ host \in 1 .. NumHosts
      /\ Len(errors) = host - 1
      /\ \A h \in 1 .. host - 1 : errors[h] = outcome[h] /\ ~Http!Usable(h)
  BY <1>1, PartsAssumption
     DEF HttpInv, HttpTypeOK, ErrorsOfHosts, Http!Hosts
<1>3. /\ es \in Seq(Http!Outcomes) /\ Len(es) = host
      /\ \A h \in 1 .. host : es[h] = outcome[h]
  <2>1. outcome[host] \in Http!Outcomes
    BY <1>1, <1>2
  <2>2. es \in Seq(Http!Outcomes) /\ Len(es) = Len(errors) + 1
    BY <1>2, <2>1
  <2>3. ASSUME NEW h \in 1 .. host
        PROVE  es[h] = outcome[h]
    BY <1>2, <2>1
  <2>4. QED
    BY <1>2, <2>2, <2>3
<1>4. /\ host \in Nat /\ NumHosts \in Nat /\ 1 <= host
      /\ host \in 1 .. host /\ host' = host + 1 /\ host' - 1 = host
      /\ host # NumHosts => host' <= NumHosts
      /\ \A h \in 1 .. host : h = host \/ h \in 1 .. host - 1
  <2>1. /\ host \in Nat /\ NumHosts \in Nat /\ 1 <= host /\ host <= NumHosts
        /\ host' = host + 1
    BY <1>1, HostNumbers
  <2>2. QED
    BY <2>1
<1>5. \A h \in 1 .. host : ~Http!Usable(h)
  <2> SUFFICES ASSUME NEW h \in 1 .. host PROVE ~Http!Usable(h)
    OBVIOUS
  <2>1. h = host \/ h \in 1 .. host - 1
    BY <1>4
  <2>2. QED
    BY <1>1, <1>2, <2>1
<1> HIDE DEF es
<1>6. HttpTypeOK'
  <2>1. host' \in 1 .. NumHosts + 1
    BY <1>1, HostNumbers
  <2>2. QED
    BY <1>1, <1>2, <1>3, <2>1 DEF HttpTypeOK
<1>7. es[Len(es)] = outcome[host] /\ outcome[host] \in Http!Outcomes
  <2>1. es[host] = outcome[host]
    BY <1>3, <1>4
  <2>2. QED
    BY <1>1, <1>2, <1>3, <2>1
<1>8. ASSUME result' # ""
      PROVE  /\ host = NumHosts /\ result' # "ok"
             /\ /\ kind # "plain"
                /\ \E h \in Http!Hosts : outcome[h] = "not_found"
                => result' = "not_found"
  <2>1. CASE Http!ForceRaise(es) # ""
    <3>1. Http!ForceRaise(es) = "not_found" /\ Len(es) = NumHosts
      BY <2>1 DEF Http!ForceRaise
    <3>2. QED
      BY <1>1, <1>3, <2>1, <3>1
  <2>2. CASE Http!ForceRaise(es) = ""
    <3>1. host = NumHosts /\ result' = outcome[host]
      BY <1>1, <1>7, <1>8, <2>2
    <3>2. result' # "ok"
      <4>1. outcome[host] \in {"ok", "old"}
                => kind = "head" /\ outcome[host] = "old"
        BY <1>1 DEF Http!Usable, Http!TooOld
      <4>2. QED
        BY <3>1, <4>1
    <3>3. ASSUME kind # "plain", NEW h \in Http!Hosts, outcome[h] = "not_found"
          PROVE  FALSE
      <4>1. h \in 1 .. Len(es) /\ es[h] = "not_found" /\ Len(es) = NumHosts
        BY <1>2, <1>3, <3>1, <3>3 DEF Http!Hosts
      <4>2. Http!ForceRaise(es) = "not_found"
        BY <3>3, <4>1 DEF Http!ForceRaise
      <4>3. QED
        BY <2>2, <4>2
    <3>4. QED
      BY <3>1, <3>2, <3>3
  <2>3. QED
    BY <2>1, <2>2
<1>9. ErrorsOfHosts'
  <2> SUFFICES ASSUME result' = ""
               PROVE  /\ host' <= NumHosts /\ Len(errors') = host' - 1
                      /\ \A h \in 1 .. host' - 1 :
                             errors'[h] = outcome'[h] /\ ~Http!Usable(h)'
    BY DEF ErrorsOfHosts
  <2>1. host # NumHosts
    BY <1>1, <1>7 DEF Http!Outcomes
  <2>2. host' <= NumHosts /\ host' - 1 = host
    BY <1>4, <2>1
  <2>3. ASSUME NEW h \in 1 .. host
        PROVE  errors'[h] = outcome'[h] /\ ~Http!Usable(h)'
    BY <1>1, <1>3, <1>5 DEF Http!Usable, Http!TooOld
  <2>4. QED
    BY <1>1, <1>3, <2>2, <2>3
<1>10. FirstUsableServes'
  <2>1. ASSUME result' # ""
        PROVE  usable = {} /\ result' # "ok" /\ host' = NumHosts + 1
    <3>1. host = NumHosts /\ result' # "ok"
      BY <1>8, <2>1
    <3>2. ASSUME NEW h \in usable
          PROVE  FALSE
      <4>1. Http!Usable(h) /\ h \in 1 .. host
        BY <1>2, <3>1, UsableHosts DEF Http!Hosts
      <4>2. QED
        BY <1>5, <4>1
    <3>3. QED
      BY <1>1, <3>1, <3>2
  <2>2. QED
    BY <1>1, <2>1 DEF FirstUsableServes, Http!FirstUsableServes
<1>11. MissedSlotWins'
  BY <1>1, <1>8 DEF MissedSlotWins, Http!MissedSlotWins
<1>12. QED
  BY <1>6, <1>9, <1>10, <1>11 DEF HttpInv

\* HttpInv is an invariant of HttpFallback.
LEMMA HttpInductive == Http!Spec => []HttpInv
<1>1. HttpInv /\ [Http!Next]_(Http!vars) => HttpInv'
  <2> SUFFICES ASSUME HttpInv, [Http!Next]_(Http!vars) PROVE HttpInv'
    OBVIOUS
  <2>1. CASE UNCHANGED Http!vars
    BY <2>1 DEF Http!vars, HttpInv, HttpTypeOK, ErrorsOfHosts, Http!Usable,
                Http!TooOld, FirstUsableServes, Http!FirstUsableServes,
                MissedSlotWins, Http!MissedSlotWins
  <2>2. CASE Http!Next
    BY <2>2, AnswerStep, FailsStep DEF Http!Next
  <2>3. QED
    BY <2>1, <2>2
<1>2. QED
  BY <1>1, HttpInvInit, PTL DEF Http!Spec

\* For any number of hosts and whatever each of them does, a request of
\* `HTTPProvider` succeeds when any host can serve it, with the first that can,
\* and asks no host after that one.
THEOREM FirstUsableDoesServe == Http!Spec => []FirstUsableServes
<1>1. HttpInv => FirstUsableServes
  BY DEF HttpInv
<1>2. QED
  BY <1>1, HttpInductive, PTL

\* When no host can serve a request to the beacon node, a 404 of any of them is
\* the error raised (`__raise_last_missed_slot_error`).
THEOREM MissedSlotDoesWin == Http!Spec => []MissedSlotWins
<1>1. HttpInv => MissedSlotWins
  BY DEF HttpInv
<1>2. QED
  BY <1>1, HttpInductive, PTL

-----------------------------------------------------------------------------
(* The start.  What is checked at the beginning stays true: where main()   *)
(* is tells what is set, which source was chosen and whether there is an   *)
(* execution client.                                                       *)

Checked ==
    startPc \notin {"check", "exited"}
        => Start!Required \intersect config.unset = {}

Chosen ==
    /\ startPc \notin {"watcher", "running", "exited"} => execution = "None"
    /\ startPc \in {"load", "versions", "sleep"} => Start!KeysApi
    /\ startPc \in {"watcher", "running"} =>
          /\ Start!KeysApi \/ config.source = "file"
          /\ Start!KeysApi <=> execution = "web3"

StartInv ==
    /\ StartTypeOK
    /\ Checked
    /\ Chosen
    /\ OnlyConfigured

\* The invariant holds before anything is checked.
LEMMA StartInvInit == Start!Init => StartInv
BY PartsAssumption
   DEF Start!Init, StartInv, StartTypeOK, Start!TypeOK, Start!Answers, Checked,
       Chosen, OnlyConfigured, Start!OnlyConfigured

\* The steps of the start keep the invariant; none asks for anything but, at its
\* end, the consensus client.
LEMMA StartStep ==
    ASSUME StartInv,
           \/ \E answer \in Start!Answers : Start!Deploy(answer)
           \/ Start!Check \/ Start!ChooseSource \/ Start!Load \/ Start!Versions
           \/ Start!Sleep \/ Start!Run \/ Start!Outage \/ Start!Restart
    PROVE  StartInv'
<1> USE PartsAssumption
    DEF StartInv, StartTypeOK, Start!TypeOK, Checked, Chosen, OnlyConfigured,
        Start!OnlyConfigured, Start!Answers, Start!KeysApi
<1>1. CASE \E answer \in Start!Answers : Start!Deploy(answer)
  BY <1>1 DEF Start!Deploy, Start!Required
<1>2. CASE Start!Check
  BY <1>2 DEF Start!Check, Start!Required
<1>3. CASE Start!ChooseSource
  <2>1. /\ startPc = "main"
        /\ UNCHANGED <<config, locator, execution, loaded, depth, outages,
                       asked>>
        /\ \/ Start!KeysApi /\ startPc' = "load"
           \/ ~Start!KeysApi /\ config.source = "file" /\ startPc' = "watcher"
           \/ startPc' = "exited"
    BY <1>3 DEF Start!ChooseSource
  <2>2. Start!Required' = Start!Required
    BY <2>1 DEF Start!Required
  <2>3. OnlyConfigured' /\ Checked'
    BY <2>1, <2>2
  <2>4. StartTypeOK'
    BY <2>1
  <2>5. Chosen'
    BY <2>1
  <2>6. QED
    BY <2>3, <2>4, <2>5
<1>4. CASE Start!Load
  BY <1>4 DEF Start!Load, Start!Required
<1>5. CASE Start!Versions
  BY <1>5 DEF Start!Versions, Start!Required
<1>6. CASE Start!Sleep
  <2>1. CASE Start!Deeper /\ startPc' = "load" /\ depth' = depth + 1
    BY <1>6, <2>1 DEF Start!Sleep, Start!Deeper, Start!Required
  <2>2. CASE Start!Exit /\ UNCHANGED depth
    BY <1>6, <2>2 DEF Start!Sleep, Start!Exit, Start!Required
  <2>3. QED
    BY <1>6, <2>1, <2>2 DEF Start!Sleep
<1>7. CASE Start!Run
  BY <1>7 DEF Start!Run, Start!Required, Start!Uris, Start!Optional
<1>8. CASE Start!Outage
  BY <1>8 DEF Start!Outage, Start!Exit, Start!Required
<1>9. CASE Start!Restart
  BY <1>9 DEF Start!Restart, Start!Required
<1>10. QED
  BY <1>1, <1>2, <1>3, <1>4, <1>5, <1>6, <1>7, <1>8, <1>9

\* What the running watcher asks for is set, and with `execution` None it asks
\* for nothing of it.
LEMMA AsksAreConfigured ==
    ASSUME StartInv, startPc = "running",
           NEW services \in {Start!ExitAsks, Start!ConsolidationAsks,
                             Start!AddressesAsk, Start!AlertAsks, Start!KeysAsk}
    PROVE  /\ services \subseteq Start!Uris \union Start!Optional
           /\ services \intersect (config.unset \union {"None"}) = {}
<1>1. /\ Start!Required \intersect config.unset = {}
      /\ Start!KeysApi <=> execution = "web3"
      /\ execution # "web3" => execution = "None"
  BY DEF StartInv, Checked, Chosen, StartTypeOK, Start!TypeOK
<1>2. CASE Start!KeysApi
  <2>1. Start!Deref = {"EXECUTION_CLIENT_URI"}
    BY <1>1, <1>2 DEF Start!Deref
  <2>2. {"CONSENSUS_CLIENT_URI", "EXECUTION_CLIENT_URI", "KEYS_API_URI"}
           \intersect config.unset = {}
    BY <1>1, <1>2 DEF Start!Required
  <2>3. QED
    BY <1>1, <1>2, <2>1, <2>2
       DEF Start!ExitAsks, Start!ConsolidationAsks, Start!AddressesAsk,
           Start!AlertAsks, Start!KeysAsk, Start!Required, Start!Unset,
           Start!Uris, Start!Optional
<1>3. CASE ~Start!KeysApi
  <2>1. execution = "None"
    BY <1>1, <1>3
  <2>2. QED
    BY <1>1, <1>3, <2>1
       DEF Start!ExitAsks, Start!ConsolidationAsks, Start!AddressesAsk,
           Start!AlertAsks, Start!KeysAsk, Start!Required, Start!Uris
<1>4. QED
  BY <1>2, <1>3

\* A request of the running watcher keeps the invariant.
LEMMA AskStep ==
    ASSUME StartInv,
           NEW services \in {Start!ExitAsks, Start!ConsolidationAsks,
                             Start!AddressesAsk, Start!AlertAsks,
                             Start!KeysAsk},
           Start!Ask(services)
    PROVE  StartInv'
<1>1. /\ startPc = "running" /\ asked' = asked \union services
      /\ UNCHANGED <<config, locator, startPc, execution, loaded, depth,
                     outages>>
  BY DEF Start!Ask
<1>2. /\ services \subseteq Start!Uris \union Start!Optional
      /\ services \intersect (config.unset \union {"None"}) = {}
  BY <1>1, AsksAreConfigured
<1>3. StartTypeOK' /\ Checked' /\ Chosen'
  BY <1>1, <1>2 DEF StartInv, StartTypeOK, Start!TypeOK, Checked, Chosen,
                    Start!Required, Start!KeysApi
<1>4. OnlyConfigured'
  BY <1>1, <1>2 DEF StartInv, OnlyConfigured, Start!OnlyConfigured
<1>5. QED
  BY <1>3, <1>4 DEF StartInv

\* StartInv is an invariant of Startup.
LEMMA StartInductive == Start!Spec => []StartInv
<1>1. StartInv /\ [Start!Next]_(Start!vars) => StartInv'
  <2> SUFFICES ASSUME StartInv, [Start!Next]_(Start!vars) PROVE StartInv'
    OBVIOUS
  <2>1. CASE UNCHANGED Start!vars
    BY <2>1 DEF Start!vars, StartInv, StartTypeOK, Start!TypeOK, Checked,
                Chosen, Start!Required, Start!KeysApi, OnlyConfigured,
                Start!OnlyConfigured
  <2>2. CASE Start!Next
    BY <2>2, StartStep, AskStep DEF Start!Next
  <2>3. QED
    BY <2>1, <2>2
<1>2. QED
  BY <1>1, StartInvInit, PTL DEF Start!Spec

\* Types of Startup; loads never lie deeper within each other than Python's
\* stack bears, for any depth and any number of outages.
THEOREM StartTypeCorrect == Start!Spec => []StartTypeOK
<1>1. StartInv => StartTypeOK
  BY DEF StartInv
<1>2. QED
  BY <1>1, StartInductive, PTL

\* Through any number of failed starts and restarts, in every mode and with any
\* variables unset, the watcher asks for nothing that is not configured, and no
\* handler reaches for an execution client the watcher does not have.
THEOREM OnlyConfiguredIsAsked == Start!Spec => []OnlyConfigured
<1>1. StartInv => OnlyConfigured
  BY DEF StartInv
<1>2. QED
  BY <1>1, StartInductive, PTL

=============================================================================
