------------------------- MODULE PersistenceProofs --------------------------
(***************************************************************************)
(* What a build leaves behind for the next one, for any number of writers, *)
(* executions, objects, tasks and files: the content store and the cache,  *)
(* sysroots, retries, downloads and repositories, sandboxes, and the       *)
(* signatures of a plan.                                                   *)
(***************************************************************************)
EXTENDS MCPersistence, Induction

(* Held and open files agree with the steps; the path of the temporary     *)
(* file and that of the object never lead to one inode.                    *)
Handles ==
    /\ temp # None => temp # object
    /\ \A p \in Processes :
           /\ locks[p] # None <=> step[p] \in Busy
           /\ writes[p] # None <=> step[p] \in {"writing", "renaming"}

(* While nothing was disturbed: whoever waits for the lock or has it has   *)
(* the file at the path open, and whoever writes has the file at its path. *)
Undisturbed ==
    /\ \A p \in Processes : step[p] \in Busy => locks[p] = lockFile
    /\ \A p \in Processes : step[p] \in Exclusive => flock[lockFile] = p
    /\ \A p \in Processes : step[p] \in {"writing", "renaming"} => writes[p] = temp
    /\ \A p \in Processes : step[p] = "renaming" => writes[p] \in whole
    /\ object # None => object \in whole

StoreInv ==
    /\ StoreTypeOK
    /\ Handles
    /\ ~disturbed => Undisturbed

(* Creating a file finds an inode that no path and no open file has.       *)
LEMMA FreshInode ==
  ASSUME StoreTypeOK, temp = None \/ lockFile = None
  PROVE  NewInode \in Inodes /\ NewInode \notin InUse
<1> DEFINE W == {writes[p] : p \in Processes}
           L == {locks[p] : p \in Processes}
           F == IF temp = None THEN {object, lockFile} ELSE {object, temp}
           n == Cardinality(Processes)
<1>1. IsFiniteSet(W) /\ Cardinality(W) <= n /\ IsFiniteSet(L) /\ Cardinality(L) <= n
  <2>1. IsFiniteSet(Processes)
    BY InodesEnough
  <2>2. writes \in Surjection(Processes, W) /\ locks \in Surjection(Processes, L)
    BY DEF StoreTypeOK, Surjection
  <2>3. IsFiniteSet(W) /\ Cardinality(W) <= n
    BY <2>1, <2>2, FS_Surjection
  <2>4. IsFiniteSet(L) /\ Cardinality(L) <= n
    BY <2>1, <2>2, FS_Surjection
  <2> QED BY <2>3, <2>4
<1>2. IsFiniteSet(F) /\ Cardinality(F) <= 2
  <2>1. \A x, y : IsFiniteSet({x, y}) /\ Cardinality({x, y}) <= 2
    <3>1. SUFFICES ASSUME NEW x, NEW y PROVE IsFiniteSet({x, y}) /\ Cardinality({x, y}) <= 2
      OBVIOUS
    <3>2. IsFiniteSet({x}) /\ Cardinality({x}) = 1 /\ {x} \cup {y} = {x, y}
      BY FS_Singleton
    <3> QED BY <3>2, FS_AddElement
  <2> QED BY <2>1
<1> DEFINE A == F \cup W
           B == A \cup L
<1>3. IsFiniteSet(B) /\ Cardinality(B) <= 2 * n + 2
  <2> HIDE DEF F, W, L
  <2>1. n \in Nat
    BY InodesEnough, FS_CardinalityType
  <2>2. IsFiniteSet(A) /\ Cardinality(A) <= n + 2 /\ Cardinality(A) \in Nat
    <3>1. IsFiniteSet(F \cap W) /\ Cardinality(F \cap W) \in Nat
      BY <1>1, <1>2, FS_Intersection, FS_CardinalityType
    <3>2. Cardinality(F) \in Nat /\ Cardinality(W) \in Nat
      BY <1>1, <1>2, FS_CardinalityType
    <3>3. IsFiniteSet(F \cup W) /\ Cardinality(F \cup W) = Cardinality(F) + Cardinality(W) - Cardinality(F \cap W)
      BY <1>1, <1>2, FS_Union
    <3>4. Cardinality(A) \in Nat
      BY <3>3, FS_CardinalityType
    <3> QED BY <1>1, <1>2, <2>1, <3>1, <3>2, <3>3, <3>4
  <2> HIDE DEF A
  <2>3. IsFiniteSet(A \cap L) /\ Cardinality(A \cap L) \in Nat /\ Cardinality(L) \in Nat
    BY <1>1, <2>2, FS_Intersection, FS_CardinalityType
  <2>4. IsFiniteSet(A \cup L) /\ Cardinality(A \cup L) = Cardinality(A) + Cardinality(L) - Cardinality(A \cap L)
    BY <1>1, <2>2, FS_Union
  <2> QED BY <1>1, <2>1, <2>2, <2>3, <2>4
<1>4. InUse \subseteq B \cup {None}
  BY DEF InUse
<1>5. \E i \in Inodes : i \notin InUse
  <2>1. SUFFICES ASSUME Inodes \subseteq InUse PROVE FALSE
    OBVIOUS
  <2>2. Inodes \subseteq B
    BY <1>4, <2>1, NoneIsNone
  <2> HIDE DEF B, n
  <2>3. Cardinality(Inodes) <= Cardinality(B)
    BY <1>3, <2>2, FS_Subset
  <2>4. Cardinality(B) \in Nat /\ Cardinality(Inodes) \in Nat /\ n \in Nat
    BY <1>3, InodesEnough, FS_CardinalityType DEF n
  <2> QED BY <1>3, <2>3, <2>4, InodesEnough DEF n
<1> QED BY <1>5 DEF NewInode

(* A store that was opened first satisfies the invariant.                  *)
LEMMA StoreInitially == StoreInit => StoreInv
BY NoneIsNone DEF StoreInit, StoreInv, StoreTypeOK, Handles, Undisturbed, Busy, Exclusive

(* Every step of a writer, a reader, a kill or a store opened keeps it.    *)
LEMMA StoreInductive == StoreInv /\ [StoreNext]_storeVars => StoreInv'
<1>1. SUFFICES ASSUME StoreInv, [StoreNext]_storeVars PROVE StoreInv'
  OBVIOUS
<1> USE <1>1
<1> USE NoneIsNone DEF Busy, Exclusive
<1>2. ASSUME NEW p \in Processes, OpenStore(p) PROVE StoreInv'
  BY <1>2 DEF StoreInv, StoreTypeOK, Handles, Undisturbed, OpenStore, files
<1>3. ASSUME NEW p \in Processes, SeeObject(p) PROVE StoreInv'
  BY <1>3 DEF StoreInv, StoreTypeOK, Handles, Undisturbed, SeeObject, files
<1>4. ASSUME NEW p \in Processes, RemoveTemp(p) PROVE StoreInv'
  <2>1. disturbed \in BOOLEAN /\ disturbed' \in BOOLEAN
    BY <1>4 DEF StoreInv, StoreTypeOK, RemoveTemp
  <2>2. StoreTypeOK'
    BY <1>4, <2>1 DEF StoreInv, StoreTypeOK, RemoveTemp
  <2>3. Handles'
    BY <1>4 DEF StoreInv, Handles, RemoveTemp
  <2>4. ASSUME ~disturbed' PROVE Undisturbed'
    <3>1. ~disturbed /\ \A q \in Processes : temp = None \/ writes[q] # temp
      BY <1>4, <2>4 DEF RemoveTemp
    <3> QED BY <1>4, <3>1 DEF StoreInv, StoreTypeOK, Handles, Undisturbed, RemoveTemp
  <2> QED BY <2>2, <2>3, <2>4 DEF StoreInv
<1>5. ASSUME NEW p \in Processes, RemoveLock(p) PROVE StoreInv'
  <2>1. disturbed \in BOOLEAN /\ disturbed' \in BOOLEAN
    BY <1>5 DEF StoreInv, StoreTypeOK, RemoveLock
  <2>2. StoreTypeOK'
    BY <1>5, <2>1 DEF StoreInv, StoreTypeOK, RemoveLock
  <2>3. Handles'
    BY <1>5 DEF StoreInv, Handles, RemoveLock
  <2>4. ASSUME ~disturbed' PROVE Undisturbed'
    <3>1. ~disturbed /\ \A q \in Processes : lockFile = None \/ locks[q] # lockFile
      BY <1>5, <2>4 DEF RemoveLock
    <3> QED BY <1>5, <3>1 DEF StoreInv, StoreTypeOK, Handles, Undisturbed, RemoveLock
  <2> QED BY <2>2, <2>3, <2>4 DEF StoreInv
<1>6. ASSUME NEW p \in Processes, Opened(p) PROVE StoreInv'
  BY <1>6 DEF StoreInv, StoreTypeOK, Handles, Undisturbed, Opened, files
<1>7. ASSUME NEW p \in Processes, OpenLock(p) PROVE StoreInv'
  <2>1. lockFile = None => NewInode \in Inodes
    BY FreshInode DEF StoreInv
  <2>2. lockFile' \in Inodes /\ locks' = [locks EXCEPT ![p] = lockFile'] /\ (lockFile # None => lockFile' = lockFile)
    BY <1>7, <2>1 DEF OpenLock, StoreInv, StoreTypeOK
  <2>3. StoreTypeOK'
    BY <1>7, <2>2 DEF StoreInv, StoreTypeOK, OpenLock
  <2>4. Handles'
    BY <1>7, <2>2 DEF StoreInv, StoreTypeOK, Handles, OpenLock
  <2>5. ASSUME ~disturbed' PROVE Undisturbed'
    BY <1>7, <2>2, <2>5 DEF StoreInv, StoreTypeOK, Handles, Undisturbed, OpenLock
  <2> QED BY <2>3, <2>4, <2>5 DEF StoreInv
<1>8. ASSUME NEW p \in Processes, Acquire(p) PROVE StoreInv'
  BY <1>8 DEF StoreInv, StoreTypeOK, Handles, Undisturbed, Acquire, files
<1>9. ASSUME NEW p \in Processes, CheckAgain(p) PROVE StoreInv'
  BY <1>9 DEF StoreInv, StoreTypeOK, Handles, Undisturbed, CheckAgain, LetGo, files
<1>10. ASSUME NEW p \in Processes, CreateTemp(p) PROVE StoreInv'
  <2>1. temp = None => NewInode \in Inodes /\ NewInode \notin InUse
    BY FreshInode DEF StoreInv
  <2>2. /\ temp' \in Inodes /\ writes' = [writes EXCEPT ![p] = temp'] /\ whole' = whole \ {temp'}
        /\ (temp # None => temp' = temp) /\ temp' # object
    BY <1>10, <2>1 DEF CreateTemp, StoreInv, StoreTypeOK, Handles, InUse
  <2>3. StoreTypeOK'
    BY <1>10, <2>2 DEF StoreInv, StoreTypeOK, CreateTemp
  <2>4. Handles'
    BY <1>10, <2>2 DEF StoreInv, StoreTypeOK, Handles, CreateTemp
  <2>5. ASSUME ~disturbed' PROVE Undisturbed'
    BY <1>10, <2>2, <2>5 DEF StoreInv, StoreTypeOK, Handles, Undisturbed, CreateTemp
  <2> QED BY <2>3, <2>4, <2>5 DEF StoreInv
<1>11. ASSUME NEW p \in Processes, Write(p) PROVE StoreInv'
  BY <1>11 DEF StoreInv, StoreTypeOK, Handles, Undisturbed, Write
<1>12. ASSUME NEW p \in Processes, Rename(p) PROVE StoreInv'
  BY <1>12 DEF StoreInv, StoreTypeOK, Handles, Undisturbed, Rename, LetGo
<1>13. ASSUME NEW p \in Processes, RenameFails(p) PROVE StoreInv'
  BY <1>13 DEF StoreInv, StoreTypeOK, Handles, Undisturbed, RenameFails, LetGo, files
<1>14. ASSUME NEW p \in Processes, RemoveObject(p) PROVE StoreInv'
  BY <1>14 DEF StoreInv, StoreTypeOK, Handles, Undisturbed, RemoveObject
<1>15. ASSUME NEW p \in Processes, Die(p) PROVE StoreInv'
  BY <1>15 DEF StoreInv, StoreTypeOK, Handles, Undisturbed, Die, LetGo, files
<1>16. CASE UNCHANGED storeVars
  BY <1>16 DEF StoreInv, StoreTypeOK, Handles, Undisturbed, storeVars
<1> QED
  BY <1>2, <1>3, <1>4, <1>5, <1>6, <1>7, <1>8, <1>9, <1>10, <1>11, <1>12, <1>13, <1>14, <1>15, <1>16
     DEF StoreNext, PutStep, OpenStep

(* Unless a store is opened over files in use no writer disturbs another,  *)
(* and what lies under an object's path has its content, at any kill.      *)
THEOREM WritersAreSound == StoreSpec => []WritersSound
<1>1. StoreInv => WritersSound
  BY NoneIsNone DEF StoreInv, WritersSound, ObjectsWhole, OneWriter, Undisturbed, Exclusive, Busy
<1> QED BY <1>1, StoreInitially, StoreInductive, PTL DEF StoreSpec

(* No step changes a whole object into anything else.                      *)
THEOREM BytesStay == StoreSpec => WholeStays
<1>1. StoreInv /\ [StoreNext]_storeVars => (object' = object /\ object \in whole => object \in whole')
  <2>1. SUFFICES ASSUME StoreInv, [StoreNext]_storeVars, object' = object, object \in whole
                 PROVE  object \in whole'
    OBVIOUS
  <2>2. CASE \E p \in Processes : CreateTemp(p)
    <3>1. PICK p \in Processes : CreateTemp(p)
      BY <2>2
    <3>2. temp = None => NewInode \notin InUse
      BY <2>1, FreshInode DEF StoreInv
    <3> QED BY <2>1, <3>1, <3>2 DEF CreateTemp, StoreInv, Handles, InUse
  <2>3. CASE ~ \E p \in Processes : CreateTemp(p)
    <3>1. whole' = whole \/ \E p \in Processes : whole' = whole \cup {writes[p]}
      BY <2>1, <2>3 DEF StoreNext, PutStep, OpenStep, OpenStore, SeeObject, RemoveTemp, RemoveLock,
         Opened, OpenLock, Acquire, CheckAgain, Write, Rename, RenameFails, RemoveObject, Die,
         storeVars, files
    <3> QED BY <2>1, <3>1
  <2> QED BY <2>2, <2>3
<1> QED BY <1>1, StoreInitially, StoreInductive, PTL DEF StoreSpec, WholeStays

-----------------------------------------------------------------------------
(* The members of P that are in an index are the ones used last.           *)
UsedLast(P, idx) == \A i, j \in DOMAIN idx : i < j /\ idx[i] \in P => idx[j] \in P

(* The index without what was removed is a filtered index.                 *)
LEMMA WithoutIsKept == \A idx, gone : Without(idx, gone) = Kept(idx, gone)
BY DEF Without, Kept

(* Sizes of disjoint sets of objects add up.                               *)
LEMMA SizesAdd ==
  ASSUME NEW B \in SUBSET Hashes
  PROVE  /\ TotalSize(B) \in Nat
         /\ \A A \in SUBSET B : /\ TotalSize(B) = TotalSize(A) + TotalSize(B \ A)
                                /\ TotalSize(A) \in Nat /\ TotalSize(B \ A) \in Nat
                                /\ TotalSize(A) <= TotalSize(B)
<1>1. \A A : TotalSize(A) = Sum(Size, A)
  BY DEF TotalSize, Sum
<1>2. Size \in [Hashes -> Nat]
  BY SizesPositive
<1>3. \A A \in SUBSET Hashes : TotalSize(A) \in Nat
  BY <1>1, <1>2, HashesFinite, SumSteps
<1>4. ASSUME NEW A \in SUBSET B PROVE TotalSize(B) = TotalSize(A) + TotalSize(B \ A)
  BY <1>1, <1>2, HashesFinite, SumSplits
<1>5. ASSUME NEW A \in SUBSET B PROVE TotalSize(A) \in Nat /\ TotalSize(B \ A) \in Nat
  BY <1>3
<1>6. ASSUME NEW A \in SUBSET B PROVE TotalSize(A) <= TotalSize(B)
  <2> DEFINE a == TotalSize(A)
             b == TotalSize(B \ A)
             c == TotalSize(B)
  <2>1. c = a + b /\ a \in Nat /\ b \in Nat
    BY <1>4, <1>5
  <2> HIDE DEF a, b, c
  <2>2. a <= c
    BY <2>1
  <2> QED BY <2>2 DEF a, c
<1> QED BY <1>3, <1>4, <1>5, <1>6

(* What the index is after some of its objects were removed from it.       *)
LEMMA WithoutFacts ==
  ASSUME NEW idx \in Seq(Hashes), NEW gone
  PROVE  /\ Without(idx, gone) \in Seq(Hashes)
         /\ ToSet(Without(idx, gone)) = ToSet(idx) \ gone
         /\ IsInjective(idx) => IsInjective(Without(idx, gone))
         /\ \A P : UsedLast(P, idx) => UsedLast(P, Without(idx, gone))
<1> DEFINE out == Without(idx, gone)
<1>1. out = Kept(idx, gone)
  BY WithoutIsKept
<1>2. out \in Seq(Hashes) /\ \E f : Places(f, out, idx, Len(idx), gone)
  BY <1>1, KeptInOrder
<1>3. ToSet(out) = ToSet(idx) \ gone /\ (IsInjective(idx) => IsInjective(out))
  BY <1>1, KeptRange
<1> HIDE DEF out
<1>4. ASSUME NEW P, UsedLast(P, idx) PROVE UsedLast(P, out)
  <2>1. PICK f : Places(f, out, idx, Len(idx), gone)
    BY <1>2
  <2>2. DOMAIN out = 1 .. Len(out) /\ DOMAIN idx = 1 .. Len(idx)
    BY <1>2
  <2>3. SUFFICES ASSUME NEW i \in DOMAIN out, NEW j \in DOMAIN out, i < j, out[i] \in P
                 PROVE  out[j] \in P
    BY DEF UsedLast
  <2>4. /\ f[i] \in DOMAIN idx /\ f[j] \in DOMAIN idx /\ f[i] < f[j]
        /\ out[i] = idx[f[i]] /\ out[j] = idx[f[j]]
    BY <2>1, <2>2, <2>3 DEF Places
  <2> QED BY <1>4, <2>3, <2>4 DEF UsedLast
<1> QED BY <1>2, <1>3, <1>4 DEF out

(* What the index is after an object was used.                             *)
LEMMA TouchedFacts ==
  ASSUME NEW idx \in Seq(Hashes), NEW h \in Hashes
  PROVE  /\ Touched(idx, h) \in Seq(Hashes)
         /\ ToSet(Touched(idx, h)) = ToSet(idx) \cup {h}
         /\ IsInjective(idx) => IsInjective(Touched(idx, h))
         /\ \A P : UsedLast(P, idx) => UsedLast(P \cup {h}, Touched(idx, h))
<1> DEFINE w == Without(idx, {h})
           out == Append(w, h)
<1>1. /\ w \in Seq(Hashes) /\ ToSet(w) = ToSet(idx) \ {h}
      /\ IsInjective(idx) => IsInjective(w)
      /\ \A P : UsedLast(P, idx) => UsedLast(P, w)
  BY WithoutFacts
<1> HIDE DEF w
<1>2. /\ out \in Seq(Hashes) /\ Len(out) = Len(w) + 1 /\ Len(w) \in Nat
      /\ DOMAIN out = 1 .. Len(w) + 1 /\ DOMAIN w = 1 .. Len(w)
      /\ out[Len(w) + 1] = h /\ \A i \in 1 .. Len(w) : out[i] = w[i]
  BY <1>1
<1> HIDE DEF out
<1>3. \A i \in DOMAIN out : (i \in DOMAIN w /\ out[i] = w[i]) \/ (i = Len(w) + 1 /\ out[i] = h)
  BY <1>2
<1>4. ToSet(out) = ToSet(w) \cup {h}
  <2>1. \A i \in DOMAIN out : out[i] \in ToSet(w) \cup {h}
    BY <1>3 DEF ToSet
  <2>2. \A i \in DOMAIN w : w[i] \in ToSet(out)
    BY <1>2 DEF ToSet
  <2>3. h \in ToSet(out)
    BY <1>2 DEF ToSet
  <2> QED BY <2>1, <2>2, <2>3 DEF ToSet
<1>5. ASSUME IsInjective(idx) PROVE IsInjective(out)
  <2>1. IsInjective(w) /\ \A i \in DOMAIN w : w[i] # h
    BY <1>1, <1>5 DEF ToSet
  <2> QED BY <1>3, <2>1 DEF IsInjective
<1>6. ASSUME NEW P, UsedLast(P, idx) PROVE UsedLast(P \cup {h}, out)
  <2>1. UsedLast(P, w) /\ \A i \in DOMAIN w : w[i] # h
    BY <1>1, <1>6 DEF ToSet
  <2>2. SUFFICES ASSUME NEW i \in DOMAIN out, NEW j \in DOMAIN out, i < j, out[i] \in P \cup {h}
                 PROVE  out[j] \in P \cup {h}
    BY DEF UsedLast
  <2>3. i \in DOMAIN w /\ out[i] = w[i]
    BY <1>2, <1>3, <2>2
  <2>4. w[i] \in P
    BY <2>1, <2>2, <2>3
  <2> QED BY <1>3, <2>1, <2>2, <2>3, <2>4 DEF UsedLast
<1> QED BY <1>1, <1>2, <1>4, <1>5, <1>6 DEF Touched, w, out

(* The index that a collection makes of the files in the store.            *)
LEMMA IndexOfStore ==
  ASSUME NEW S \in SUBSET Hashes, NEW s \in SetToSeqs(S)
  PROVE  s \in Seq(Hashes) /\ ToSet(s) = S /\ IsInjective(s)
<1> DEFINE n == Cardinality(S)
<1>1. IsFiniteSet(S) /\ n \in Nat
  BY HashesFinite, FS_Subset, FS_CardinalityType
<1>2. s \in [1 .. n -> S] /\ IsInjective(s)
  BY DEF SetToSeqs, IsInjective
<1>3. s \in Injection(1 .. n, S)
  BY <1>2 DEF Injection, IsInjective
<1>4. Cardinality(1 .. n) = Cardinality(S)
  <2>1. \A k \in Nat : Cardinality(1 .. k) = k
    BY FS_Interval
  <2> HIDE DEF n
  <2>2. Cardinality(1 .. n) = n
    BY <1>1, <2>1
  <2> QED BY <2>2 DEF n
<1>5. s \in Surjection(1 .. n, S)
  <2> HIDE DEF n
  <2> QED BY <1>1, <1>3, <1>4, FS_Injection
<1>6. ToSet(s) = S
  BY <1>2, <1>5 DEF ToSet, Surjection
<1>7. s \in Seq(S)
  <2> HIDE DEF n
  <2> QED BY <1>1, <1>2
<1> QED BY <1>2, <1>6, <1>7

(* What evicting does: what is left is within the target, or nothing could *)
(* be removed that was not in use.                                         *)
LEMMA EvictionFacts ==
  ASSUME NEW idx \in Seq(Hashes), NEW there \in SUBSET Hashes,
         TotalSize(ToSet(idx)) > Target
  PROVE  LET gone == Eviction(idx, there, TotalSize(ToSet(idx)) - Target) IN
         /\ gone \in SUBSET ToSet(idx)
         /\ TotalSize(ToSet(idx) \ gone) <= Target
         /\ \A P \in SUBSET Hashes :
               ToSet(idx) \subseteq there /\ UsedLast(P, idx) /\ TotalSize(P) <= Target => gone \cap P = {}
<1> DEFINE total == TotalSize(ToSet(idx))
           enough == total - Target
           oldest(k) == {idx[i] : i \in 1 .. k}
           freed(k) == TotalSize(oldest(k) \cap there)
           n == Len(idx)
           Stops(k) == /\ k = Len(idx) \/ freed(k) >= enough
                       /\ \A j \in 0 .. k - 1 : freed(j) < enough
           last == CHOOSE k \in 0 .. Len(idx) : Stops(k)
           gone == Eviction(idx, there, enough)
<1>1. /\ ToSet(idx) \in SUBSET Hashes /\ n \in Nat /\ DOMAIN idx = 1 .. n
      /\ total \in Nat /\ Target \in Nat /\ enough \in Nat /\ enough > 0
  <2>1. ToSet(idx) \in SUBSET Hashes /\ n \in Nat /\ DOMAIN idx = 1 .. n
    BY DEF ToSet
  <2>2. TotalSize(ToSet(idx)) \in Nat
    BY <2>1, SizesAdd
  <2> QED BY <2>1, <2>2, TargetBelowThreshold
<1>2. ASSUME NEW k \in 0 .. n
      PROVE  oldest(k) \in SUBSET ToSet(idx) /\ oldest(k) \cap there \in SUBSET Hashes /\ freed(k) \in Nat
  <2>1. oldest(k) \in SUBSET ToSet(idx)
    BY <1>1 DEF ToSet
  <2>2. oldest(k) \cap there \in SUBSET Hashes
    OBVIOUS
  <2> HIDE DEF oldest
  <2> QED BY <2>1, <2>2, SizesAdd
<1>3. \E k \in 0 .. Len(idx) : Stops(k)
  <2> DEFINE S == {k \in 0 .. n : k = n \/ freed(k) >= enough}
  <2>1. n \in S
    BY <1>1
  <2>2. PICK m \in Nat : m \in S /\ m <= n /\ \A k \in 0 .. m - 1 : k \notin S
    <3> HIDE DEF S
    <3> QED BY <1>1, <2>1, LeastNumber
  <2>3. ASSUME NEW j \in 0 .. m - 1 PROVE freed(j) < enough
    <3>1. j \in 0 .. n /\ j # n
      <4> HIDE DEF n, S
      <4> QED BY <1>1, <2>2
    <3>2. j \notin S
      <4> HIDE DEF n, S
      <4> QED BY <2>2
    <3>3. ~ (freed(j) >= enough)
      <4> HIDE DEF n, freed, enough
      <4> QED BY <3>1, <3>2
    <3>4. freed(j) \in Nat
      <4> HIDE DEF n, freed
      <4> QED BY <1>2, <3>1
    <3> HIDE DEF freed, enough
    <3> QED BY <1>1, <3>3, <3>4
  <2>4. m \in 0 .. Len(idx) /\ (m = Len(idx) \/ freed(m) >= enough)
    BY <2>2
  <2> HIDE DEF freed, enough
  <2> QED BY <2>3, <2>4
<1>4. last \in 0 .. n /\ Stops(last) /\ gone = oldest(last)
  <2>1. gone = oldest(last)
    BY DEF Eviction
  <2> HIDE DEF Stops
  <2> QED BY <1>3, <2>1
<1> HIDE DEF last, gone
<1>5. gone \in SUBSET ToSet(idx)
  BY <1>2, <1>4
<1>6. TotalSize(ToSet(idx) \ gone) <= Target
  <2>1. CASE last = n
    <3>1. ToSet(idx) \ gone = {}
      BY <1>1, <1>4, <2>1 DEF ToSet
    <3>2. TotalSize({}) = 0
      <4>1. Sum(Size, {}) = 0
        BY HashesFinite, SizesPositive, SumSteps
      <4> QED BY <4>1 DEF TotalSize, Sum
    <3>3. 0 <= Target
      BY <1>1
    <3> HIDE DEF total, enough
    <3> QED BY <3>1, <3>2, <3>3
  <2>2. CASE freed(last) >= enough
    <3>1. gone \cap there \in SUBSET gone /\ freed(last) = TotalSize(gone \cap there)
      BY <1>4
    <3>2. TotalSize(gone \cap there) <= TotalSize(gone) /\ TotalSize(gone \cap there) \in Nat /\ TotalSize(gone) \in Nat
      BY <1>1, <1>5, <3>1, SizesAdd
    <3>3. total = TotalSize(gone) + TotalSize(ToSet(idx) \ gone) /\ TotalSize(ToSet(idx) \ gone) \in Nat
      BY <1>1, <1>5, SizesAdd
    <3> HIDE DEF freed, total
    <3> QED BY <1>1, <2>2, <3>1, <3>2, <3>3
  <2> QED BY <1>4, <2>1, <2>2
<1>7. ASSUME NEW P \in SUBSET Hashes, ToSet(idx) \subseteq there, UsedLast(P, idx), TotalSize(P) <= Target
      PROVE  gone \cap P = {}
  <2>1. SUFFICES ASSUME NEW i \in 1 .. last, idx[i] \in P PROVE FALSE
    BY <1>4
  <2>2. i - 1 \in 0 .. last - 1 /\ i - 1 \in 0 .. n /\ i \in DOMAIN idx
    <3> HIDE DEF n, freed, enough, Stops
    <3> QED BY <1>1, <1>4
  <2> DEFINE old == oldest(i - 1)
  <2>3. old \in SUBSET ToSet(idx) /\ old \cap there = old /\ freed(i - 1) = TotalSize(old)
    <3>1. old \in SUBSET ToSet(idx)
      <4> HIDE DEF oldest, n
      <4> QED BY <1>2, <2>2
    <3>2. old \cap there = old
      <4> HIDE DEF old
      <4> QED BY <1>7, <3>1
    <3>3. freed(i - 1) = TotalSize(old \cap there)
      OBVIOUS
    <3> HIDE DEF old, freed
    <3> QED BY <3>1, <3>2, <3>3
  <2>4. freed(i - 1) < enough
    BY <1>4, <2>2
  <2>5. ToSet(idx) \ old \subseteq P
    <3>1. SUFFICES ASSUME NEW j \in DOMAIN idx, idx[j] \notin old PROVE idx[j] \in P
      BY DEF ToSet
    <3>2. j >= i
      BY <1>1, <2>2, <3>1
    <3> QED BY <1>1, <1>7, <2>1, <2>2, <3>2 DEF UsedLast
  <2>6. TotalSize(ToSet(idx) \ old) <= TotalSize(P) /\ TotalSize(P) \in Nat
    BY <2>5, <1>7, SizesAdd
  <2>7. total = TotalSize(old) + TotalSize(ToSet(idx) \ old) /\ TotalSize(old) \in Nat /\ TotalSize(ToSet(idx) \ old) \in Nat
    BY <1>1, <2>3, SizesAdd
  <2> HIDE DEF old, freed, total
  <2> QED BY <1>1, <1>7, <2>3, <2>4, <2>6, <2>7
<1> HIDE DEF gone
<1>8. /\ gone \in SUBSET ToSet(idx)
      /\ TotalSize(ToSet(idx) \ gone) <= Target
      /\ \A P \in SUBSET Hashes :
               ToSet(idx) \subseteq there /\ UsedLast(P, idx) /\ TotalSize(P) <= Target => gone \cap P = {}
  BY <1>5, <1>6, <1>7
<1> QED BY <1>8 DEF gone

-----------------------------------------------------------------------------
Done(e) == Outputs[job[e].signature] \ job[e].todo

CacheTypes ==
    /\ CacheTypeOK
    /\ index \in [Executors -> Seq(Hashes)]
    /\ shared \in BOOLEAN /\ evicted \in BOOLEAN

(* Only an executor that exists has a task, with some of its outputs left. *)
Jobs ==
    \A e \in Executors :
        /\ job[e] # Idle => e \in up /\ job[e].signature # NoSignature
        /\ job[e] # Idle => job[e].todo \subseteq Outputs[job[e].signature]

(* One executor at a time: its index is the store, it knows the actions,   *)
(* and what its task has put is there, used last if it fits the target.    *)
Alone ==
    /\ \A e, f \in up : e = f
    /\ \A e \in up : ToSet(index[e]) = objects /\ actions \subseteq memory[e]
    /\ \A e \in up :
           job[e] # Idle /\ TotalSize(Outputs[job[e].signature]) <= Target =>
               Done(e) \subseteq objects /\ UsedLast(Done(e), index[e])

(* Without an eviction, nothing an action or a running task needs is gone. *)
NothingGone ==
    /\ \A s \in actions : Outputs[s] \subseteq objects
    /\ \A e \in up : \A s \in memory[e] : Outputs[s] \subseteq objects
    /\ \A e \in up : job[e] # Idle => Done(e) \subseteq objects

CacheInv ==
    /\ CacheTypes
    /\ Jobs
    /\ WithinLimit
    /\ ~shared => Alone
    /\ ~shared /\ ~evicted => NothingGone

(* An empty cache satisfies the invariant.                                 *)
LEMMA CacheInitially == CacheInit => CacheInv
<1> SUFFICES ASSUME CacheInit PROVE CacheInv
  OBVIOUS
<1>1. CacheTypes
  <2>1. index \in [Executors -> Seq(Hashes)] /\ \A e \in Executors : index[e] = << >>
    BY DEF CacheInit
  <2>2. ToSet(<< >>) = {} /\ IsInjective(<< >>)
    BY DEF ToSet, IsInjective
  <2>3. job \in [Executors -> [signature : Signatures \cup {NoSignature}, todo : SUBSET Hashes]]
    BY DEF CacheInit, Idle
  <2> QED BY <2>1, <2>2, <2>3 DEF CacheInit, CacheTypes, CacheTypeOK
<1> QED BY <1>1 DEF CacheInit, CacheInv, Jobs, WithinLimit, Alone, NothingGone, Idle

(* Every step of an execution, of a collection or of a kill keeps it.      *)
LEMMA CacheInductive == CacheInv /\ [CacheNext]_cacheVars => CacheInv'
<1> SUFFICES ASSUME CacheInv, [CacheNext]_cacheVars PROVE CacheInv'
  OBVIOUS
<1>a. CacheTypes /\ Jobs /\ WithinLimit /\ (~shared => Alone) /\ (~shared /\ ~evicted => NothingGone)
  BY DEF CacheInv
<1>b. \A e \in Executors : /\ index[e] \in Seq(Hashes) /\ IsInjective(index[e])
                           /\ ToSet(index[e]) \in SUBSET Hashes
                           /\ job[e].todo \in SUBSET Hashes
  BY <1>a DEF CacheTypes, CacheTypeOK
<1>1. ASSUME NEW e \in Executors, Create(e) PROVE CacheInv'
  <2>1. PICK s \in SetToSeqs(objects) : index' = [index EXCEPT ![e] = s]
    BY <1>1 DEF Create
  <2>2. s \in Seq(Hashes) /\ ToSet(s) = objects /\ IsInjective(s)
    BY <1>a, IndexOfStore DEF CacheTypes, CacheTypeOK
  <2>3. CacheTypes'
    BY <1>1, <1>a, <2>1, <2>2 DEF CacheTypes, CacheTypeOK, Create, Beside, disk
  <2>4. Jobs' /\ job[e] = Idle
    BY <1>1, <1>a DEF Jobs, Create
  <2>5. WithinLimit'
    BY <1>1, <1>a, <2>1 DEF WithinLimit, Create, CacheTypes, CacheTypeOK
  <2>6. ASSUME ~shared' PROVE up = {} /\ ~shared
    BY <1>1, <2>6 DEF Create, Beside
  <2>7. ASSUME ~shared' PROVE Alone'
    BY <1>1, <1>a, <2>1, <2>2, <2>4, <2>6, <2>7 DEF Alone, Create, disk, CacheTypes, CacheTypeOK
  <2>8. ASSUME ~shared', ~evicted' PROVE NothingGone'
    BY <1>1, <1>a, <2>4, <2>6, <2>8 DEF NothingGone, Create, disk, CacheTypes, CacheTypeOK, Beside, Done
  <2> QED BY <2>3, <2>4, <2>5, <2>7, <2>8 DEF CacheInv
<1>2. ASSUME NEW e \in Executors, Drop(e) PROVE CacheInv'
  <2>1. CacheTypes'
    BY <1>2, <1>a DEF CacheTypes, CacheTypeOK, Drop, disk, Idle, ToSet, IsInjective
  <2>2. Jobs'
    BY <1>2, <1>a DEF Jobs, Drop, CacheTypes, CacheTypeOK
  <2>3. WithinLimit'
    BY <1>2, <1>a DEF WithinLimit, Drop, CacheTypes, CacheTypeOK
  <2>4. ASSUME ~shared' PROVE Alone'
    BY <1>2, <1>a, <2>4 DEF Alone, Drop, disk, CacheTypes, CacheTypeOK, Done
  <2>5. ASSUME ~shared', ~evicted' PROVE NothingGone'
    BY <1>2, <1>a, <2>5 DEF NothingGone, Drop, disk, CacheTypes, CacheTypeOK, Done
  <2> QED BY <2>1, <2>2, <2>3, <2>4, <2>5 DEF CacheInv
<1>3. ASSUME NEW e \in Executors, NEW s \in Signatures, BeginTask(e, s) PROVE CacheInv'
  <2>1. CacheTypes'
    BY <1>3, <1>a, OutputsAreHashes DEF CacheTypes, CacheTypeOK, BeginTask, disk
  <2>2. Jobs'
    BY <1>3, <1>a, SignaturesNamed DEF Jobs, BeginTask, CacheTypes, CacheTypeOK
  <2>3. WithinLimit'
    BY <1>3, <1>a DEF WithinLimit, BeginTask
  <2>4. \A f \in Executors : f # e => job'[f] = job[f]
    BY <1>3, <1>a DEF BeginTask, CacheTypes, CacheTypeOK
  <2>5. Outputs[job'[e].signature] \ job'[e].todo = {}
    BY <1>3, <1>a DEF BeginTask, CacheTypes, CacheTypeOK
  <2>6. ASSUME ~shared' PROVE Alone'
    <3>1. UsedLast({}, index[e])
      BY DEF UsedLast
    <3> QED BY <1>3, <1>a, <2>4, <2>5, <2>6, <3>1 DEF Alone, BeginTask, disk, CacheTypes, CacheTypeOK, Done
  <2>7. ASSUME ~shared', ~evicted' PROVE NothingGone'
    BY <1>3, <1>a, <2>4, <2>5, <2>7 DEF NothingGone, BeginTask, disk, CacheTypes, CacheTypeOK, Done
  <2> QED BY <2>1, <2>2, <2>3, <2>6, <2>7 DEF CacheInv
<1>4. ASSUME NEW e \in Executors, NEW h \in Hashes, PutExisting(e, h) PROVE CacheInv'
  <2> DEFINE idx == index'[e]
  <2>1. e \in up /\ job[e] # Idle
    BY <1>4, <1>a DEF PutExisting, Jobs, Idle
  <2>2. /\ idx \in Seq(Hashes) /\ IsInjective(idx) /\ ToSet(idx) = ToSet(index[e])
        /\ \A P : h \in ToSet(index[e]) /\ UsedLast(P, index[e]) => UsedLast(P \cup {h}, idx)
    <3>1. idx = IF h \in ToSet(index[e]) THEN Touched(index[e], h) ELSE index[e]
      BY <1>4, <1>a DEF PutExisting, CacheTypes
    <3>2. CASE h \in ToSet(index[e])
      <4>1. idx = Touched(index[e], h)
        BY <3>1, <3>2
      <4>2. /\ Touched(index[e], h) \in Seq(Hashes)
            /\ ToSet(Touched(index[e], h)) = ToSet(index[e]) \cup {h}
            /\ IsInjective(Touched(index[e], h))
            /\ \A P : UsedLast(P, index[e]) => UsedLast(P \cup {h}, Touched(index[e], h))
        BY <1>b, TouchedFacts
      <4> HIDE DEF idx
      <4> QED BY <3>2, <4>1, <4>2
    <3>3. CASE h \notin ToSet(index[e])
      BY <1>b, <3>1, <3>3
    <3> QED BY <3>2, <3>3
  <2>3. index' = [index EXCEPT ![e] = idx]
    BY <1>4, <1>a DEF PutExisting, CacheTypes
  <2> HIDE DEF idx
  <2>4. /\ \A f \in Executors : f # e => job'[f] = job[f] /\ index'[f] = index[f]
        /\ job'[e].signature = job[e].signature /\ job'[e].todo = job[e].todo \ {h}
        /\ index'[e] = idx
    BY <1>4, <1>a, <2>3 DEF PutExisting, CacheTypes, CacheTypeOK
  <2>5. CacheTypes'
    BY <1>4, <1>a, <2>2, <2>3 DEF CacheTypes, CacheTypeOK, PutExisting, disk
  <2>6. Jobs'
    BY <1>4, <1>a, <2>1, <2>4 DEF Jobs, PutExisting
  <2>7. WithinLimit'
    BY <1>4, <1>a, <2>2, <2>4 DEF WithinLimit, PutExisting, CacheTypes, CacheTypeOK
  <2>8. Outputs[job'[e].signature] \ job'[e].todo = Done(e) \cup {h} /\ h \in objects
    <3>1. job[e].todo \subseteq Outputs[job[e].signature] /\ h \in job[e].todo
      BY <1>4, <1>a, <2>1 DEF Jobs, PutExisting
    <3>2. job'[e].signature = job[e].signature /\ job'[e].todo = job[e].todo \ {h}
      BY <2>4
    <3> QED BY <1>4, <3>1, <3>2 DEF Done, PutExisting
  <2>9. ASSUME ~shared' PROVE Alone'
    <3>1. Alone /\ ~shared
      BY <1>4, <1>a, <2>9 DEF PutExisting
    <3>2. \A f \in up : f = e
      BY <2>1, <3>1 DEF Alone
    <3>3. ToSet(index[e]) = objects
      BY <2>1, <3>1 DEF Alone
    <3>4. up' = up /\ objects' = objects /\ actions' = actions /\ memory' = memory
      BY <1>4 DEF PutExisting, disk
    <3>5. job'[e].signature = job[e].signature
      BY <2>4
    <3>6. TotalSize(Outputs[job[e].signature]) <= Target =>
              Done(e) \cup {h} \subseteq objects /\ UsedLast(Done(e) \cup {h}, idx)
      BY <2>1, <2>2, <2>8, <3>1, <3>3 DEF Alone
    <3>7. Done(e)' = Done(e) \cup {h}
      BY <2>8 DEF Done
    <3>8. ToSet(index'[e]) = objects /\ actions \subseteq memory[e]
      BY <2>1, <2>2, <2>4, <3>1, <3>3 DEF Alone
    <3> HIDE DEF idx
    <3> QED BY <2>1, <2>4, <3>2, <3>4, <3>5, <3>6, <3>7, <3>8 DEF Alone
  <2>10. ASSUME ~shared', ~evicted' PROVE NothingGone'
    <3>1. NothingGone
      BY <1>4, <1>a, <2>10 DEF PutExisting
    <3>2. up' = up /\ objects' = objects /\ actions' = actions /\ memory' = memory
      BY <1>4 DEF PutExisting, disk
    <3>3. Done(e)' = Done(e) \cup {h} /\ h \in objects
      BY <2>8 DEF Done
    <3>4. \A f \in up : job'[f] # Idle => Done(f)' \subseteq objects
      <4> SUFFICES ASSUME NEW f \in up, job'[f] # Idle PROVE Done(f)' \subseteq objects
        OBVIOUS
      <4>1. CASE f = e
        BY <2>1, <3>1, <3>3, <4>1 DEF NothingGone
      <4>2. CASE f # e
        <5>1. f \in Executors /\ job'[f] = job[f]
          BY <1>a, <2>4, <4>2 DEF CacheTypes, CacheTypeOK
        <5> QED BY <3>1, <5>1 DEF NothingGone, Done
      <4> QED BY <4>1, <4>2
    <3> QED BY <3>1, <3>2, <3>4 DEF NothingGone
  <2> QED BY <2>5, <2>6, <2>7, <2>9, <2>10 DEF CacheInv
<1>5. ASSUME NEW e \in Executors, NEW h \in Hashes, PutNew(e, h) PROVE CacheInv'
  <2> DEFINE idx == Touched(index[e], h)
             gone == CollectedIfNeeded(idx, objects \cup {h})
             new == Without(idx, gone)
  <2>1. e \in up /\ job[e] # Idle /\ h \in job[e].todo /\ h \notin objects
    BY <1>5, <1>a DEF PutNew, Jobs, Idle
  <2>2. /\ objects' = (objects \cup {h}) \ gone
        /\ index' = [index EXCEPT ![e] = new]
        /\ job' = [job EXCEPT ![e].todo = @ \ {h}]
        /\ stored' = stored \cup {e} /\ evicted' = Aged(gone)
        /\ UNCHANGED <<actions, up, memory, shared>>
    BY <1>5 DEF PutNew
  <2>3. /\ idx \in Seq(Hashes) /\ IsInjective(idx) /\ ToSet(idx) = ToSet(index[e]) \cup {h}
        /\ \A P : UsedLast(P, index[e]) => UsedLast(P \cup {h}, idx)
    BY <1>b, TouchedFacts
  <2>4. ToSet(idx) \in SUBSET Hashes /\ objects \cup {h} \in SUBSET Hashes
    BY <1>a, <1>b, <2>3 DEF CacheTypes, CacheTypeOK
  <2> HIDE DEF idx
  <2>5. /\ TotalSize(ToSet(idx) \ gone) <= Threshold
        /\ \A P \in SUBSET Hashes :
              ToSet(idx) \subseteq objects \cup {h} /\ UsedLast(P, idx) /\ TotalSize(P) <= Target =>
                  gone \cap P = {}
    <3>1. Threshold \in Nat /\ Target \in Nat /\ Target <= Threshold /\ TotalSize(ToSet(idx)) \in Nat
      BY <2>4, SizesAdd, TargetBelowThreshold
    <3>2. CASE TotalSize(ToSet(idx)) > Threshold
      <4>1. gone = Eviction(idx, objects \cup {h}, TotalSize(ToSet(idx)) - Target)
        BY <3>2 DEF CollectedIfNeeded
      <4>2. TotalSize(ToSet(idx)) > Target
        BY <3>1, <3>2
      <4>3. /\ TotalSize(ToSet(idx) \ gone) <= Target
            /\ \A P \in SUBSET Hashes :
                  ToSet(idx) \subseteq objects \cup {h} /\ UsedLast(P, idx) /\ TotalSize(P) <= Target =>
                      gone \cap P = {}
        BY <2>3, <2>4, <4>1, <4>2, EvictionFacts
      <4>4. TotalSize(ToSet(idx) \ gone) \in Nat
        BY <2>4, SizesAdd
      <4> HIDE DEF gone
      <4> QED BY <3>1, <4>3, <4>4
    <3>3. CASE ~ (TotalSize(ToSet(idx)) > Threshold)
      <4>1. gone = {}
        BY <3>3 DEF CollectedIfNeeded
      <4>2. ToSet(idx) \ gone = ToSet(idx)
        BY <4>1
      <4> HIDE DEF gone
      <4> QED BY <3>1, <3>3, <4>1, <4>2
    <3> QED BY <3>2, <3>3
  <2> HIDE DEF gone
  <2>6. /\ new \in Seq(Hashes) /\ IsInjective(new) /\ ToSet(new) = ToSet(idx) \ gone
        /\ \A P : UsedLast(P, idx) => UsedLast(P, new)
    BY <2>3, WithoutFacts
  <2> HIDE DEF new
  <2>7. /\ \A f \in Executors : f # e => job'[f] = job[f] /\ index'[f] = index[f]
        /\ job'[e].signature = job[e].signature /\ job'[e].todo = job[e].todo \ {h}
        /\ index'[e] = new
    BY <1>a, <2>2 DEF CacheTypes, CacheTypeOK
  <2>8. CacheTypes'
    <3>1. evicted' \in BOOLEAN /\ shared' \in BOOLEAN
      BY <1>a, <2>2 DEF CacheTypes, Aged
    <3>2. index' \in [Executors -> Seq(Hashes)]
      BY <1>a, <2>2, <2>6 DEF CacheTypes
    <3>3. \A f \in Executors : ToSet(index'[f]) \subseteq Hashes /\ IsInjective(index'[f])
      BY <1>b, <2>4, <2>6, <2>7
    <3>4. job' \in [Executors -> [signature : Signatures \cup {NoSignature}, todo : SUBSET Hashes]]
      BY <1>a, <2>2 DEF CacheTypes, CacheTypeOK
    <3> QED BY <1>a, <2>1, <2>2, <2>4, <3>1, <3>2, <3>3, <3>4 DEF CacheTypes, CacheTypeOK
  <2>9. Jobs'
    BY <1>a, <2>1, <2>2, <2>7 DEF Jobs
  <2>10. WithinLimit'
    <3>1. \A f \in stored : f \in Executors
      BY <1>a DEF CacheTypes, CacheTypeOK
    <3> QED BY <1>a, <2>2, <2>5, <2>6, <2>7, <3>1 DEF WithinLimit
  <2>11. /\ Done(e)' = Done(e) \cup {h}
         /\ Done(e) \cup {h} \subseteq Outputs[job[e].signature]
         /\ Outputs[job[e].signature] \in SUBSET Hashes
    <3>1. job[e].todo \subseteq Outputs[job[e].signature] /\ job[e].signature \in Signatures
      BY <1>a, <2>1 DEF Jobs, CacheTypes, CacheTypeOK
    <3> QED BY <2>1, <2>7, <3>1, OutputsAreHashes DEF Done
  <2>12. ASSUME ~shared' PROVE Alone'
    <3>1. Alone /\ ~shared
      BY <1>a, <2>2, <2>12
    <3>2. \A f \in up : f = e
      BY <2>1, <3>1 DEF Alone
    <3>3. ToSet(index[e]) = objects /\ actions \subseteq memory[e]
      BY <2>1, <3>1 DEF Alone
    <3>4. ToSet(index'[e]) = objects'
      BY <2>2, <2>3, <2>6, <2>7, <3>3
    <3>5. ASSUME TotalSize(Outputs[job[e].signature]) <= Target
          PROVE  Done(e)' \subseteq objects' /\ UsedLast(Done(e)', index'[e])
      <4>1. Done(e) \subseteq objects /\ UsedLast(Done(e), index[e])
        BY <2>1, <3>1, <3>5 DEF Alone
      <4>2. UsedLast(Done(e) \cup {h}, idx) /\ ToSet(idx) \subseteq objects \cup {h}
        BY <2>3, <3>3, <4>1
      <4>3. TotalSize(Done(e) \cup {h}) <= Target /\ Done(e) \cup {h} \in SUBSET Hashes
        <5>1. /\ TotalSize(Done(e) \cup {h}) <= TotalSize(Outputs[job[e].signature])
              /\ TotalSize(Done(e) \cup {h}) \in Nat
              /\ TotalSize(Outputs[job[e].signature]) \in Nat
          BY <2>11, SizesAdd
        <5> QED BY <2>11, <3>5, <5>1, TargetBelowThreshold
      <4>4. gone \cap (Done(e) \cup {h}) = {}
        BY <2>5, <4>2, <4>3
      <4>5. UsedLast(Done(e) \cup {h}, new)
        BY <2>6, <4>2
      <4> QED BY <2>2, <2>7, <2>11, <4>1, <4>4, <4>5
    <3> QED BY <2>1, <2>2, <2>7, <3>2, <3>3, <3>4, <3>5 DEF Alone
  <2>13. ASSUME ~shared', ~evicted' PROVE NothingGone'
    <3>1. NothingGone /\ gone = {}
      BY <1>a, <2>2, <2>13 DEF Aged
    <3>2. objects' = objects \cup {h}
      BY <2>2, <3>1
    <3>3. \A f \in up : job'[f] # Idle => Done(f)' \subseteq objects'
      <4> SUFFICES ASSUME NEW f \in up, job'[f] # Idle PROVE Done(f)' \subseteq objects'
        OBVIOUS
      <4>1. CASE f = e
        BY <2>1, <2>11, <3>1, <3>2, <4>1 DEF NothingGone
      <4>2. CASE f # e
        <5>1. f \in Executors /\ job'[f] = job[f]
          BY <1>a, <2>7, <4>2 DEF CacheTypes, CacheTypeOK
        <5> QED BY <3>1, <3>2, <5>1 DEF NothingGone, Done
      <4> QED BY <4>1, <4>2
    <3> QED BY <2>2, <3>1, <3>2, <3>3 DEF NothingGone
  <2> QED BY <2>8, <2>9, <2>10, <2>12, <2>13 DEF CacheInv
<1>6. ASSUME NEW e \in Executors, Publish(e) PROVE CacheInv'
  <2>1. e \in up /\ job[e].signature \in Signatures /\ Done(e) = Outputs[job[e].signature]
    BY <1>6, <1>a DEF Publish, Jobs, CacheTypes, CacheTypeOK, Done
  <2>2. /\ \A f \in Executors : f # e => job'[f] = job[f] /\ memory'[f] = memory[f]
        /\ job'[e] = Idle /\ memory'[e] = memory[e] \cup {job[e].signature}
        /\ actions' = actions \cup {job[e].signature}
        /\ UNCHANGED <<objects, up, index, stored, evicted, shared>>
    BY <1>6, <1>a DEF Publish, CacheTypes, CacheTypeOK
  <2>3. CacheTypes'
    BY <1>6, <1>a, <2>1 DEF CacheTypes, CacheTypeOK, Publish, Idle
  <2>4. Jobs'
    BY <1>a, <2>2 DEF Jobs
  <2>5. WithinLimit'
    BY <1>a, <2>2 DEF WithinLimit
  <2>6. \A f \in up : f \in Executors
    BY <1>a DEF CacheTypes, CacheTypeOK
  <2>7. ASSUME ~shared' PROVE Alone'
    BY <1>a, <2>1, <2>2, <2>6, <2>7 DEF Alone, Done
  <2>8. ASSUME ~shared', ~evicted' PROVE NothingGone'
    <3>1. NothingGone /\ Outputs[job[e].signature] \subseteq objects
      BY <1>6, <1>a, <2>1, <2>2, <2>8 DEF NothingGone, Publish
    <3> QED BY <2>1, <2>2, <2>6, <3>1 DEF NothingGone, Done
  <2> QED BY <2>3, <2>4, <2>5, <2>7, <2>8 DEF CacheInv
<1>7. ASSUME NEW e \in Executors, FailTask(e) PROVE CacheInv'
  <2>1. /\ \A f \in Executors : f # e => job'[f] = job[f]
        /\ job'[e] = Idle
        /\ UNCHANGED <<disk, up, index, memory, stored, evicted, shared>>
    BY <1>7, <1>a DEF FailTask, CacheTypes, CacheTypeOK
  <2>2. CacheTypes'
    BY <1>7, <1>a DEF CacheTypes, CacheTypeOK, FailTask, disk, Idle
  <2>3. Jobs' /\ WithinLimit'
    BY <1>a, <2>1 DEF Jobs, WithinLimit
  <2>4. \A f \in up : f \in Executors
    BY <1>a DEF CacheTypes, CacheTypeOK
  <2>5. ASSUME ~shared' PROVE Alone'
    BY <1>a, <2>1, <2>4, <2>5 DEF Alone, Done, disk
  <2>6. ASSUME ~shared', ~evicted' PROVE NothingGone'
    BY <1>a, <2>1, <2>4, <2>6 DEF NothingGone, Done, disk
  <2> QED BY <2>2, <2>3, <2>5, <2>6 DEF CacheInv
<1>8. ASSUME NEW e \in Executors, NEW h \in Hashes, Get(e, h) PROVE CacheInv'
  <2> DEFINE idx == Touched(index[e], h)
  <2>1. /\ idx \in Seq(Hashes) /\ IsInjective(idx) /\ ToSet(idx) = ToSet(index[e])
    <3>1. h \in ToSet(index[e])
      BY <1>8 DEF Get
    <3>2. /\ idx \in Seq(Hashes) /\ IsInjective(idx) /\ ToSet(idx) = ToSet(index[e]) \cup {h}
      BY <1>b, TouchedFacts
    <3> HIDE DEF idx
    <3> QED BY <3>1, <3>2
  <2>2. /\ index' = [index EXCEPT ![e] = idx] /\ e \in up /\ job[e] = Idle
        /\ UNCHANGED <<disk, up, memory, job, stored, evicted, shared>>
    BY <1>8 DEF Get
  <2> HIDE DEF idx
  <2>3. \A f \in Executors : index'[f] = IF f = e THEN idx ELSE index[f]
    BY <1>a, <2>2 DEF CacheTypes
  <2>4. CacheTypes'
    BY <1>a, <1>b, <2>1, <2>2, <2>3 DEF CacheTypes, CacheTypeOK, disk
  <2>5. \A f \in up : f \in Executors
    BY <1>a DEF CacheTypes, CacheTypeOK
  <2>6. \A f \in Executors : ToSet(index'[f]) = ToSet(index[f])
    BY <2>1, <2>3
  <2>7. Jobs' /\ WithinLimit'
    BY <1>a, <2>2, <2>6 DEF Jobs, WithinLimit, CacheTypes, CacheTypeOK
  <2>8. ASSUME ~shared' PROVE Alone'
    BY <1>a, <2>2, <2>3, <2>5, <2>6, <2>8 DEF Alone, Done, disk
  <2>9. ASSUME ~shared', ~evicted' PROVE NothingGone'
    BY <1>a, <2>2, <2>9 DEF NothingGone, Done, disk
  <2> QED BY <2>4, <2>7, <2>8, <2>9 DEF CacheInv
<1>9. ASSUME NEW e \in Executors, Collect(e) PROVE CacheInv'
  <2> DEFINE dangling == (ToSet(index[e]) \ Reachable(e)) \cap objects
             idx == Without(index[e], dangling)
             gone == IF TotalSize(ToSet(idx)) > Target
                     THEN Eviction(idx, objects \ dangling, TotalSize(ToSet(idx)) - Target) ELSE {}
             new == Without(idx, gone)
  <2>1. /\ e \in up /\ job[e] = Idle
        /\ objects' = objects \ (dangling \cup gone)
        /\ index' = [index EXCEPT ![e] = new]
        /\ evicted' = Aged(gone)
        /\ UNCHANGED <<actions, up, memory, job, stored, shared>>
    BY <1>9 DEF Collect
  <2> HIDE DEF gone
  <2>2. idx \in Seq(Hashes) /\ IsInjective(idx) /\ ToSet(idx) = ToSet(index[e]) \ dangling
    <3> HIDE DEF dangling
    <3> QED BY <1>b, WithoutFacts
  <2>3. new \in Seq(Hashes) /\ IsInjective(new) /\ ToSet(new) = ToSet(index[e]) \ (dangling \cup gone)
    <3> HIDE DEF dangling, idx
    <3>1. new \in Seq(Hashes) /\ IsInjective(new) /\ ToSet(new) = ToSet(idx) \ gone
      BY <2>2, WithoutFacts
    <3> QED BY <2>2, <3>1
  <2> HIDE DEF new, idx
  <2>4. \A f \in Executors : index'[f] = IF f = e THEN new ELSE index[f]
    BY <1>a, <2>1 DEF CacheTypes
  <2>5. \A f \in Executors : ToSet(index'[f]) \in SUBSET ToSet(index[f])
    BY <2>3, <2>4
  <2>6. CacheTypes'
    <3> HIDE DEF dangling
    <3>1. index' \in [Executors -> Seq(Hashes)]
      BY <1>a, <2>1, <2>3 DEF CacheTypes
    <3>2. \A f \in Executors : ToSet(index'[f]) \subseteq Hashes /\ IsInjective(index'[f])
      BY <1>b, <2>3, <2>4, <2>5
    <3>3. evicted' \in BOOLEAN
      BY <1>a, <2>1 DEF CacheTypes, Aged
    <3> QED BY <1>a, <2>1, <3>1, <3>2, <3>3 DEF CacheTypes, CacheTypeOK
  <2>7. Jobs'
    BY <1>a, <2>1 DEF Jobs
  <2>8. WithinLimit'
    <3>1. SUFFICES ASSUME NEW f \in stored PROVE TotalSize(ToSet(index'[f])) <= Threshold
      BY <2>1 DEF WithinLimit
    <3>2. f \in Executors /\ TotalSize(ToSet(index[f])) <= Threshold
      BY <1>a DEF WithinLimit, CacheTypes, CacheTypeOK
    <3>3. /\ TotalSize(ToSet(index'[f])) <= TotalSize(ToSet(index[f]))
          /\ TotalSize(ToSet(index'[f])) \in Nat /\ TotalSize(ToSet(index[f])) \in Nat
      BY <1>b, <2>5, <3>2, SizesAdd
    <3> QED BY <3>2, <3>3, TargetBelowThreshold
  <2>9. ASSUME ~shared' PROVE Alone'
    <3>1. Alone /\ ~shared
      BY <1>a, <2>1, <2>9
    <3>2. \A f \in up : f = e
      BY <2>1, <3>1 DEF Alone
    <3>3. ToSet(index[e]) = objects /\ actions \subseteq memory[e]
      BY <2>1, <3>1 DEF Alone
    <3> HIDE DEF dangling
    <3>4. ToSet(index'[e]) = objects'
      BY <2>1, <2>3, <2>4, <3>3
    <3> QED BY <2>1, <3>1, <3>2, <3>3, <3>4 DEF Alone
  <2>10. ASSUME ~shared', ~evicted' PROVE NothingGone'
    <3>1. NothingGone /\ gone = {} /\ Alone
      BY <1>a, <2>1, <2>10 DEF Aged
    <3>2. \A s \in memory[e] : Outputs[s] \subseteq objects'
      BY <2>1, <3>1 DEF NothingGone, Reachable
    <3>3. actions \subseteq memory[e] /\ \A f \in up : f = e
      BY <2>1, <3>1 DEF Alone
    <3> HIDE DEF dangling
    <3> QED BY <2>1, <3>2, <3>3 DEF NothingGone
  <2> QED BY <2>6, <2>7, <2>8, <2>9, <2>10 DEF CacheInv
<1>10. CASE Clean
  <2>1. CacheTypes' /\ Jobs' /\ WithinLimit'
    BY <1>10, <1>a DEF Clean, CacheTypes, CacheTypeOK, Jobs, WithinLimit
  <2>2. ASSUME ~shared' PROVE Alone'
    BY <1>10, <1>a, <2>2 DEF Clean, Alone, Done
  <2>3. ASSUME ~shared', ~evicted' PROVE NothingGone'
    BY <1>10, <1>a, <2>3 DEF Clean, NothingGone, Done
  <2> QED BY <2>1, <2>2, <2>3 DEF CacheInv
<1>11. CASE Expunge
  <2>1. CacheTypes' /\ Jobs' /\ WithinLimit'
    BY <1>11, <1>a DEF Expunge, Beside, CacheTypes, CacheTypeOK, Jobs, WithinLimit
  <2>2. ASSUME ~shared' PROVE Alone' /\ NothingGone'
    BY <1>11, <1>a, <2>2 DEF Expunge, Beside, Alone, NothingGone
  <2> QED BY <2>1, <2>2 DEF CacheInv
<1>12. CASE UNCHANGED cacheVars
  BY <1>12, <1>a DEF cacheVars, CacheInv, CacheTypes, CacheTypeOK, Jobs, WithinLimit, Alone, NothingGone, Done
<1> QED
  BY <1>1, <1>2, <1>3, <1>4, <1>5, <1>6, <1>7, <1>8, <1>9, <1>10, <1>11, <1>12 DEF CacheNext, ExecutorStep

(* The index, the size limit and the references of the action cache agree. *)
THEOREM CacheIsSound == CacheSpec => []CacheSound
<1>1. CacheInv => CacheSound
  BY DEF CacheInv, CacheTypes, Alone, NothingGone, CacheSound, IndexIsStore, ActionsRestorable
<1> QED BY <1>1, CacheInitially, CacheInductive, PTL DEF CacheSpec

(* With one process at a time what a published action refers to stays      *)
(* whole.                                                                  *)
THEOREM PublishedStay == CacheSpec => PublishedWhole
<1>1. CacheInv /\ [CacheNext]_cacheVars =>
         \A s \in actions' \ actions :
             ~shared' /\ TotalSize(Outputs[s]) <= Target => Outputs[s] \subseteq objects'
  <2>1. SUFFICES ASSUME CacheInv, [CacheNext]_cacheVars, NEW s \in actions' \ actions,
                        ~shared', TotalSize(Outputs[s]) <= Target
                 PROVE  Outputs[s] \subseteq objects'
    OBVIOUS
  <2>2. PICK e \in Executors : Publish(e)
    BY <2>1 DEF CacheNext, ExecutorStep, Create, Drop, BeginTask, PutExisting, PutNew, FailTask, Get,
                Collect, Clean, Expunge, cacheVars, disk
  <2>3. s = job[e].signature /\ job[e] # Idle /\ job[e].todo = {} /\ ~shared /\ objects' = objects
    BY <2>1, <2>2 DEF Publish
  <2>4. Alone /\ e \in up
    BY <2>1, <2>3 DEF CacheInv, Jobs
  <2>5. Done(e) \subseteq objects /\ Done(e) = Outputs[s]
    BY <2>1, <2>3, <2>4 DEF Alone, Done
  <2> QED BY <2>3, <2>5
<1> QED BY <1>1, CacheInitially, CacheInductive, PTL DEF CacheSpec, PublishedWhole

(* The store down to its files and the cache above it, together.           *)
THEOREM StoreIsSound == StoreSpec /\ CacheSpec => []StoreSound
BY WritersAreSound, CacheIsSound, PTL DEF StoreSound

(* Neither a step of the store nor one of the cache takes anything away    *)
(* from a whole object.                                                    *)
THEOREM ObjectsAreKept == StoreSpec /\ CacheSpec => ObjectsStay
BY BytesStay, PublishedStay DEF ObjectsStay

-----------------------------------------------------------------------------
(* What is still to be staged.                                             *)
Remaining == {dependencies[i] : i \in DOMAIN dependencies}

(* What is true of the artifacts that have been staged: each path that one *)
(* brings has the file of such an artifact; if the manifests have all the  *)
(* files, the path is entered as the artifact's own.                       *)
SysrootInv ==
    /\ dependencies \in Seq(Artifacts) /\ Remaining \subseteq asked /\ asked \subseteq Artifacts
    /\ staged_files \in [Paths -> Artifacts \cup {Nobody}]
    /\ sysroot \in [Paths -> Artifacts \cup {Nobody, Earlier}]
    /\ assembled = "ok" => dependencies = << >>
    /\ \A a \in asked \ Remaining, p \in Paths :
           Brings(a, p) => sysroot[p] \in asked /\ Brings(sysroot[p], p)
    /\ (\A a \in asked : Honest(a)) =>
           \A a \in asked \ Remaining, p \in Paths \ Whitelist :
               Brings(a, p) => staged_files[p] = a
    /\ sameFilesystem => \A a \in asked \ Remaining : contents[a] = NoSysroot

(* Staging takes the next dependency off the list of those that remain.    *)
LEMMA NextDependency ==
  ASSUME dependencies \in Seq(Artifacts), dependencies # << >>
  PROVE  /\ Head(dependencies) \in Remaining /\ Head(dependencies) \in Artifacts
         /\ Tail(dependencies) \in Seq(Artifacts)
         /\ Remaining = {Head(dependencies)} \cup {Tail(dependencies)[i] : i \in DOMAIN Tail(dependencies)}
<1> DEFINE d == dependencies
           t == Tail(d)
<1>1. /\ Len(d) \in Nat /\ Len(d) >= 1 /\ DOMAIN d = 1 .. Len(d) /\ Head(d) = d[1]
      /\ t \in Seq(Artifacts) /\ Len(t) = Len(d) - 1 /\ DOMAIN t = 1 .. Len(t)
      /\ \A i \in 1 .. Len(t) : t[i] = d[i + 1]
  OBVIOUS
<1>2. ASSUME NEW i \in DOMAIN d PROVE d[i] = Head(d) \/ \E j \in DOMAIN t : t[j] = d[i]
  <2>1. CASE i = 1
    BY <1>1, <2>1
  <2>2. CASE i # 1
    <3>1. i - 1 \in DOMAIN t /\ t[i - 1] = d[i]
      <4>1. i \in Nat /\ i >= 1 /\ i <= Len(d)
        BY <1>1
      <4>2. i - 1 \in 1 .. Len(t) /\ (i - 1) + 1 = i
        BY <1>1, <2>2, <4>1
      <4> HIDE DEF t
      <4> QED BY <1>1, <4>2
    <3> QED BY <3>1
  <2> QED BY <2>1, <2>2
<1>3. ASSUME NEW j \in DOMAIN t PROVE \E i \in DOMAIN d : t[j] = d[i]
  <2>1. j + 1 \in DOMAIN d /\ t[j] = d[j + 1]
    BY <1>1
  <2> QED BY <2>1
<1>4. 1 \in DOMAIN d
  BY <1>1
<1> HIDE DEF t
<1>5. Head(d) \in Remaining /\ Head(d) \in Artifacts
  BY <1>1, <1>4 DEF Remaining
<1>6. Remaining = {Head(d)} \cup {t[i] : i \in DOMAIN t}
  BY <1>2, <1>3, <1>5 DEF Remaining
<1> QED BY <1>1, <1>5, <1>6 DEF t

(* A sysroot that is to be assembled satisfies the invariant.              *)
LEMMA SysrootInitially == SysrootInit => SysrootInv
<1> SUFFICES ASSUME SysrootInit PROVE SysrootInv
  OBVIOUS
<1>1. PICK n \in 0 .. MaxDependencies : dependencies \in [1 .. n -> Artifacts]
  BY DEF SysrootInit
<1>2. n \in Nat /\ dependencies \in Seq(Artifacts)
  BY <1>1, MaxDependenciesNat
<1>3. asked = Remaining /\ asked \subseteq Artifacts
  BY <1>1 DEF SysrootInit, Remaining
<1>4. sysroot \in [Paths -> Artifacts \cup {Nobody, Earlier}] /\ staged_files \in [Paths -> Artifacts \cup {Nobody}]
  BY DEF SysrootInit
<1> QED BY <1>2, <1>3, <1>4 DEF SysrootInit, SysrootInv

(* Staging an artifact, failing to and cleaning up keep it.                *)
LEMMA SysrootInductive == SysrootInv /\ [SysrootStep]_sysrootVars => SysrootInv'
<1> SUFFICES ASSUME SysrootInv, [SysrootStep]_sysrootVars PROVE SysrootInv'
  OBVIOUS
<1>1. CASE SkipMissing
  <2>1. /\ dependencies' \in Seq(Artifacts) /\ Remaining = {Head(dependencies)} \cup Remaining'
        /\ dependencies # << >>
    BY <1>1, NextDependency DEF SkipMissing, SysrootInv, Remaining
  <2>2. /\ \A a : Honest(a)' = Honest(a) /\ \A p : Brings(a, p)' = Brings(a, p)
        /\ ~ \E p : Brings(Head(dependencies), p)
    BY <1>1 DEF SkipMissing, Honest, Brings, Manifest
  <2> QED BY <1>1, <2>1, <2>2 DEF SkipMissing, SysrootInv
<1>2. CASE FileConflict
  BY <1>2 DEF FileConflict, SysrootInv, Remaining, Honest, Manifest, Brings
<1>3. CASE CommandFailed
  BY <1>3 DEF CommandFailed, SysrootInv, Remaining, Honest, Manifest, Brings
<1>4. CASE Stage
  <2> DEFINE b == Head(dependencies)
  <2>1. /\ dependencies' \in Seq(Artifacts) /\ Remaining = {b} \cup Remaining'
        /\ dependencies # << >> /\ b \in Artifacts /\ b \in asked
    <3>1. dependencies # << >> /\ dependencies' = Tail(dependencies)
      BY <1>4 DEF Stage
    <3>2. /\ b \in Remaining /\ b \in Artifacts /\ Tail(dependencies) \in Seq(Artifacts)
          /\ Remaining = {b} \cup {Tail(dependencies)[i] : i \in DOMAIN Tail(dependencies)}
      BY <3>1, NextDependency DEF SysrootInv
    <3>3. Remaining' = {dependencies'[i] : i \in DOMAIN dependencies'}
      BY DEF Remaining
    <3> HIDE DEF b
    <3> QED BY <3>1, <3>2, <3>3 DEF SysrootInv
  <2>2. /\ contents[b] # NoSysroot /\ Conflicts(b) = {} /\ ~sameFilesystem
        /\ sysroot' = CopiedTree(b)
        /\ staged_files' = [p \in Paths |-> IF p \in Manifest(b) THEN b ELSE staged_files[p]]
        /\ UNCHANGED <<contents, manifests, sameFilesystem, asked, assembled>> /\ assembled = "no"
    BY <1>4 DEF Stage
  <2> HIDE DEF b
  <2>3. \A a : Honest(a)' = Honest(a) /\ \A p : Brings(a, p)' = Brings(a, p)
    BY <2>2 DEF Honest, Brings, Manifest
  <2>4. staged_files' \in [Paths -> Artifacts \cup {Nobody}] /\ sysroot' \in [Paths -> Artifacts \cup {Nobody, Earlier}]
    BY <2>1, <2>2 DEF SysrootInv, CopiedTree
  <2>5. \A a \in asked \ Remaining', p \in Paths :
           Brings(a, p) => sysroot'[p] \in asked /\ Brings(sysroot'[p], p)
    <3>1. SUFFICES ASSUME NEW a \in asked \ Remaining', NEW p \in Paths, Brings(a, p)
                   PROVE  sysroot'[p] \in asked /\ Brings(sysroot'[p], p)
      OBVIOUS
    <3>2. CASE p \in contents[b]
      BY <2>1, <2>2, <3>2 DEF CopiedTree, Brings
    <3>3. CASE p \notin contents[b]
      <4>1. sysroot'[p] = sysroot[p] /\ a # b
        BY <2>2, <3>1, <3>3 DEF CopiedTree, Brings
      <4> QED BY <2>1, <3>1, <4>1 DEF SysrootInv
    <3> QED BY <3>2, <3>3
  <2>6. ASSUME \A a \in asked : Honest(a), NEW a \in asked \ Remaining', NEW p \in Paths \ Whitelist, Brings(a, p)
        PROVE  staged_files'[p] = a
    <3>1. CASE a = b
      BY <2>2, <2>6, <3>1 DEF Brings, Honest
    <3>2. CASE a # b
      <4>1. staged_files[p] = a
        BY <2>1, <2>6, <3>2 DEF SysrootInv
      <4>2. p \notin Manifest(b)
        BY <2>2, <4>1, NobodyIsNoArtifact DEF Conflicts, SysrootInv
      <4> QED BY <2>2, <4>1, <4>2
    <3> QED BY <3>1, <3>2
  <2> QED BY <2>1, <2>2, <2>3, <2>4, <2>5, <2>6 DEF SysrootInv
<1>5. CASE Assembled
  BY <1>5 DEF Assembled, SysrootInv, Remaining, Honest, Manifest, Brings
<1>6. CASE UNCHANGED sysrootVars
  BY <1>6 DEF sysrootVars, SysrootInv, Remaining, Honest, Manifest, Brings
<1> QED BY <1>1, <1>2, <1>3, <1>4, <1>5, <1>6 DEF SysrootStep

(* A file of the sysroot has one provider, and Ok on one filesystem means  *)
(* that there was nothing to stage.                                        *)
THEOREM SysrootIsSound == SysrootInit /\ [][SysrootStep]_sysrootVars => []SysrootSound
<1>1. SysrootInv => SysrootSound
  <2> SUFFICES ASSUME SysrootInv, assembled = "ok" PROVE SysrootSound
    BY DEF SysrootSound, OneProvider, NothingLinked
  <2>1. Remaining = {}
    BY DEF SysrootInv, Remaining
  <2> QED BY <2>1 DEF SysrootSound, OneProvider, NothingLinked, SysrootInv
<1> QED BY <1>1, SysrootInitially, SysrootInductive, PTL

-----------------------------------------------------------------------------
(* The backoff grows from attempt to attempt, up to max_backoff.           *)
LEMMA BackoffGrows ==
  ASSUME policy.multiplier \in Nat \ {0}, policy.max_backoff \in Nat
  PROVE  \A a \in Nat : /\ BackoffDuration(a) \in Nat
                        /\ BackoffDuration(a) <= policy.max_backoff
                        /\ BackoffDuration(a) <= BackoffDuration(a + 1)
<1> DEFINE m == policy.multiplier
           rule == [q \in Nat \X Nat |-> m * q[2]]
           Eqn(p) == p = [k \in Nat |-> IF k = 0 THEN 1 ELSE m * p[k - 1]]
           power == CHOOSE p : Eqn(p)
<1>1. \A x \in Nat : m * x \in Nat /\ x <= m * x
  OBVIOUS
<1>2. \E p : Eqn(p)
  <2>1. rule \in [Nat \X Nat -> Nat] /\ 1 \in Nat
    BY <1>1
  <2> DEFINE T == Nat
             one == 1
  <2>2. PICK f \in [Nat -> T] : f[0] = one /\ \A n \in Nat : f[n + 1] = rule[<<n, f[n]>>]
    <3> HIDE DEF rule, m
    <3>1. one \in T /\ rule \in [Nat \X T -> T]
      BY <2>1
    <3> HIDE DEF T, one
    <3>2. \E f \in [Nat -> T] : RecursUp(f, one, rule)
      BY <3>1, NatRecursion
    <3> QED BY <3>2 DEF RecursUp
  <2>3. ASSUME NEW k \in Nat PROVE f[k] = IF k = 0 THEN 1 ELSE m * f[k - 1]
    <3>1. CASE k = 0
      BY <2>2, <3>1
    <3>2. CASE k # 0
      <4>1. k - 1 \in Nat /\ (k - 1) + 1 = k
        BY <3>2
      <4>2. f[k] = rule[<<k - 1, f[k - 1]>>] /\ f[k - 1] \in Nat
        <5> HIDE DEF rule
        <5> QED BY <2>2, <4>1
      <4> HIDE DEF m
      <4> QED BY <3>2, <4>1, <4>2
    <3> QED BY <3>1, <3>2
  <2>4. Eqn(f)
    <3> HIDE DEF m
    <3> QED BY <2>2, <2>3
  <2> QED BY <2>4
<1>3. Eqn(power)
  <2> HIDE DEF Eqn
  <2> QED BY <1>2
<1>4. \A a : BackoffDuration(a) = IF a = 0 THEN 0
                                  ELSE IF power[a - 1] > policy.max_backoff THEN policy.max_backoff
                                  ELSE power[a - 1]
  BY DEF BackoffDuration
<1> HIDE DEF power
<1>5. power[0] = 1 /\ \A k \in Nat : power[k + 1] = m * power[k]
  <2>1. power[0] = 1
    BY <1>3
  <2>2. ASSUME NEW k \in Nat PROVE power[k + 1] = m * power[k]
    <3>1. k + 1 \in Nat /\ k + 1 # 0 /\ (k + 1) - 1 = k
      OBVIOUS
    <3> HIDE DEF m
    <3> QED BY <1>3, <3>1
  <2> QED BY <2>1, <2>2
<1> DEFINE Good == {k \in Nat : power[k] \in Nat}
<1>6. Nat \subseteq Good
  <2>1. 0 \in Good
    BY <1>5
  <2>2. \A k \in Nat : k \in Good => k + 1 \in Good
    <3> HIDE DEF m
    <3> QED BY <1>1, <1>5
  <2> HIDE DEF Good
  <2> QED BY <2>1, <2>2, SetInduction
<1>7. \A k \in Nat : power[k] \in Nat /\ power[k] <= power[k + 1]
  <2> HIDE DEF m
  <2> QED BY <1>1, <1>5, <1>6
<1> SUFFICES ASSUME NEW a \in Nat
             PROVE  /\ BackoffDuration(a) \in Nat
                    /\ BackoffDuration(a) <= policy.max_backoff
                    /\ BackoffDuration(a) <= BackoffDuration(a + 1)
  OBVIOUS
<1>8. CASE a = 0
  <2>1. power[0] \in Nat /\ BackoffDuration(0) = 0
        /\ BackoffDuration(1) = IF power[0] > policy.max_backoff THEN policy.max_backoff ELSE power[0]
    BY <1>4, <1>7
  <2> QED BY <1>8, <2>1
<1>9. CASE a # 0
  <2> DEFINE x == power[a - 1]
             y == power[a]
  <2>1. x \in Nat /\ y \in Nat /\ x <= y
    <3>1. a - 1 \in Nat /\ (a - 1) + 1 = a
      BY <1>9
    <3> QED BY <1>7, <3>1
  <2>2. /\ BackoffDuration(a) = IF x > policy.max_backoff THEN policy.max_backoff ELSE x
        /\ BackoffDuration(a + 1) = IF y > policy.max_backoff THEN policy.max_backoff ELSE y
    <3>1. a + 1 # 0 /\ (a + 1) - 1 = a
      OBVIOUS
    <3> QED BY <1>4, <1>9, <3>1
  <2> HIDE DEF x, y
  <2> QED BY <2>1, <2>2
<1> QED BY <1>8, <1>9

(* All attempts but the last, and the last of a call that goes on, have    *)
(* failed in a way that is tried again; the sleeps are the backoffs.       *)
RetryInv ==
    /\ policy.max_attempts \in Nat /\ policy.multiplier \in Nat \ {0} /\ policy.max_backoff \in Nat
    /\ attempts \in Seq(Errors \cup {"ok"}) /\ slept \in Seq(Nat)
    /\ Len(slept) = Len(attempts) /\ Len(attempts) <= policy.max_attempts
    /\ \A i \in 1 .. Len(attempts) :
           /\ slept[i] = BackoffDuration(i - 1)
           /\ i < Len(attempts) \/ retried = "no" => attempts[i] # "ok" /\ ShouldRetry(attempts[i])
    /\ retried # "no" =>
           IF Len(attempts) = 0 THEN retried = "panic" /\ policy.max_attempts = 0
           ELSE /\ retried = attempts[Len(attempts)]
                /\ retried # "ok" /\ ShouldRetry(retried) => Len(attempts) = policy.max_attempts

(* Every attempt and every pause keeps the invariant of the retries.       *)
LEMMA RetryInductive == RetryInv /\ [RetryStep]_retryVars => RetryInv'
<1> SUFFICES ASSUME RetryInv, [RetryStep]_retryVars PROVE RetryInv'
  OBVIOUS
<1> DEFINE n == Len(attempts)
<1>1. n \in Nat /\ Len(slept) = n /\ policy.max_attempts \in Nat
  BY DEF RetryInv
<1>2. ASSUME NEW result \in Errors \cup {"ok"}, Attempt(result) PROVE RetryInv'
  <2>1. /\ retried = "no" /\ n < policy.max_attempts /\ policy' = policy
        /\ attempts' = Append(attempts, result)
        /\ slept' = Append(slept, BackoffDuration(n))
        /\ retried' = IF result = "ok" THEN "ok" ELSE IF ~ShouldRetry(result) THEN result ELSE "no"
    BY <1>2 DEF Attempt, AttemptsLeft
  <2>2. \A a : BackoffDuration(a)' = BackoffDuration(a) /\ ShouldRetry(a)' = ShouldRetry(a)
    BY <2>1 DEF BackoffDuration, ShouldRetry
  <2>3. BackoffDuration(n) \in Nat
    BY <1>1, BackoffGrows DEF RetryInv
  <2>4. /\ attempts' \in Seq(Errors \cup {"ok"}) /\ slept' \in Seq(Nat)
        /\ Len(attempts') = n + 1 /\ Len(slept') = n + 1
        /\ attempts'[n + 1] = result /\ slept'[n + 1] = BackoffDuration(n)
        /\ \A i \in 1 .. n : attempts'[i] = attempts[i] /\ slept'[i] = slept[i]
    BY <1>1, <2>1, <2>3 DEF RetryInv
  <2>5. result # "no"
    BY DEF Errors
  <2> HIDE DEF n
  <2>6. ASSUME NEW i \in 1 .. n + 1
        PROVE  /\ slept'[i] = BackoffDuration(i - 1)
               /\ i < n + 1 \/ retried' = "no" => attempts'[i] # "ok" /\ ShouldRetry(attempts'[i])
    <3>1. CASE i = n + 1
      <4>1. (n + 1) - 1 = n /\ ~(n + 1 < n + 1)
        BY <1>1
      <4> QED BY <2>1, <2>4, <2>5, <3>1, <4>1
    <3>2. CASE i # n + 1
      <4>1. i \in 1 .. n
        BY <1>1, <3>2
      <4> QED BY <2>1, <2>4, <4>1 DEF RetryInv, n
    <3> QED BY <3>1, <3>2
  <2>7. /\ n + 1 # 0 /\ n + 1 <= policy.max_attempts
        /\ retried' # "no" => retried' = result /\ (result = "ok" \/ ~ShouldRetry(result))
    BY <1>1, <2>1
  <2> QED BY <2>1, <2>2, <2>4, <2>6, <2>7 DEF RetryInv
<1>3. CASE Exhausted
  <2>1. /\ retried = "no" /\ n = policy.max_attempts /\ UNCHANGED <<policy, attempts, slept>>
        /\ retried' = IF attempts = << >> THEN "panic" ELSE attempts[n]
    BY <1>1, <1>3 DEF Exhausted, AttemptsLeft, RetryInv
  <2>2. \A a : BackoffDuration(a)' = BackoffDuration(a) /\ ShouldRetry(a)' = ShouldRetry(a)
    BY <2>1 DEF BackoffDuration, ShouldRetry
  <2>3. n = 0 <=> attempts = << >>
    BY DEF RetryInv
  <2> QED BY <1>1, <2>1, <2>2, <2>3 DEF RetryInv
<1>4. CASE UNCHANGED retryVars
  <2>1. UNCHANGED <<policy, attempts, slept, retried>>
    BY <1>4 DEF retryVars
  <2>2. \A a : BackoffDuration(a)' = BackoffDuration(a) /\ ShouldRetry(a)' = ShouldRetry(a)
    BY <2>1 DEF BackoffDuration, ShouldRetry
  <2> QED BY <2>1, <2>2 DEF RetryInv
<1> QED BY <1>2, <1>3, <1>4 DEF RetryStep

(* A retried call returns its last attempt, gives up only when it must,    *)
(* and its pauses grow up to the limit.                                    *)
THEOREM RetryIsSound == RetryInit /\ [][RetryStep]_retryVars => []RetryVerdict
<1>1. RetryInit => RetryInv
  BY RetryBounds DEF RetryInit, RetryInv
<1>2. RetryInv => RetryVerdict
  <2> SUFFICES ASSUME RetryInv, retried # "no", policy.max_attempts # 0
               PROVE  LET last == Len(attempts) IN
                      /\ last \in 1 .. policy.max_attempts
                      /\ retried = attempts[last]
                      /\ \A i \in 1 .. last - 1 : attempts[i] # "ok" /\ ShouldRetry(attempts[i])
                      /\ retried # "ok" /\ ShouldRetry(retried) => last = policy.max_attempts
                      /\ \A i \in 1 .. last - 1 : slept[i] <= slept[i + 1]
                      /\ \A i \in 1 .. last : slept[i] <= policy.max_backoff
    BY DEF RetryVerdict, RetryInv
  <2> DEFINE n == Len(attempts)
  <2>1. n \in 1 .. policy.max_attempts /\ n \in Nat
    BY DEF RetryInv
  <2>2. \A a \in Nat : /\ BackoffDuration(a) <= policy.max_backoff
                       /\ BackoffDuration(a) <= BackoffDuration(a + 1)
    BY BackoffGrows DEF RetryInv
  <2>3. \A i \in 1 .. n : i - 1 \in Nat /\ slept[i] = BackoffDuration(i - 1)
    BY <2>1 DEF RetryInv
  <2>4. ASSUME NEW i \in 1 .. n - 1 PROVE slept[i] <= slept[i + 1]
    <3>1. i \in 1 .. n /\ i + 1 \in 1 .. n /\ (i + 1) - 1 = (i - 1) + 1
      BY <2>1
    <3>2. slept[i] = BackoffDuration(i - 1) /\ slept[i + 1] = BackoffDuration((i - 1) + 1) /\ i - 1 \in Nat
      BY <2>3, <3>1
    <3> QED BY <2>2, <3>2
  <2>5. \A i \in 1 .. n - 1 : i \in 1 .. n /\ i < n
    BY <2>1
  <2> HIDE DEF n
  <2> QED BY <2>1, <2>2, <2>3, <2>4, <2>5 DEF RetryInv, n
<1> QED BY <1>1, <1>2, RetryInductive, PTL

-----------------------------------------------------------------------------
Writing(t, f, n) == t[f].at = "writing" /\ FileName[t[f].url] = n

FilesTypes ==
    /\ file \in [Names -> [url : Urls \cup {"none"}, writer : Fetchers \cup {"none"}, whole : BOOLEAN]]
    /\ transfer \in [Fetchers -> [url : Urls \cup {"none"}, at : {"idle", "starting", "writing"}]]
    /\ \A f \in Fetchers : transfer[f].at # "idle" => transfer[f].url \in Urls
    /\ \A f \in Fetchers : transfer[f].at = "idle" => transfer[f] = NoTransfer
    /\ DOMAIN fetched = Fetchers
    /\ spoiled \subseteq Names

(* Under a name that nothing has spoiled the file is of whoever writes it. *)
WritersHold ==
    \A f \in Fetchers, n \in Names \ spoiled :
        Writing(transfer, f, n) => file[n].url = transfer[f].url /\ file[n].writer = f

(* One that lacks bytes is being written.                                  *)
PartsAreWritten ==
    \A n \in Names \ spoiled :
        file[n] # NoFile /\ file[n].whole # TRUE => \E f \in Fetchers : Writing(transfer, f, n)

FilesInv == FilesTypes /\ FetchedWhole /\ WritersHold /\ PartsAreWritten

(* Before any transfer the invariant of the downloads holds.               *)
LEMMA FilesInitially == FilesInit => FilesInv
BY DEF FilesInit, FilesInv, FilesTypes, NoFile, NoTransfer, NotFetched, FetchedWhole, WritersHold, PartsAreWritten, Writing

(* Every step of a transfer, its failures and kills keep it.               *)
LEMMA FilesInductive == FilesInv /\ [FilesStep]_fileVars => FilesInv'
<1> SUFFICES ASSUME FilesInv, [FilesStep]_fileVars PROVE FilesInv'
  OBVIOUS
<1>a. FilesTypes /\ FetchedWhole
  BY DEF FilesInv, WritersHold, PartsAreWritten
<1>b. \A u \in Urls : FileName[u] \in Names
  BY DEF Names
<1>1. ASSUME NEW f \in Fetchers, NEW u \in Urls, TakeExisting(f, u) PROVE FilesInv'
  <2> DEFINE n == FileName[u]
  <2>1. /\ transfer[f] = NoTransfer /\ file[n] # NoFile /\ UNCHANGED <<file, transfer>>
        /\ spoiled' = IF Foreign(u) THEN spoiled \cup {n} ELSE spoiled
        /\ Returned(f, u, "ok", file[n])
    BY <1>1 DEF TakeExisting
  <2>2. (file[n].url = u /\ file[n].whole = TRUE) \/ n \in spoiled \/ Foreign(u) \/ Meets(f, n)
    <3>1. SUFFICES ASSUME file[n].url = u, file[n].whole # TRUE, n \notin spoiled PROVE Meets(f, n)
      BY <2>1 DEF Foreign
    <3>2. PICK g \in Fetchers : Writing(transfer, g, n)
      BY <1>b, <2>1, <3>1 DEF FilesInv, WritersHold, PartsAreWritten
    <3> QED BY <2>1, <3>2 DEF Writing, Meets, NoTransfer
  <2>3. /\ DOMAIN fetched' = Fetchers /\ \A g \in Fetchers : g # f => fetched'[g] = fetched[g]
        /\ fetched'[f].right = (file[n].url = u /\ file[n].whole)
        /\ fetched'[f].excused = (n \in spoiled \/ Foreign(u) \/ Meets(f, n))
    BY <1>a, <2>1 DEF Returned, FilesTypes
  <2>4. fetched'[f].right \/ fetched'[f].excused
    <3>1. file[n].whole \in BOOLEAN
      BY <1>a, <1>b DEF FilesTypes
    <3> QED BY <2>2, <2>3, <3>1
  <2>5. FetchedWhole'
    BY <1>a, <2>3, <2>4 DEF FetchedWhole
  <2>6. spoiled \subseteq spoiled' /\ spoiled' \subseteq Names
    BY <1>a, <1>b, <2>1 DEF FilesTypes
  <2>7. FilesTypes'
    BY <1>a, <2>1, <2>3, <2>6 DEF FilesTypes
  <2>8. WritersHold' /\ PartsAreWritten'
    BY <2>1, <2>6 DEF FilesInv, WritersHold, PartsAreWritten, Writing
  <2> QED BY <2>5, <2>7, <2>8 DEF FilesInv
<1>2. ASSUME NEW f \in Fetchers, NEW u \in Urls, BeginTransfer(f, u) PROVE FilesInv'
  <2>1. /\ transfer[f] = NoTransfer /\ transfer' = [transfer EXCEPT ![f] = [url |-> u, at |-> "starting"]]
        /\ UNCHANGED <<file, fetched, spoiled>>
    BY <1>2 DEF BeginTransfer
  <2>2. \A g \in Fetchers, n \in Names : Writing(transfer', g, n) <=> Writing(transfer, g, n)
    BY <1>a, <2>1 DEF FilesTypes, Writing, NoTransfer
  <2>3. \A g \in Fetchers, n \in Names : Writing(transfer, g, n) => transfer'[g] = transfer[g]
    BY <1>a, <2>1 DEF FilesTypes, Writing, NoTransfer
  <2>4. FilesTypes'
    BY <1>a, <2>1 DEF FilesTypes, NoTransfer
  <2>5. FetchedWhole'
    BY <1>a, <2>1 DEF FetchedWhole
  <2>6. PartsAreWritten'
    BY <2>1, <2>2 DEF FilesInv, PartsAreWritten
  <2>7. WritersHold'
    <3>1. SUFFICES ASSUME NEW g \in Fetchers, NEW n \in Names, n \notin spoiled', Writing(transfer', g, n)
                   PROVE  file'[n].url = transfer'[g].url /\ file'[n].writer = g
      BY DEF WritersHold
    <3>2. Writing(transfer, g, n) /\ transfer'[g] = transfer[g]
      BY <2>2, <2>3, <3>1
    <3> QED BY <2>1, <3>1, <3>2 DEF FilesInv, WritersHold
  <2> QED BY <2>4, <2>5, <2>6, <2>7 DEF FilesInv
<1>3. ASSUME NEW f \in Fetchers, CreateFile(f) PROVE FilesInv'
  <2> DEFINE u == transfer[f].url
             n == FileName[u]
  <2>1. /\ transfer[f].at = "starting"
        /\ file' = [file EXCEPT ![n] = [url |-> u, writer |-> f, whole |-> FALSE]]
        /\ transfer' = [transfer EXCEPT ![f].at = "writing"]
        /\ spoiled' = IF file[n] # NoFile THEN spoiled \cup {n} ELSE spoiled
        /\ UNCHANGED fetched
    BY <1>3 DEF CreateFile
  <2>2. u \in Urls /\ n \in Names
    BY <1>a, <1>b, <2>1 DEF FilesTypes
  <2>3. /\ transfer'[f].url = u /\ transfer'[f].at = "writing"
        /\ \A g \in Fetchers : g # f => transfer'[g] = transfer[g]
        /\ transfer' \in [Fetchers -> [url : Urls \cup {"none"}, at : {"idle", "starting", "writing"}]]
    BY <1>a, <2>1 DEF FilesTypes
  <2> HIDE DEF u
  <2>4. /\ file'[n] = [url |-> u, writer |-> f, whole |-> FALSE]
        /\ \A m \in Names : m # n => file'[m] = file[m]
        /\ file' \in [Names -> [url : Urls \cup {"none"}, writer : Fetchers \cup {"none"}, whole : BOOLEAN]]
    BY <1>a, <2>1, <2>2 DEF FilesTypes
  <2> HIDE DEF n
  <2>5. Writing(transfer', f, n) /\ \A m \in Names : Writing(transfer', f, m) => m = n
    BY <2>3 DEF Writing, n
  <2>6. \A g \in Fetchers, m \in Names : g # f => (Writing(transfer', g, m) <=> Writing(transfer, g, m))
    BY <2>3 DEF Writing
  <2>7. \A m \in Names : ~Writing(transfer, f, m)
    BY <2>1 DEF Writing
  <2>8. \A g \in Fetchers : g # f /\ n \notin spoiled' => ~Writing(transfer, g, n)
    <3>1. SUFFICES ASSUME NEW g \in Fetchers, g # f, n \notin spoiled', Writing(transfer, g, n) PROVE FALSE
      OBVIOUS
    <3>2. file[n] = NoFile /\ n \notin spoiled
      BY <2>1, <3>1
    <3>3. file[n].url = transfer[g].url /\ transfer[g].url \in Urls
      BY <1>a, <2>2, <3>1, <3>2 DEF FilesInv, WritersHold, PartsAreWritten, FilesTypes, Writing
    <3> QED BY <3>2, <3>3, NoneIsNoUrl DEF NoFile
  <2>9. FilesTypes'
    BY <1>a, <2>1, <2>2, <2>3, <2>4 DEF FilesTypes
  <2>10. FetchedWhole'
    BY <1>a, <2>1 DEF FetchedWhole
  <2>11. \A m \in Names : m \notin spoiled' => m \notin spoiled
    BY <2>1
  <2>12. \A g \in Fetchers, m \in Names \ spoiled' :
             Writing(transfer', g, m) => file'[m].url = transfer'[g].url /\ file'[m].writer = g
    BY <2>3, <2>4, <2>5, <2>6, <2>8, <2>11 DEF FilesInv, WritersHold, PartsAreWritten
  <2>13. \A m \in Names \ spoiled' :
             file'[m] # NoFile /\ file'[m].whole # TRUE => \E g \in Fetchers : Writing(transfer', g, m)
    <3>1. SUFFICES ASSUME NEW m \in Names, m \notin spoiled', file'[m] # NoFile, file'[m].whole # TRUE, m # n
                   PROVE  \E g \in Fetchers : Writing(transfer', g, m)
      BY <2>5
    <3>2. PICK g \in Fetchers : Writing(transfer, g, m)
      BY <2>4, <2>11, <3>1 DEF FilesInv, WritersHold, PartsAreWritten
    <3>3. g # f
      BY <2>7, <3>2
    <3> QED BY <2>6, <3>2, <3>3
  <2> QED BY <2>9, <2>10, <2>12, <2>13 DEF FilesInv, WritersHold, PartsAreWritten
<1>4. ASSUME NEW f \in Fetchers, EndTransfer(f) PROVE FilesInv'
  <2> DEFINE u == transfer[f].url
             n == FileName[u]
             content == [file[n] EXCEPT !.whole = @ \/ file[n].writer = f]
  <2>1. /\ transfer[f].at = "writing"
        /\ file' = [file EXCEPT ![n] = content]
        /\ transfer' = [transfer EXCEPT ![f] = NoTransfer]
        /\ Returned(f, u, "ok", content)
        /\ UNCHANGED spoiled
    BY <1>4 DEF EndTransfer
  <2>2. u \in Urls /\ n \in Names /\ Writing(transfer, f, n)
    BY <1>a, <1>b, <2>1 DEF FilesTypes, Writing
  <2>3. /\ file[n].whole \in BOOLEAN
        /\ content.url = file[n].url /\ content.writer = file[n].writer
        /\ content.whole = (file[n].whole \/ file[n].writer = f)
        /\ content \in [url : Urls \cup {"none"}, writer : Fetchers \cup {"none"}, whole : BOOLEAN]
    <3> HIDE DEF u
    <3>1. file[n] \in [url : Urls \cup {"none"}, writer : Fetchers \cup {"none"}, whole : BOOLEAN]
      BY <1>a, <2>2 DEF FilesTypes
    <3> HIDE DEF n
    <3> QED BY <3>1
  <2> HIDE DEF u, content
  <2>4. /\ DOMAIN fetched' = Fetchers /\ \A g \in Fetchers : g # f => fetched'[g] = fetched[g]
        /\ fetched'[f].right = (content.url = u /\ content.whole)
        /\ fetched'[f].excused = (n \in spoiled \/ Foreign(u) \/ Meets(f, n))
    BY <1>a, <2>1 DEF Returned, FilesTypes
  <2>5. n \in spoiled \/ (content.url = u /\ content.whole = TRUE)
    BY <2>2, <2>3 DEF FilesInv, WritersHold, PartsAreWritten, u
  <2>6. FetchedWhole'
    <3>1. fetched'[f].right \/ fetched'[f].excused
      BY <2>4, <2>5
    <3> QED BY <1>a, <2>4, <3>1 DEF FetchedWhole
  <2> HIDE DEF n
  <2>7. \A m \in Names : file'[m] = IF m = n THEN content ELSE file[m]
    BY <1>a, <2>1, <2>2 DEF FilesTypes
  <2>8. \A g \in Fetchers : transfer'[g] = IF g = f THEN NoTransfer ELSE transfer[g]
    BY <1>a, <2>1 DEF FilesTypes
  <2>9. FilesTypes'
    <3>1. file' \in [Names -> [url : Urls \cup {"none"}, writer : Fetchers \cup {"none"}, whole : BOOLEAN]]
      BY <1>a, <2>1, <2>3 DEF FilesTypes
    <3>2. transfer' \in [Fetchers -> [url : Urls \cup {"none"}, at : {"idle", "starting", "writing"}]]
      BY <1>a, <2>1 DEF FilesTypes, NoTransfer
    <3> QED BY <1>a, <2>1, <2>4, <2>8, <3>1, <3>2 DEF FilesTypes, NoTransfer
  <2>10. \A g \in Fetchers, m \in Names : Writing(transfer', g, m) <=> (g # f /\ Writing(transfer, g, m))
    BY <2>8 DEF Writing, NoTransfer
  <2>11. \A g \in Fetchers, m \in Names \ spoiled :
             Writing(transfer', g, m) => file'[m].url = transfer'[g].url /\ file'[m].writer = g
    BY <2>3, <2>7, <2>8, <2>10 DEF FilesInv, WritersHold, PartsAreWritten
  <2>12. \A m \in Names \ spoiled :
             file'[m] # NoFile /\ file'[m].whole # TRUE => \E g \in Fetchers : Writing(transfer', g, m)
    <3>1. SUFFICES ASSUME NEW m \in Names, m \notin spoiled, file'[m] # NoFile, file'[m].whole # TRUE
                   PROVE  \E g \in Fetchers : Writing(transfer', g, m)
      OBVIOUS
    <3>2. m # n
      BY <2>5, <2>7, <3>1
    <3>3. PICK g \in Fetchers : Writing(transfer, g, m)
      BY <2>7, <3>1, <3>2 DEF FilesInv, WritersHold, PartsAreWritten
    <3>4. g # f
      BY <3>2, <3>3 DEF Writing, n, u
    <3> QED BY <2>10, <3>3, <3>4
  <2> QED BY <2>1, <2>6, <2>9, <2>11, <2>12 DEF FilesInv, WritersHold, PartsAreWritten
<1>5. ASSUME NEW f \in Fetchers, TransferFails(f) \/ KillFetcher(f) PROVE FilesInv'
  <2>1. /\ transfer[f] # NoTransfer /\ transfer' = [transfer EXCEPT ![f] = NoTransfer]
        /\ spoiled' = spoiled \cup LeftPartial(f) /\ UNCHANGED file
        /\ \/ UNCHANGED fetched
           \/ Returned(f, transfer[f].url, "failed", file[FileName[transfer[f].url]])
    BY <1>5 DEF TransferFails, KillFetcher
  <2>2. \A g \in Fetchers : transfer'[g] = IF g = f THEN NoTransfer ELSE transfer[g]
    BY <1>a, <2>1 DEF FilesTypes
  <2>3. FetchedWhole' /\ DOMAIN fetched' = Fetchers
    BY <1>a, <2>1 DEF FetchedWhole, Returned, FilesTypes
  <2>4. transfer[f].url \in Urls /\ FileName[transfer[f].url] \in Names
    BY <1>a, <1>b, <2>1 DEF FilesTypes
  <2>5. spoiled' \subseteq Names /\ spoiled \subseteq spoiled'
    BY <1>a, <2>1, <2>4 DEF FilesTypes, LeftPartial
  <2>6. transfer' \in [Fetchers -> [url : Urls \cup {"none"}, at : {"idle", "starting", "writing"}]]
    BY <1>a, <2>1 DEF FilesTypes, NoTransfer
  <2>7. FilesTypes'
    BY <1>a, <2>1, <2>2, <2>3, <2>5, <2>6 DEF FilesTypes, NoTransfer
  <2>8. \A g \in Fetchers, m \in Names : Writing(transfer', g, m) <=> (g # f /\ Writing(transfer, g, m))
    BY <2>2 DEF Writing, NoTransfer
  <2>9. \A m \in Names : m \notin spoiled' => ~Writing(transfer, f, m)
    BY <2>1 DEF LeftPartial, Writing
  <2>10. WritersHold'
    BY <2>1, <2>2, <2>5, <2>8 DEF FilesInv, WritersHold
  <2>11. PartsAreWritten'
    BY <2>1, <2>5, <2>8, <2>9 DEF FilesInv, PartsAreWritten
  <2> QED BY <2>3, <2>7, <2>10, <2>11 DEF FilesInv
<1>6. CASE UNCHANGED fileVars
  <2>1. FilesTypes'
    BY <1>a, <1>6 DEF fileVars, FilesTypes
  <2>2. FetchedWhole'
    BY <1>a, <1>6 DEF fileVars, FetchedWhole
  <2>3. WritersHold' /\ PartsAreWritten'
    BY <1>6 DEF fileVars, FilesInv, WritersHold, PartsAreWritten
  <2> QED BY <2>1, <2>2, <2>3 DEF FilesInv
<1> QED BY <1>1, <1>2, <1>3, <1>4, <1>5, <1>6 DEF FilesStep

-----------------------------------------------------------------------------
RepoType(r) == [there : BOOLEAN, has : SUBSET (1 .. r), origin : 0 .. r, tree : 0 .. r]
CallType(r) == [pin : Pins, at : {"none", "cloning", "fetching", "checkout", "ok", "failed"},
                current : BOOLEAN, head : 0 .. r]

GitTypes ==
    /\ remote \in 1 .. MaxCommits
    /\ repo \in RepoType(remote)
    /\ git \in CallType(remote)
    /\ loose \in BOOLEAN /\ cut \in BOOLEAN

(* A repository that was asked for by revisions only has the commits up to *)
(* some one; what is current is as new as the call.                        *)
GitInv ==
    /\ GitTypes
    /\ git.at \in {"cloning", "fetching"} => git.current # TRUE
    /\ git.at \in {"fetching", "checkout", "ok"} => repo.there
    /\ repo.there /\ ~cut => repo.tree # 0
    /\ git.at = "checkout" /\ git.current => repo.origin >= git.head
    /\ ~loose => \A c \in repo.has : 1 .. c \subseteq repo.has
    /\ ~loose /\ ~GitIdle => git.pin.kind = "revision"
    /\ ~loose /\ git.at = "checkout" /\ git.current => 1 .. git.head \subseteq repo.has
    /\ CheckedOut
    /\ RefusedOnlyIfShallow

(* Before any call the invariant of the repository holds.                  *)
LEMMA GitInitially == GitInit => GitInv
<1> SUFFICES ASSUME GitInit PROVE GitInv
  OBVIOUS
<1> DEFINE pin == [kind |-> "nothing", commit |-> 0]
<1>1. pin \in Pins
  BY DEF Pins
<1>2. git = [pin |-> pin, at |-> "none", current |-> FALSE, head |-> 0]
  BY DEF GitInit
<1>3. pin.kind = "nothing"
  OBVIOUS
<1> HIDE DEF pin
<1>4. remote \in 1 .. MaxCommits /\ 0 \in 0 .. remote
  BY MaxCommitsPositive DEF GitInit
<1>5. repo \in RepoType(remote)
  BY <1>4 DEF GitInit, NoRepo, RepoType
<1>6. git \in CallType(remote)
  BY <1>1, <1>2, <1>4 DEF CallType
<1>7. GitTypes
  BY <1>4, <1>5, <1>6 DEF GitTypes, GitInit
<1> QED BY <1>2, <1>3, <1>7 DEF GitInit, GitInv, NoRepo, GitIdle, CheckedOut, RefusedOnlyIfShallow

(* Every git command, its failures and pushes to the remote keep it.       *)
LEMMA GitInductive == GitInv /\ [GitStep]_gitVars => GitInv'
<1> SUFFICES ASSUME GitInv, [GitStep]_gitVars PROVE GitInv'
  OBVIOUS
<1>a. /\ GitTypes /\ remote \in Nat /\ remote >= 1
      /\ repo.has \subseteq 1 .. remote /\ repo.origin \in Nat /\ repo.tree \in Nat /\ git.head \in Nat
      /\ repo.origin <= remote /\ repo.tree <= remote /\ git.head <= remote
  BY MaxCommitsPositive DEF GitInv, GitTypes, RepoType, CallType
<1>1. ASSUME NEW pin \in Pins, FetchGit(pin) \/ SetupRepository(pin) PROVE GitInv'
  <2>1. PICK first \in {"cloning", "fetching", "checkout"} :
            AskFor(pin, first) /\ (first \in {"fetching", "checkout"} => repo.there)
    BY <1>1 DEF FetchGit, SetupRepository
  <2>2. /\ git' = [pin |-> pin, current |-> FALSE, head |-> remote, at |-> first]
        /\ loose' = (loose \/ pin.kind # "revision") /\ UNCHANGED <<client, remote, repo, cut>>
    BY <2>1 DEF AskFor
  <2>3. GitTypes'
    <3>1. git' \in CallType(remote)
      BY <1>a, <2>2 DEF CallType
    <3> QED BY <1>a, <2>2, <3>1 DEF GitTypes
  <2>4. git'.at = first /\ git'.pin.kind = pin.kind /\ git'.current = FALSE
    BY <2>2
  <2> QED BY <1>a, <2>1, <2>2, <2>3, <2>4 DEF GitInv, GitIdle, CheckedOut, RefusedOnlyIfShallow
<1>2. CASE GitClone \/ CloneAll
  <2>1. /\ git.at = "cloning" /\ UNCHANGED <<client, remote, loose, cut>>
        /\ git' = [git EXCEPT !.at = "checkout", !.current = TRUE]
        /\ \E has \in SUBSET (1 .. remote) :
              /\ repo' = [there |-> TRUE, origin |-> remote, tree |-> remote, has |-> has]
              /\ ~loose => has = 1 .. remote
    BY <1>a, <1>2 DEF GitClone, CloneAll, GitInv, GitIdle
  <2>2. PICK has \in SUBSET (1 .. remote) :
              /\ repo' = [there |-> TRUE, origin |-> remote, tree |-> remote, has |-> has]
              /\ ~loose => has = 1 .. remote
    BY <2>1
  <2>3. GitTypes'
    <3>1. git' \in CallType(remote)
      BY <1>a, <2>1 DEF GitTypes, CallType
    <3>2. repo' \in RepoType(remote)
      BY <1>a, <2>2 DEF RepoType
    <3> QED BY <1>a, <2>1, <3>1, <3>2 DEF GitTypes
  <2>4. git'.at = "checkout" /\ git'.pin = git.pin /\ git'.head = git.head
    BY <1>a, <2>1 DEF GitTypes, RepoType, CallType
  <2> QED BY <1>a, <2>1, <2>2, <2>3, <2>4 DEF GitInv, GitIdle, CheckedOut, RefusedOnlyIfShallow
<1>3. CASE CloneFails
  <2>1. /\ git.at = "cloning" /\ UNCHANGED <<client, remote, repo, loose, cut>>
        /\ git' = [git EXCEPT !.at = "failed"]
        /\ git'.at = "failed" /\ git'.pin = git.pin /\ git'.head = git.head /\ git'.current = git.current
    BY <1>a, <1>3 DEF CloneFails, GitTypes, CallType
  <2>2. git.current # TRUE /\ git.current \in BOOLEAN
    BY <1>a, <2>1 DEF GitInv, GitTypes, CallType
  <2>3. GitTypes'
    BY <1>a, <2>1 DEF GitTypes, CallType
  <2> QED BY <1>a, <2>1, <2>2, <2>3 DEF GitInv, GitIdle, CheckedOut, RefusedOnlyIfShallow
<1>4. CASE FetchUpdates
  <2> DEFINE has == {c \in 1 .. remote : \A h \in repo.has : c > h} \cup repo.has
  <2>1. /\ git.at = "fetching" /\ UNCHANGED <<client, remote, loose, cut>>
        /\ git' = [git EXCEPT !.at = "checkout", !.current = TRUE]
        /\ repo'.there = repo.there /\ repo'.origin = remote /\ repo'.tree = repo.tree /\ repo'.has = has
        /\ repo' = [repo EXCEPT !.origin = remote, !.has = has]
    BY <1>a, <1>4 DEF FetchUpdates, GitTypes, RepoType, CallType
  <2>2. has \subseteq 1 .. remote
    BY <1>a
  <2>3. ~loose => 1 .. remote \subseteq has
    <3>1. SUFFICES ASSUME ~loose, NEW c \in 1 .. remote, c \notin repo.has, NEW h \in repo.has
                   PROVE  c > h
      OBVIOUS
    <3>2. h \in 1 .. remote /\ 1 .. h \subseteq repo.has
      BY <1>a, <3>1 DEF GitInv
    <3> QED BY <1>a, <3>1, <3>2
  <2> HIDE DEF has
  <2>4. GitTypes'
    <3>1. git' \in CallType(remote)
      BY <1>a, <2>1 DEF GitTypes, CallType
    <3>2. repo' \in RepoType(remote)
      <4>1. repo \in RepoType(remote)
        BY <1>a DEF GitTypes
      <4>2. has \in SUBSET (1 .. remote) /\ remote \in 0 .. remote
        BY <1>a, <2>2
      <4> QED BY <2>1, <4>1, <4>2 DEF RepoType
    <3> QED BY <1>a, <2>1, <3>1, <3>2 DEF GitTypes
  <2>5. git'.at = "checkout" /\ git'.pin = git.pin /\ git'.head = git.head
    BY <1>a, <2>1 DEF GitTypes, RepoType, CallType
  <2> QED BY <1>a, <2>1, <2>2, <2>3, <2>4, <2>5 DEF GitInv, GitIdle, CheckedOut, RefusedOnlyIfShallow
<1>5. CASE FetchFails
  <2>1. /\ git.at = "fetching" /\ UNCHANGED <<client, remote, repo, loose, cut>>
        /\ git' = [git EXCEPT !.at = "checkout"]
        /\ git'.at = "checkout" /\ git'.pin = git.pin /\ git'.head = git.head /\ git'.current = git.current
    BY <1>a, <1>5 DEF FetchFails, GitTypes, RepoType, CallType
  <2>2. git.current \in BOOLEAN /\ git.current # TRUE
    BY <2>1 DEF GitInv, GitTypes, RepoType, CallType
  <2>3. GitTypes'
    BY <1>a, <2>1 DEF GitTypes, RepoType, CallType
  <2> QED BY <1>a, <2>1, <2>2, <2>3 DEF GitInv, GitIdle, CheckedOut, RefusedOnlyIfShallow
<1>6. CASE Checkout
  <2>1. /\ git.at = "checkout" /\ UNCHANGED <<client, remote, loose, cut>>
        /\ git.pin.kind = "nothing" \/ Wanted \in repo.has
        /\ repo' = [repo EXCEPT !.tree = Wanted]
        /\ git' = [git EXCEPT !.at = "ok"]
    BY <1>6 DEF Checkout
  <2>2. /\ git'.at = "ok" /\ git'.pin = git.pin /\ git'.head = git.head /\ git'.current = git.current
        /\ repo'.there = repo.there /\ repo'.origin = repo.origin /\ repo'.tree = Wanted /\ repo'.has = repo.has
    BY <1>a, <2>1 DEF GitTypes, RepoType, CallType
  <2>3. git.pin \in Pins
    BY <1>a DEF GitTypes, RepoType, CallType
  <2>4. /\ git.pin.kind = "revision" => Wanted = git.pin.commit
        /\ git.pin.kind = "branch" => Wanted = repo.origin
        /\ git.pin.kind = "nothing" => Wanted = repo.tree
    BY DEF Wanted
  <2>5. Wanted \in 0 .. remote /\ (~cut => Wanted # 0)
    <3>1. git.pin.kind = "nothing" => Wanted \in 0 .. remote /\ (~cut => Wanted # 0)
      BY <1>a, <2>1, <2>4 DEF GitInv
    <3>2. Wanted \in repo.has => Wanted \in 0 .. remote /\ Wanted # 0
      BY <1>a
    <3> QED BY <2>1, <3>1, <3>2
  <2>6. GitTypes'
    BY <1>a, <2>1, <2>5 DEF GitTypes, RepoType, CallType
  <2>7. CheckedOut'
    BY <1>a, <2>1, <2>2, <2>4, <2>5 DEF GitInv, CheckedOut
  <2> QED BY <1>a, <2>1, <2>2, <2>5, <2>6, <2>7 DEF GitInv, GitIdle, RefusedOnlyIfShallow
<1>7. CASE CheckoutFails
  <2>1. /\ git.at = "checkout" /\ UNCHANGED <<client, remote, repo, loose, cut>>
        /\ Wanted \notin repo.has
        /\ git' = [git EXCEPT !.at = "failed"]
        /\ git'.at = "failed" /\ git'.pin = git.pin /\ git'.head = git.head /\ git'.current = git.current
    BY <1>a, <1>7 DEF CheckoutFails, GitTypes, RepoType, CallType
  <2>2. GitTypes'
    BY <1>a, <2>1 DEF GitTypes, RepoType, CallType
  <2>3. RefusedOnlyIfShallow'
    <3>1. SUFFICES ASSUME git.current, git.pin.kind = "revision", git.pin.commit <= git.head, ~loose
                   PROVE  FALSE
      BY <2>1 DEF RefusedOnlyIfShallow
    <3>2. git.pin.commit \in 1 .. git.head
      <4>1. git.pin \in Pins
        BY <1>a DEF GitTypes, RepoType, CallType
      <4>2. git.pin.commit \in 1 .. MaxCommits
        BY <3>1, <4>1 DEF Pins
      <4> QED BY <1>a, <3>1, <4>2, MaxCommitsPositive
    <3>3. Wanted = git.pin.commit
      BY <3>1 DEF Wanted
    <3> QED BY <2>1, <3>1, <3>2, <3>3 DEF GitInv
  <2> QED BY <1>a, <2>1, <2>2, <2>3 DEF GitInv, GitIdle, CheckedOut
<1>8. CASE KillGit
  <2>1. /\ ~GitIdle /\ UNCHANGED <<client, remote, loose>>
        /\ git' = [git EXCEPT !.at = "none"]
        /\ git'.at = "none" /\ git'.pin = git.pin /\ git'.head = git.head /\ git'.current = git.current
        /\ \/ UNCHANGED <<repo, cut>>
           \/ repo' = [NoRepo EXCEPT !.there = TRUE] /\ cut' = TRUE
    BY <1>a, <1>8 DEF KillGit, GitTypes, RepoType, CallType
  <2>2. GitTypes'
    <3>1. git' \in CallType(remote)
      BY <1>a, <2>1 DEF GitTypes, CallType
    <3>2. repo' \in RepoType(remote)
      <4>1. NoRepo \in RepoType(remote)
        BY <1>a DEF NoRepo, RepoType
      <4>2. CASE repo' = [NoRepo EXCEPT !.there = TRUE]
        BY <4>1, <4>2 DEF RepoType
      <4>3. CASE UNCHANGED repo
        BY <1>a, <4>3 DEF GitTypes
      <4> QED BY <2>1, <4>2, <4>3
    <3> QED BY <1>a, <2>1, <3>1, <3>2 DEF GitTypes
  <2> QED BY <1>a, <2>1, <2>2 DEF GitInv, GitIdle, CheckedOut, RefusedOnlyIfShallow, NoRepo
<1>9. CASE Commit
  <2>1. /\ remote < MaxCommits /\ remote' = remote + 1
        /\ UNCHANGED <<client, repo, git, loose, cut>>
    BY <1>9 DEF Commit
  <2>2. GitTypes'
    <3>1. 0 .. remote \subseteq 0 .. remote' /\ 1 .. remote \subseteq 1 .. remote' /\ remote' \in 1 .. MaxCommits
      BY <1>a, <2>1, MaxCommitsPositive
    <3> QED BY <1>a, <2>1, <3>1 DEF GitTypes, RepoType, CallType
  <2> QED BY <1>a, <2>1, <2>2 DEF GitInv, GitIdle, CheckedOut, RefusedOnlyIfShallow
<1>10. CASE UNCHANGED gitVars
  BY <1>10 DEF gitVars, GitInv, GitTypes, GitIdle, CheckedOut, RefusedOnlyIfShallow
<1> QED BY <1>1, <1>2, <1>3, <1>4, <1>5, <1>6, <1>7, <1>8, <1>9, <1>10 DEF GitStep

(* A download that returns Ok is the file that was asked for, and a        *)
(* checkout that does is the revision, with the exceptions DownloadsSound  *)
(* names.                                                                  *)
THEOREM DownloadsAreSound ==
    FilesInit /\ [][FilesStep]_fileVars /\ GitInit /\ [][GitStep]_gitVars => []DownloadsSound
<1>1. FilesInv /\ GitInv => DownloadsSound
  BY DEF FilesInv, FilesTypes, GitInv, GitTypes, RepoType, CallType, DownloadsSound, DownloadsTypeOK, NoTransfer
<1> QED BY <1>1, FilesInitially, FilesInductive, GitInitially, GitInductive, PTL

-----------------------------------------------------------------------------
Stages == {"idle", "setup", "mkdir", "limits", "fork", "move", "unshare", "install", "write",
           "script", "bash", "wait", "command", "cleanup", "result", "collect", "remove", "done"}

SandboxTypes ==
    /\ at \in [Runs -> Stages]
    /\ child \in [Runs -> {"none", "alive", "killed", "exit_0", "exit_1"}]
    /\ DOMAIN sourced = Runs /\ DOMAIN outcome = Runs
    /\ path \subseteq Runs /\ members \subseteq Runs /\ written \subseteq Runs /\ alone \subseteq Runs
    /\ group \in BOOLEAN
    /\ cgroups \in {"none", "partial", "full"}
    /\ backend # "native" => cgroups = "none"
    /\ cgroups = "none" => ~group

(* What the process of an execution is, by where the execution is.         *)
ChildAt ==
    \A r \in Runs :
        /\ at[r] \in {"idle", "setup", "mkdir", "limits", "fork", "command"} => child[r] = "none"
        /\ at[r] \in {"move", "unshare", "install", "write", "script", "bash"}
               => child[r] \in {"alive", "killed"}
        /\ at[r] \in {"wait", "cleanup", "result"} => child[r] \in {"killed", "exit_0", "exit_1"}
        /\ at[r] \in {"collect", "remove"} => child[r] = "exit_0"
        /\ at[r] \in {"mkdir", "limits"} => cgroups # "none"

(* Whoever is in the cgroup runs.                                          *)
MembersRun ==
    \A r \in members : child[r] = "alive" /\ at[r] \in {"unshare", "install", "write", "script", "bash"}

(* Nothing has happened to an execution that no other overlapped with.     *)
Unhurt(r) ==
    /\ child[r] # "killed"
    /\ sourced[r] # "empty"
    /\ at[r] \notin {"idle", "setup", "mkdir", "limits"} /\ cgroups = "full" => r \in path
    /\ at[r] = "mkdir" => ~group
    /\ at[r] = "limits" => group
    /\ at[r] = "script" => prelude = "whole"

AloneUnhurt ==
    \A r \in alone :
        /\ Unhurt(r)
        /\ at[r] \notin {"idle", "done"} => \A q \in Runs : at[q] \notin {"idle", "done"} => q = r

OutputsKept ==
    \A r \in Runs :
        /\ at[r] = "remove" => r \in written \/ swept
        /\ outcome[r] = "ok" => at[r] = "done" /\ child[r] = "exit_0" /\ r \notin roots
        /\ r \in written => child[r] = "exit_0"

(* Who will remove the cgroup that is there, if they run one by one.       *)
Holding == {"setup", "limits", "fork", "move", "unshare", "install", "write", "script", "bash",
            "wait", "cleanup"}

GroupHeld ==
    alone = Runs /\ cgroups = "full" /\ group =>
        \/ \A r \in Runs : at[r] = "idle"
        \/ \E r \in Runs : at[r] \in Holding
        \/ \E r \in path : at[r] = "done" /\ child[r] = "none"

SandboxInv ==
    /\ SandboxTypes /\ ChildAt /\ MembersRun
    /\ AloneUnhurt
    /\ OutputsKept
    /\ GroupHeld

(* Before any execution the invariant of the sandboxes holds.              *)
LEMMA SandboxesInitially == SandboxesInit => SandboxInv
<1> SUFFICES ASSUME SandboxesInit PROVE SandboxInv
  OBVIOUS
<1>1. SandboxTypes
  BY DEF SandboxesInit, SandboxTypes, Stages
<1>2. ChildAt /\ MembersRun /\ AloneUnhurt /\ OutputsKept /\ GroupHeld
  BY DEF SandboxesInit, ChildAt, MembersRun, AloneUnhurt, Unhurt, OutputsKept, GroupHeld
<1> QED BY <1>1, <1>2 DEF SandboxInv

(* A step of one execution that is under way can hurt itself only.         *)
LEMMA OthersUnhurt ==
    ASSUME SandboxInv, NEW q \in Runs, at[q] \notin {"idle", "done"},
           UNCHANGED <<machine, alone>>, path \subseteq path',
           \A r \in Runs \ {q} : at'[r] = at[r] /\ sourced'[r] = sourced[r],
           \A r \in Runs \ {q} : r \notin members => child'[r] = child[r],
           q \in alone => Unhurt(q)'
    PROVE  AloneUnhurt'
<1>1. SUFFICES ASSUME NEW r \in alone
               PROVE  /\ Unhurt(r)'
                      /\ at'[r] \notin {"idle", "done"} =>
                             \A p \in Runs : at'[p] \notin {"idle", "done"} => p = r
  BY DEF AloneUnhurt
<1>2. r \in Runs /\ Unhurt(r)
      /\ (at[r] \notin {"idle", "done"} => \A p \in Runs : at[p] \notin {"idle", "done"} => p = r)
  BY DEF SandboxInv, SandboxTypes, AloneUnhurt
<1>3. CASE r = q
  BY <1>1, <1>2, <1>3
<1>4. CASE r # q
  <2>1. at[r] \in {"idle", "done"}
    BY <1>2, <1>4
  <2>2. r \notin members
    BY <1>2, <2>1 DEF SandboxInv, MembersRun
  <2>3. at'[r] = at[r] /\ child'[r] = child[r] /\ sourced'[r] = sourced[r]
    BY <1>2, <1>4, <2>2
  <2> QED BY <1>2, <2>1, <2>3 DEF Unhurt, machine
<1> QED BY <1>3, <1>4

(* Every step of an execution, of its child, and a kill keep it.           *)
LEMMA SandboxesInductive == ASSUME SandboxInv, [SandboxStep]_sandboxVars PROVE SandboxInv'
<1>a. SandboxTypes /\ ChildAt /\ MembersRun /\ AloneUnhurt /\ OutputsKept /\ GroupHeld
  BY DEF SandboxInv
<1>1. ASSUME NEW r \in Runs, CreateSandbox(r) PROVE SandboxInv'
  <2>1. SandboxTypes'
    BY <1>a, <1>1 DEF CreateSandbox, Go, machine, own, SandboxTypes, Stages, ChildAt
  <2>2. ChildAt'
    BY <1>a, <1>1 DEF CreateSandbox, Go, machine, own, SandboxTypes, ChildAt, MembersRun
  <2>3. MembersRun'
    BY <1>a, <1>1 DEF CreateSandbox, Go, machine, own, SandboxTypes, ChildAt, MembersRun
  <2>4. AloneUnhurt'
    BY <1>a, <1>1 DEF CreateSandbox, Go, machine, own, SandboxTypes, ChildAt, AloneUnhurt, Unhurt, Underway
  <2>5. OutputsKept'
    BY <1>a, <1>1 DEF CreateSandbox, Go, machine, own, SandboxTypes, ChildAt, MembersRun, OutputsKept
  <2>6. GroupHeld'
    BY <1>a, <1>1 DEF CreateSandbox, Go, machine, own, SandboxTypes, ChildAt, MembersRun, AloneUnhurt, Unhurt, GroupHeld, Holding, Underway
  <2> QED BY <2>1, <2>2, <2>3, <2>4, <2>5, <2>6 DEF SandboxInv
<1>2. ASSUME NEW r \in Runs, NEW name, Command(r, name) PROVE SandboxInv'
  <2>1. SandboxTypes'
    BY <1>a, <1>2 DEF Command, Go, Answer, Wrote, machine, own, SandboxTypes, Stages, ChildAt
  <2>2. ChildAt'
    BY <1>a, <1>2 DEF Command, Go, Answer, Wrote, machine, own, SandboxTypes, ChildAt, MembersRun
  <2>3. MembersRun'
    BY <1>a, <1>2 DEF Command, Go, Answer, Wrote, machine, own, SandboxTypes, ChildAt, MembersRun
  <2>4. AloneUnhurt'
    <3>1. /\ at[r] \notin {"idle", "done"} /\ UNCHANGED <<machine, alone>> /\ path \subseteq path'
          /\ \A q \in Runs \ {r} : at'[q] = at[q] /\ sourced'[q] = sourced[q]
          /\ \A q \in Runs \ {r} : q \notin members => child'[q] = child[q]
      BY <1>a, <1>2 DEF Command, Go, Answer, Wrote, machine, own, SandboxTypes, ChildAt
    <3>2. r \in alone => Unhurt(r)'
      BY <1>a, <1>2 DEF Command, Go, Answer, Wrote, machine, own, SandboxTypes, ChildAt, MembersRun, AloneUnhurt, Unhurt
    <3> QED BY <3>1, <3>2, OthersUnhurt
  <2>5. OutputsKept'
    BY <1>a, <1>2 DEF Command, Go, Answer, Wrote, machine, own, SandboxTypes, ChildAt, MembersRun, OutputsKept
  <2>6. GroupHeld'
    BY <1>a, <1>2 DEF Command, Go, Answer, Wrote, machine, own, SandboxTypes, ChildAt, MembersRun, AloneUnhurt, Unhurt, GroupHeld, Holding, Underway
  <2> QED BY <2>1, <2>2, <2>3, <2>4, <2>5, <2>6 DEF SandboxInv
<1>3. ASSUME NEW r \in Runs, RemoveOldGroup(r) PROVE SandboxInv'
  <2>0. r \in alone => members = {}
    <3>1. at[r] \in {"setup", "cleanup"}
      BY <1>3 DEF RemoveOldGroup
    <3> QED BY <1>a, <3>1 DEF SandboxTypes, MembersRun, AloneUnhurt
  <2>1. SandboxTypes'
    BY <1>a, <1>3 DEF RemoveOldGroup, Go, machine, own, SandboxTypes, Stages, ChildAt
  <2>2. ChildAt'
    BY <1>a, <1>3 DEF RemoveOldGroup, Go, machine, own, SandboxTypes, ChildAt, MembersRun
  <2>3. MembersRun'
    BY <1>a, <1>3 DEF RemoveOldGroup, Go, machine, own, SandboxTypes, ChildAt, MembersRun
  <2>4. AloneUnhurt'
    <3>1. /\ at[r] \notin {"idle", "done"} /\ UNCHANGED <<machine, alone>> /\ path \subseteq path'
          /\ \A q \in Runs \ {r} : at'[q] = at[q] /\ sourced'[q] = sourced[q]
          /\ \A q \in Runs \ {r} : q \notin members => child'[q] = child[q]
      BY <1>a, <1>3 DEF RemoveOldGroup, Go, machine, own, SandboxTypes, ChildAt
    <3>2. r \in alone => Unhurt(r)'
      BY <1>a, <1>3, <2>0 DEF RemoveOldGroup, Go, machine, own, SandboxTypes, ChildAt, MembersRun, AloneUnhurt, Unhurt
    <3> QED BY <3>1, <3>2, OthersUnhurt
  <2>5. OutputsKept'
    BY <1>a, <1>3 DEF RemoveOldGroup, Go, machine, own, SandboxTypes, ChildAt, MembersRun, OutputsKept
  <2>6. GroupHeld'
    BY <1>a, <1>3, <2>0 DEF RemoveOldGroup, Go, machine, own, SandboxTypes, ChildAt, MembersRun, AloneUnhurt, Unhurt, GroupHeld, Holding, Underway
  <2> QED BY <2>1, <2>2, <2>3, <2>4, <2>5, <2>6 DEF SandboxInv
<1>4. ASSUME NEW r \in Runs, CreateGroup(r) PROVE SandboxInv'
  <2>1. SandboxTypes'
    BY <1>a, <1>4 DEF CreateGroup, Go, machine, own, SandboxTypes, Stages, ChildAt
  <2>2. ChildAt'
    BY <1>a, <1>4 DEF CreateGroup, Go, machine, own, SandboxTypes, ChildAt, MembersRun
  <2>3. MembersRun'
    BY <1>a, <1>4 DEF CreateGroup, Go, machine, own, SandboxTypes, ChildAt, MembersRun
  <2>4. AloneUnhurt'
    <3>1. /\ at[r] \notin {"idle", "done"} /\ UNCHANGED <<machine, alone>> /\ path \subseteq path'
          /\ \A q \in Runs \ {r} : at'[q] = at[q] /\ sourced'[q] = sourced[q]
          /\ \A q \in Runs \ {r} : q \notin members => child'[q] = child[q]
      BY <1>a, <1>4 DEF CreateGroup, Go, machine, own, SandboxTypes, ChildAt
    <3>2. r \in alone => Unhurt(r)'
      BY <1>a, <1>4 DEF CreateGroup, Go, machine, own, SandboxTypes, ChildAt, MembersRun, AloneUnhurt, Unhurt
    <3> QED BY <3>1, <3>2, OthersUnhurt
  <2>5. OutputsKept'
    BY <1>a, <1>4 DEF CreateGroup, Go, machine, own, SandboxTypes, ChildAt, MembersRun, OutputsKept
  <2>6. GroupHeld'
    BY <1>a, <1>4 DEF CreateGroup, Go, machine, own, SandboxTypes, ChildAt, MembersRun, AloneUnhurt, Unhurt, GroupHeld, Holding, Underway
  <2> QED BY <2>1, <2>2, <2>3, <2>4, <2>5, <2>6 DEF SandboxInv
<1>5. ASSUME NEW r \in Runs, ApplyLimits(r) PROVE SandboxInv'
  <2>1. SandboxTypes'
    BY <1>a, <1>5 DEF ApplyLimits, Go, machine, own, SandboxTypes, Stages, ChildAt
  <2>2. ChildAt'
    BY <1>a, <1>5 DEF ApplyLimits, Go, machine, own, SandboxTypes, ChildAt, MembersRun
  <2>3. MembersRun'
    BY <1>a, <1>5 DEF ApplyLimits, Go, machine, own, SandboxTypes, ChildAt, MembersRun
  <2>4. AloneUnhurt'
    <3>1. /\ at[r] \notin {"idle", "done"} /\ UNCHANGED <<machine, alone>> /\ path \subseteq path'
          /\ \A q \in Runs \ {r} : at'[q] = at[q] /\ sourced'[q] = sourced[q]
          /\ \A q \in Runs \ {r} : q \notin members => child'[q] = child[q]
      BY <1>a, <1>5 DEF ApplyLimits, Go, machine, own, SandboxTypes, ChildAt
    <3>2. r \in alone => Unhurt(r)'
      BY <1>a, <1>5 DEF ApplyLimits, Go, machine, own, SandboxTypes, ChildAt, MembersRun, AloneUnhurt, Unhurt
    <3> QED BY <3>1, <3>2, OthersUnhurt
  <2>5. OutputsKept'
    BY <1>a, <1>5 DEF ApplyLimits, Go, machine, own, SandboxTypes, ChildAt, MembersRun, OutputsKept
  <2>6. GroupHeld'
    BY <1>a, <1>5 DEF ApplyLimits, Go, machine, own, SandboxTypes, ChildAt, MembersRun, AloneUnhurt, Unhurt, GroupHeld, Holding, Underway
  <2> QED BY <2>1, <2>2, <2>3, <2>4, <2>5, <2>6 DEF SandboxInv
<1>6. ASSUME NEW r \in Runs, Fork(r) PROVE SandboxInv'
  <2>1. SandboxTypes'
    BY <1>a, <1>6 DEF Fork, Go, Answer, machine, own, SandboxTypes, Stages, ChildAt
  <2>2. ChildAt'
    BY <1>a, <1>6 DEF Fork, Go, Answer, machine, own, SandboxTypes, ChildAt, MembersRun
  <2>3. MembersRun'
    BY <1>a, <1>6 DEF Fork, Go, Answer, machine, own, SandboxTypes, ChildAt, MembersRun
  <2>4. AloneUnhurt'
    <3>1. /\ at[r] \notin {"idle", "done"} /\ UNCHANGED <<machine, alone>> /\ path \subseteq path'
          /\ \A q \in Runs \ {r} : at'[q] = at[q] /\ sourced'[q] = sourced[q]
          /\ \A q \in Runs \ {r} : q \notin members => child'[q] = child[q]
      BY <1>a, <1>6 DEF Fork, Go, Answer, machine, own, SandboxTypes, ChildAt
    <3>2. r \in alone => Unhurt(r)'
      BY <1>a, <1>6 DEF Fork, Go, Answer, machine, own, SandboxTypes, ChildAt, MembersRun, AloneUnhurt, Unhurt
    <3> QED BY <3>1, <3>2, OthersUnhurt
  <2>5. OutputsKept'
    BY <1>a, <1>6 DEF Fork, Go, Answer, machine, own, SandboxTypes, ChildAt, MembersRun, OutputsKept
  <2>6. GroupHeld'
    BY <1>a, <1>6 DEF Fork, Go, Answer, machine, own, SandboxTypes, ChildAt, MembersRun, AloneUnhurt, Unhurt, GroupHeld, Holding, Underway
  <2> QED BY <2>1, <2>2, <2>3, <2>4, <2>5, <2>6 DEF SandboxInv
<1>7. ASSUME NEW r \in Runs, MoveToGroup(r) PROVE SandboxInv'
  <2>1. SandboxTypes'
    BY <1>a, <1>7 DEF MoveToGroup, Go, Lives, Exit, machine, own, SandboxTypes, Stages, ChildAt
  <2>2. ChildAt'
    BY <1>a, <1>7 DEF MoveToGroup, Go, Lives, Exit, machine, own, SandboxTypes, ChildAt, MembersRun
  <2>3. MembersRun'
    BY <1>a, <1>7 DEF MoveToGroup, Go, Lives, Exit, machine, own, SandboxTypes, ChildAt, MembersRun
  <2>4. AloneUnhurt'
    <3>1. /\ at[r] \notin {"idle", "done"} /\ UNCHANGED <<machine, alone>> /\ path \subseteq path'
          /\ \A q \in Runs \ {r} : at'[q] = at[q] /\ sourced'[q] = sourced[q]
          /\ \A q \in Runs \ {r} : q \notin members => child'[q] = child[q]
      BY <1>a, <1>7 DEF MoveToGroup, Go, Lives, Exit, machine, own, SandboxTypes, ChildAt
    <3>2. r \in alone => Unhurt(r)'
      BY <1>a, <1>7 DEF MoveToGroup, Go, Lives, Exit, machine, own, SandboxTypes, ChildAt, MembersRun, AloneUnhurt, Unhurt
    <3> QED BY <3>1, <3>2, OthersUnhurt
  <2>5. OutputsKept'
    BY <1>a, <1>7 DEF MoveToGroup, Go, Lives, Exit, machine, own, SandboxTypes, ChildAt, MembersRun, OutputsKept
  <2>6. GroupHeld'
    BY <1>a, <1>7 DEF MoveToGroup, Go, Lives, Exit, machine, own, SandboxTypes, ChildAt, MembersRun, AloneUnhurt, Unhurt, GroupHeld, Holding, Underway
  <2> QED BY <2>1, <2>2, <2>3, <2>4, <2>5, <2>6 DEF SandboxInv
<1>8. ASSUME NEW r \in Runs, Unshare(r) PROVE SandboxInv'
  <2>1. SandboxTypes'
    BY <1>a, <1>8 DEF Unshare, Go, Lives, Exit, machine, own, SandboxTypes, Stages, ChildAt
  <2>2. ChildAt'
    BY <1>a, <1>8 DEF Unshare, Go, Lives, Exit, machine, own, SandboxTypes, ChildAt, MembersRun
  <2>3. MembersRun'
    BY <1>a, <1>8 DEF Unshare, Go, Lives, Exit, machine, own, SandboxTypes, ChildAt, MembersRun
  <2>4. AloneUnhurt'
    <3>1. /\ at[r] \notin {"idle", "done"} /\ UNCHANGED <<machine, alone>> /\ path \subseteq path'
          /\ \A q \in Runs \ {r} : at'[q] = at[q] /\ sourced'[q] = sourced[q]
          /\ \A q \in Runs \ {r} : q \notin members => child'[q] = child[q]
      BY <1>a, <1>8 DEF Unshare, Go, Lives, Exit, machine, own, SandboxTypes, ChildAt
    <3>2. r \in alone => Unhurt(r)'
      BY <1>a, <1>8 DEF Unshare, Go, Lives, Exit, machine, own, SandboxTypes, ChildAt, MembersRun, AloneUnhurt, Unhurt
    <3> QED BY <3>1, <3>2, OthersUnhurt
  <2>5. OutputsKept'
    BY <1>a, <1>8 DEF Unshare, Go, Lives, Exit, machine, own, SandboxTypes, ChildAt, MembersRun, OutputsKept
  <2>6. GroupHeld'
    BY <1>a, <1>8 DEF Unshare, Go, Lives, Exit, machine, own, SandboxTypes, ChildAt, MembersRun, AloneUnhurt, Unhurt, GroupHeld, Holding, Underway
  <2> QED BY <2>1, <2>2, <2>3, <2>4, <2>5, <2>6 DEF SandboxInv
<1>9. ASSUME NEW r \in Runs, TruncatePrelude(r) PROVE SandboxInv'
  <2>1. SandboxTypes'
    BY <1>a, <1>9 DEF TruncatePrelude, Go, Lives, machine, own, SandboxTypes, Stages, ChildAt
  <2>2. ChildAt'
    BY <1>a, <1>9 DEF TruncatePrelude, Go, Lives, machine, own, SandboxTypes, ChildAt, MembersRun
  <2>3. MembersRun'
    BY <1>a, <1>9 DEF TruncatePrelude, Go, Lives, machine, own, SandboxTypes, ChildAt, MembersRun
  <2>4. AloneUnhurt'
    <3>1. /\ at[r] \notin {"idle", "done"} /\ UNCHANGED <<machine, alone>> /\ path \subseteq path'
          /\ \A q \in Runs \ {r} : at'[q] = at[q] /\ sourced'[q] = sourced[q]
          /\ \A q \in Runs \ {r} : q \notin members => child'[q] = child[q]
      BY <1>a, <1>9 DEF TruncatePrelude, Go, Lives, machine, own, SandboxTypes, ChildAt
    <3>2. r \in alone => Unhurt(r)'
      BY <1>a, <1>9 DEF TruncatePrelude, Go, Lives, machine, own, SandboxTypes, ChildAt, MembersRun, AloneUnhurt, Unhurt
    <3> QED BY <3>1, <3>2, OthersUnhurt
  <2>5. OutputsKept'
    BY <1>a, <1>9 DEF TruncatePrelude, Go, Lives, machine, own, SandboxTypes, ChildAt, MembersRun, OutputsKept
  <2>6. GroupHeld'
    BY <1>a, <1>9 DEF TruncatePrelude, Go, Lives, machine, own, SandboxTypes, ChildAt, MembersRun, AloneUnhurt, Unhurt, GroupHeld, Holding, Underway
  <2> QED BY <2>1, <2>2, <2>3, <2>4, <2>5, <2>6 DEF SandboxInv
<1>10. ASSUME NEW r \in Runs, WritePrelude(r) PROVE SandboxInv'
  <2>1. SandboxTypes'
    BY <1>a, <1>10 DEF WritePrelude, Go, Lives, Exit, machine, own, SandboxTypes, Stages, ChildAt
  <2>2. ChildAt'
    BY <1>a, <1>10 DEF WritePrelude, Go, Lives, Exit, machine, own, SandboxTypes, ChildAt, MembersRun
  <2>3. MembersRun'
    BY <1>a, <1>10 DEF WritePrelude, Go, Lives, Exit, machine, own, SandboxTypes, ChildAt, MembersRun
  <2>4. AloneUnhurt'
    <3>1. /\ at[r] \notin {"idle", "done"} /\ UNCHANGED <<machine, alone>> /\ path \subseteq path'
          /\ \A q \in Runs \ {r} : at'[q] = at[q] /\ sourced'[q] = sourced[q]
          /\ \A q \in Runs \ {r} : q \notin members => child'[q] = child[q]
      BY <1>a, <1>10 DEF WritePrelude, Go, Lives, Exit, machine, own, SandboxTypes, ChildAt
    <3>2. r \in alone => Unhurt(r)'
      BY <1>a, <1>10 DEF WritePrelude, Go, Lives, Exit, machine, own, SandboxTypes, ChildAt, MembersRun, AloneUnhurt, Unhurt
    <3> QED BY <3>1, <3>2, OthersUnhurt
  <2>5. OutputsKept'
    BY <1>a, <1>10 DEF WritePrelude, Go, Lives, Exit, machine, own, SandboxTypes, ChildAt, MembersRun, OutputsKept
  <2>6. GroupHeld'
    BY <1>a, <1>10 DEF WritePrelude, Go, Lives, Exit, machine, own, SandboxTypes, ChildAt, MembersRun, AloneUnhurt, Unhurt, GroupHeld, Holding, Underway
  <2> QED BY <2>1, <2>2, <2>3, <2>4, <2>5, <2>6 DEF SandboxInv
<1>11. ASSUME NEW r \in Runs, RunDirect(r) PROVE SandboxInv'
  <2>1. SandboxTypes'
    BY <1>a, <1>11 DEF RunDirect, Go, Lives, Exit, Wrote, machine, own, SandboxTypes, Stages, ChildAt
  <2>2. ChildAt'
    BY <1>a, <1>11 DEF RunDirect, Go, Lives, Exit, Wrote, machine, own, SandboxTypes, ChildAt, MembersRun
  <2>3. MembersRun'
    BY <1>a, <1>11 DEF RunDirect, Go, Lives, Exit, Wrote, machine, own, SandboxTypes, ChildAt, MembersRun
  <2>4. AloneUnhurt'
    <3>1. /\ at[r] \notin {"idle", "done"} /\ UNCHANGED <<machine, alone>> /\ path \subseteq path'
          /\ \A q \in Runs \ {r} : at'[q] = at[q] /\ sourced'[q] = sourced[q]
          /\ \A q \in Runs \ {r} : q \notin members => child'[q] = child[q]
      BY <1>a, <1>11 DEF RunDirect, Go, Lives, Exit, Wrote, machine, own, SandboxTypes, ChildAt
    <3>2. r \in alone => Unhurt(r)'
      BY <1>a, <1>11 DEF RunDirect, Go, Lives, Exit, Wrote, machine, own, SandboxTypes, ChildAt, MembersRun, AloneUnhurt, Unhurt
    <3> QED BY <3>1, <3>2, OthersUnhurt
  <2>5. OutputsKept'
    BY <1>a, <1>11 DEF RunDirect, Go, Lives, Exit, Wrote, machine, own, SandboxTypes, ChildAt, MembersRun, OutputsKept
  <2>6. GroupHeld'
    BY <1>a, <1>11 DEF RunDirect, Go, Lives, Exit, Wrote, machine, own, SandboxTypes, ChildAt, MembersRun, AloneUnhurt, Unhurt, GroupHeld, Holding, Underway
  <2> QED BY <2>1, <2>2, <2>3, <2>4, <2>5, <2>6 DEF SandboxInv
<1>12. ASSUME NEW r \in Runs, RunBash(r) PROVE SandboxInv'
  <2>1. SandboxTypes'
    BY <1>a, <1>12 DEF RunBash, Go, Lives, machine, own, SandboxTypes, Stages, ChildAt
  <2>2. ChildAt'
    BY <1>a, <1>12 DEF RunBash, Go, Lives, machine, own, SandboxTypes, ChildAt, MembersRun
  <2>3. MembersRun'
    BY <1>a, <1>12 DEF RunBash, Go, Lives, machine, own, SandboxTypes, ChildAt, MembersRun
  <2>4. AloneUnhurt'
    <3>1. /\ at[r] \notin {"idle", "done"} /\ UNCHANGED <<machine, alone>> /\ path \subseteq path'
          /\ \A q \in Runs \ {r} : at'[q] = at[q] /\ sourced'[q] = sourced[q]
          /\ \A q \in Runs \ {r} : q \notin members => child'[q] = child[q]
      BY <1>a, <1>12 DEF RunBash, Go, Lives, machine, own, SandboxTypes, ChildAt
    <3>2. r \in alone => Unhurt(r)'
      BY <1>a, <1>12 DEF RunBash, Go, Lives, machine, own, SandboxTypes, ChildAt, MembersRun, AloneUnhurt, Unhurt
    <3> QED BY <3>1, <3>2, OthersUnhurt
  <2>5. OutputsKept'
    BY <1>a, <1>12 DEF RunBash, Go, Lives, machine, own, SandboxTypes, ChildAt, MembersRun, OutputsKept
  <2>6. GroupHeld'
    BY <1>a, <1>12 DEF RunBash, Go, Lives, machine, own, SandboxTypes, ChildAt, MembersRun, AloneUnhurt, Unhurt, GroupHeld, Holding, Underway
  <2> QED BY <2>1, <2>2, <2>3, <2>4, <2>5, <2>6 DEF SandboxInv
<1>13. ASSUME NEW r \in Runs, BashEnds(r) PROVE SandboxInv'
  <2>1. SandboxTypes'
    BY <1>a, <1>13 DEF BashEnds, Go, Lives, Exit, Wrote, machine, own, SandboxTypes, Stages, ChildAt
  <2>2. ChildAt'
    BY <1>a, <1>13 DEF BashEnds, Go, Lives, Exit, Wrote, machine, own, SandboxTypes, ChildAt, MembersRun
  <2>3. MembersRun'
    BY <1>a, <1>13 DEF BashEnds, Go, Lives, Exit, Wrote, machine, own, SandboxTypes, ChildAt, MembersRun
  <2>4. AloneUnhurt'
    <3>1. /\ at[r] \notin {"idle", "done"} /\ UNCHANGED <<machine, alone>> /\ path \subseteq path'
          /\ \A q \in Runs \ {r} : at'[q] = at[q] /\ sourced'[q] = sourced[q]
          /\ \A q \in Runs \ {r} : q \notin members => child'[q] = child[q]
      BY <1>a, <1>13 DEF BashEnds, Go, Lives, Exit, Wrote, machine, own, SandboxTypes, ChildAt
    <3>2. r \in alone => Unhurt(r)'
      BY <1>a, <1>13 DEF BashEnds, Go, Lives, Exit, Wrote, machine, own, SandboxTypes, ChildAt, MembersRun, AloneUnhurt, Unhurt
    <3> QED BY <3>1, <3>2, OthersUnhurt
  <2>5. OutputsKept'
    BY <1>a, <1>13 DEF BashEnds, Go, Lives, Exit, Wrote, machine, own, SandboxTypes, ChildAt, MembersRun, OutputsKept
  <2>6. GroupHeld'
    BY <1>a, <1>13 DEF BashEnds, Go, Lives, Exit, Wrote, machine, own, SandboxTypes, ChildAt, MembersRun, AloneUnhurt, Unhurt, GroupHeld, Holding, Underway
  <2> QED BY <2>1, <2>2, <2>3, <2>4, <2>5, <2>6 DEF SandboxInv
<1>14. ASSUME NEW r \in Runs, WaitForChild(r) PROVE SandboxInv'
  <2>1. SandboxTypes'
    BY <1>a, <1>14 DEF WaitForChild, Go, machine, own, SandboxTypes, Stages, ChildAt
  <2>2. ChildAt'
    BY <1>a, <1>14 DEF WaitForChild, Go, machine, own, SandboxTypes, ChildAt, MembersRun
  <2>3. MembersRun'
    BY <1>a, <1>14 DEF WaitForChild, Go, machine, own, SandboxTypes, ChildAt, MembersRun
  <2>4. AloneUnhurt'
    <3>1. /\ at[r] \notin {"idle", "done"} /\ UNCHANGED <<machine, alone>> /\ path \subseteq path'
          /\ \A q \in Runs \ {r} : at'[q] = at[q] /\ sourced'[q] = sourced[q]
          /\ \A q \in Runs \ {r} : q \notin members => child'[q] = child[q]
      BY <1>a, <1>14 DEF WaitForChild, Go, machine, own, SandboxTypes, ChildAt
    <3>2. r \in alone => Unhurt(r)'
      BY <1>a, <1>14 DEF WaitForChild, Go, machine, own, SandboxTypes, ChildAt, MembersRun, AloneUnhurt, Unhurt
    <3> QED BY <3>1, <3>2, OthersUnhurt
  <2>5. OutputsKept'
    BY <1>a, <1>14 DEF WaitForChild, Go, machine, own, SandboxTypes, ChildAt, MembersRun, OutputsKept
  <2>6. GroupHeld'
    BY <1>a, <1>14 DEF WaitForChild, Go, machine, own, SandboxTypes, ChildAt, MembersRun, AloneUnhurt, Unhurt, GroupHeld, Holding, Underway
  <2> QED BY <2>1, <2>2, <2>3, <2>4, <2>5, <2>6 DEF SandboxInv
<1>15. ASSUME NEW r \in Runs, CleanupGroup(r) PROVE SandboxInv'
  <2>0. r \in alone => members = {}
    <3>1. at[r] \in {"setup", "cleanup"}
      BY <1>15 DEF CleanupGroup
    <3> QED BY <1>a, <3>1 DEF SandboxTypes, MembersRun, AloneUnhurt
  <2>1. SandboxTypes'
    BY <1>a, <1>15 DEF CleanupGroup, Go, machine, own, SandboxTypes, Stages, ChildAt
  <2>2. ChildAt'
    BY <1>a, <1>15 DEF CleanupGroup, Go, machine, own, SandboxTypes, ChildAt, MembersRun
  <2>3. MembersRun'
    BY <1>a, <1>15 DEF CleanupGroup, Go, machine, own, SandboxTypes, ChildAt, MembersRun
  <2>4. AloneUnhurt'
    <3>1. /\ at[r] \notin {"idle", "done"} /\ UNCHANGED <<machine, alone>> /\ path \subseteq path'
          /\ \A q \in Runs \ {r} : at'[q] = at[q] /\ sourced'[q] = sourced[q]
          /\ \A q \in Runs \ {r} : q \notin members => child'[q] = child[q]
      BY <1>a, <1>15 DEF CleanupGroup, Go, machine, own, SandboxTypes, ChildAt
    <3>2. r \in alone => Unhurt(r)'
      BY <1>a, <1>15 DEF CleanupGroup, Go, machine, own, SandboxTypes, ChildAt, MembersRun, AloneUnhurt, Unhurt
    <3> QED BY <3>1, <3>2, OthersUnhurt
  <2>5. OutputsKept'
    BY <1>a, <1>15 DEF CleanupGroup, Go, machine, own, SandboxTypes, ChildAt, MembersRun, OutputsKept
  <2>6. GroupHeld'
    BY <1>a, <1>15, <2>0 DEF CleanupGroup, Go, machine, own, SandboxTypes, ChildAt, MembersRun, AloneUnhurt, Unhurt, GroupHeld, Holding, Underway
  <2> QED BY <2>1, <2>2, <2>3, <2>4, <2>5, <2>6 DEF SandboxInv
<1>16. ASSUME NEW r \in Runs, Result(r) PROVE SandboxInv'
  <2>0. /\ at[r] = "result"
        /\ \/ child[r] \in {"killed", "exit_1"} /\ at' = [at EXCEPT ![r] = "done"]
                 /\ \E what \in {"killed", "failed"} : outcome' = [outcome EXCEPT ![r] = what]
           \/ child[r] = "exit_0" /\ at' = [at EXCEPT ![r] = "collect"] /\ UNCHANGED outcome
        /\ UNCHANGED <<machine, roots, group, members, prelude, path, child, sourced, written, alone, swept>>
    <3>1. at[r] = "result" /\ child[r] \in {"killed", "exit_0", "exit_1"}
      BY <1>a, <1>16 DEF Result, ChildAt
    <3>2. CASE child[r] = "killed"
      BY <1>16, <3>1, <3>2 DEF Result, Go, Answer
    <3>3. CASE child[r] = "exit_1"
      BY <1>16, <3>1, <3>3 DEF Result, Go, Answer
    <3>4. CASE child[r] = "exit_0"
      BY <1>16, <3>1, <3>4 DEF Result, Go, Answer
    <3> QED BY <3>1, <3>2, <3>3, <3>4
  <2>1. SandboxTypes'
    BY <1>a, <2>0 DEF machine, SandboxTypes, Stages, ChildAt
  <2>2. ChildAt'
    BY <1>a, <2>0 DEF machine, SandboxTypes, ChildAt, MembersRun
  <2>3. MembersRun'
    BY <1>a, <2>0 DEF machine, SandboxTypes, ChildAt, MembersRun
  <2>4. AloneUnhurt'
    <3>1. /\ at[r] \notin {"idle", "done"} /\ UNCHANGED <<machine, alone>> /\ path \subseteq path'
          /\ \A q \in Runs \ {r} : at'[q] = at[q] /\ sourced'[q] = sourced[q]
          /\ \A q \in Runs \ {r} : q \notin members => child'[q] = child[q]
      BY <1>a, <2>0 DEF machine, SandboxTypes, ChildAt
    <3>2. r \in alone => Unhurt(r)'
      BY <1>a, <2>0 DEF machine, SandboxTypes, ChildAt, MembersRun, AloneUnhurt, Unhurt
    <3> QED BY <3>1, <3>2, OthersUnhurt
  <2>5. OutputsKept'
    BY <1>a, <2>0 DEF machine, SandboxTypes, ChildAt, MembersRun, OutputsKept
  <2>6. GroupHeld'
    BY <1>a, <2>0 DEF machine, SandboxTypes, ChildAt, MembersRun, AloneUnhurt, Unhurt, GroupHeld, Holding, Underway
  <2> QED BY <2>1, <2>2, <2>3, <2>4, <2>5, <2>6 DEF SandboxInv
<1>17. ASSUME NEW r \in Runs, CollectOutputs(r) PROVE SandboxInv'
  <2>1. SandboxTypes'
    BY <1>a, <1>17 DEF CollectOutputs, Go, Answer, machine, own, SandboxTypes, Stages, ChildAt
  <2>2. ChildAt'
    BY <1>a, <1>17 DEF CollectOutputs, Go, Answer, machine, own, SandboxTypes, ChildAt, MembersRun
  <2>3. MembersRun'
    BY <1>a, <1>17 DEF CollectOutputs, Go, Answer, machine, own, SandboxTypes, ChildAt, MembersRun
  <2>4. AloneUnhurt'
    <3>1. /\ at[r] \notin {"idle", "done"} /\ UNCHANGED <<machine, alone>> /\ path \subseteq path'
          /\ \A q \in Runs \ {r} : at'[q] = at[q] /\ sourced'[q] = sourced[q]
          /\ \A q \in Runs \ {r} : q \notin members => child'[q] = child[q]
      BY <1>a, <1>17 DEF CollectOutputs, Go, Answer, machine, own, SandboxTypes, ChildAt
    <3>2. r \in alone => Unhurt(r)'
      BY <1>a, <1>17 DEF CollectOutputs, Go, Answer, machine, own, SandboxTypes, ChildAt, MembersRun, AloneUnhurt, Unhurt
    <3> QED BY <3>1, <3>2, OthersUnhurt
  <2>5. OutputsKept'
    BY <1>a, <1>17 DEF CollectOutputs, Go, Answer, machine, own, SandboxTypes, ChildAt, MembersRun, OutputsKept
  <2>6. GroupHeld'
    BY <1>a, <1>17 DEF CollectOutputs, Go, Answer, machine, own, SandboxTypes, ChildAt, MembersRun, AloneUnhurt, Unhurt, GroupHeld, Holding, Underway
  <2> QED BY <2>1, <2>2, <2>3, <2>4, <2>5, <2>6 DEF SandboxInv
<1>18. ASSUME NEW r \in Runs, RemoveSandbox(r) PROVE SandboxInv'
  <2>1. SandboxTypes'
    BY <1>a, <1>18 DEF RemoveSandbox, Go, Answer, machine, own, SandboxTypes, Stages, ChildAt
  <2>2. ChildAt'
    BY <1>a, <1>18 DEF RemoveSandbox, Go, Answer, machine, own, SandboxTypes, ChildAt, MembersRun
  <2>3. MembersRun'
    BY <1>a, <1>18 DEF RemoveSandbox, Go, Answer, machine, own, SandboxTypes, ChildAt, MembersRun
  <2>4. AloneUnhurt'
    <3>1. /\ at[r] \notin {"idle", "done"} /\ UNCHANGED <<machine, alone>> /\ path \subseteq path'
          /\ \A q \in Runs \ {r} : at'[q] = at[q] /\ sourced'[q] = sourced[q]
          /\ \A q \in Runs \ {r} : q \notin members => child'[q] = child[q]
      BY <1>a, <1>18 DEF RemoveSandbox, Go, Answer, machine, own, SandboxTypes, ChildAt
    <3>2. r \in alone => Unhurt(r)'
      BY <1>a, <1>18 DEF RemoveSandbox, Go, Answer, machine, own, SandboxTypes, ChildAt, MembersRun, AloneUnhurt, Unhurt
    <3> QED BY <3>1, <3>2, OthersUnhurt
  <2>5. OutputsKept'
    BY <1>a, <1>18 DEF RemoveSandbox, Go, Answer, machine, own, SandboxTypes, ChildAt, MembersRun, OutputsKept
  <2>6. GroupHeld'
    BY <1>a, <1>18 DEF RemoveSandbox, Go, Answer, machine, own, SandboxTypes, ChildAt, MembersRun, AloneUnhurt, Unhurt, GroupHeld, Holding, Underway
  <2> QED BY <2>1, <2>2, <2>3, <2>4, <2>5, <2>6 DEF SandboxInv
<1>19. CASE Sweep
  BY <1>a, <1>19 DEF Sweep, machine, SandboxInv, SandboxTypes, ChildAt, MembersRun, AloneUnhurt, Unhurt,
     OutputsKept, GroupHeld
<1>20. CASE UNCHANGED sandboxVars
  BY <1>a, <1>20 DEF sandboxVars, SandboxInv, SandboxTypes, ChildAt, MembersRun, AloneUnhurt, Unhurt,
     OutputsKept, GroupHeld
<1> QED
  BY <1>1, <1>2, <1>3, <1>4, <1>5, <1>6, <1>7, <1>8, <1>9, <1>10, <1>11, <1>12, <1>13, <1>14, <1>15, <1>16, <1>17, <1>18, <1>19, <1>20
     DEF SandboxStep, RunStep, NamespaceStep, Bubblewrap, SandboxExec, Basic

(* Executions that do not overlap do not disturb one another, whatever     *)
(* ends them.                                                              *)
THEOREM SandboxesAreSound ==
    ASSUME Runs # {}
    PROVE  SandboxesInit /\ [][SandboxStep]_sandboxVars => []SandboxesSound
<1>1. SandboxInv => SandboxesSound
  <2> SUFFICES ASSUME SandboxInv PROVE SandboxesSound
    OBVIOUS
  <2>1. AloneUndisturbed
    BY DEF SandboxInv, SandboxTypes, AloneUnhurt, Unhurt, MembersRun, AloneUndisturbed, Underway
  <2>2. OkMeansOutputs
    BY DEF SandboxInv, OutputsKept, OkMeansOutputs
  <2>3. GroupRemoved
    BY DEF SandboxInv, SandboxTypes, GroupHeld, Holding, GroupRemoved, SandboxesDone
  <2> QED BY <2>1, <2>2, <2>3 DEF SandboxesSound
<1>2. SandboxInv /\ [SandboxStep]_sandboxVars => SandboxInv'
  BY SandboxesInductive
<1> QED BY <1>1, <1>2, SandboxesInitially, PTL

-----------------------------------------------------------------------------
(* The task itself is in its closure, which has the dependencies of all    *)
(* that is in it and is within every set like that.                        *)
LEMMA ClosureSteps ==
    ASSUME NEW r, \A k \in DOMAIN r : r[k] \subseteq DOMAIN r, NEW k \in DOMAIN r
    PROVE  /\ k \in Closure(r, k) /\ Closure(r, k) \subseteq DOMAIN r /\ Closed(r, Closure(r, k))
           /\ \A S \in SUBSET DOMAIN r : k \in S /\ Closed(r, S) => Closure(r, k) \subseteq S
BY DEF Closure, Closed

(* It is the task and the closures of its dependencies.                    *)
LEMMA ClosureOf ==
    ASSUME NEW r, \A k \in DOMAIN r : r[k] \subseteq DOMAIN r, NEW k \in DOMAIN r
    PROVE  Closure(r, k) = {k} \cup UNION {Closure(r, d) : d \in r[k]}
<1> DEFINE S == {k} \cup UNION {Closure(r, d) : d \in r[k]}
<1>1. ASSUME NEW d \in r[k]
      PROVE  d \in Closure(r, d) /\ Closure(r, d) \subseteq DOMAIN r /\ Closed(r, Closure(r, d))
             /\ Closure(r, d) \subseteq Closure(r, k)
  <2>1. d \in DOMAIN r /\ d \in Closure(r, k)
    BY ClosureSteps DEF Closed
  <2>2. Closure(r, k) \in SUBSET DOMAIN r /\ Closed(r, Closure(r, k))
    BY ClosureSteps
  <2> QED BY <2>1, <2>2, ClosureSteps
<1>2. k \in S /\ S \subseteq Closure(r, k) /\ S \in SUBSET DOMAIN r
  BY <1>1, ClosureSteps
<1>3. Closed(r, S)
  BY <1>1 DEF Closed
<1>4. Closure(r, k) \subseteq S
  <2> HIDE DEF S
  <2> QED BY <1>2, <1>3, ClosureSteps
<1> QED BY <1>2, <1>4

-----------------------------------------------------------------------------
(* Each signature is made of the task and of the signatures of its         *)
(* dependencies in a relation.                                             *)
Signed(known, r, i) ==
    \A k \in DOMAIN known :
        /\ k \in DOMAIN r /\ r[k] \subseteq DOMAIN known
        /\ known[k].key = k /\ known[k].own = i[k]
        /\ known[k].below = {known[d] : d \in r[k]}
        /\ known[k] = [key |-> k, own |-> i[k], below |-> {known[d] : d \in r[k]}]

(* The signatures tell a change of what a task is made from.               *)
TellChanges ==
    \A k \in DOMAIN signatures \cap DOMAIN previous :
        signatures[k] = previous[k] <=> SameAsSaved(k)

(* What is still to be processed has each task once, and after those of    *)
(* its dependencies that are still to be processed.                        *)
OrderLeft ==
    /\ todo_order \in Seq(DOMAIN relation)
    /\ \A i, j \in DOMAIN todo_order : i # j => todo_order[i] # todo_order[j]
    /\ \A i, j \in DOMAIN todo_order : todo_order[j] \in relation[todo_order[i]] => j < i

PlanTypes ==
    /\ PlanTypeOK
    /\ plan # "none" => DOMAIN signatures = DOMAIN relation \ ToSet(todo_order)
    /\ plan = "saving" => todo_order = << >> /\ DOMAIN verdict = DOMAIN relation
    /\ plan = "none" => signatures = NoSignatures /\ previous = NoSignatures /\ todo_order = << >>

(* What was saved last was computed from what is remembered of it.         *)
SavedSigned ==
    /\ saved.file = "whole" =>
           Signed(saved.signatures, basis.relation, basis.inputs)
           /\ DOMAIN saved.signatures = DOMAIN basis.relation
    /\ previous # NoSignatures =>
           Signed(previous, basis.relation, basis.inputs) /\ DOMAIN previous = DOMAIN basis.relation

PlanInv ==
    /\ PlanTypes
    /\ plan # "none" => OrderLeft /\ Signed(signatures, relation, inputs) /\ TellChanges
    /\ SavedSigned
    /\ UnchangedIsUnchanged

(* Before any plan the invariant of the plans holds.                       *)
LEMMA PlanInitially == PlanInit => PlanInv
<1> SUFFICES ASSUME PlanInit PROVE PlanInv
  OBVIOUS
<1>1. DOMAIN NoSignatures = {}
  BY DEF NoSignatures
<1> QED BY <1>1 DEF PlanInit, PlanInv, PlanTypes, PlanTypeOK, SavedSigned, UnchangedIsUnchanged

(* What a task is made from is the same if it has the same dependencies    *)
(* and inputs, and so have they.                                           *)
LEMMA SameIfBelowSame ==
    ASSUME relation \in Relations, NEW k \in DOMAIN relation
    PROVE  SameAsSaved(k) <=>
               /\ k \in DOMAIN basis.relation /\ relation[k] = basis.relation[k]
               /\ inputs[k] = basis.inputs[k]
               /\ \A d \in relation[k] : SameAsSaved(d)
BY RelationsOnKeys, ClosureOf DEF SameAsSaved

(* Computing signatures in order, saving them and editing recipes keep it. *)
LEMMA PlanInductive == PlanInv /\ [PlanStep]_planVars => PlanInv'
<1> SUFFICES ASSUME PlanInv, [PlanStep]_planVars PROVE PlanInv'
  OBVIOUS
<1>a. /\ PlanTypes /\ PlanTypeOK /\ SavedSigned /\ UnchangedIsUnchanged
      /\ DOMAIN NoSignatures = {} /\ relation \in Relations
      /\ DOMAIN relation \subseteq TaskKeys /\ \A k \in DOMAIN relation : relation[k] \subseteq DOMAIN relation
  BY RelationsOnKeys DEF PlanInv, PlanTypes, PlanTypeOK, NoSignatures
<1>1. CASE Edit
  <2>1. PlanTypes'
    BY <1>a, <1>1 DEF Edit, PlanTypes, PlanTypeOK
  <2> QED BY <1>a, <1>1, <2>1 DEF Edit, PlanInv, SavedSigned, UnchangedIsUnchanged
<1>2. CASE Load
  <2>1. /\ plan = "none" /\ plan' = "computing" /\ todo_order' \in PlanOrders(relation)
        /\ previous' = IF saved.file = "whole" THEN saved.signatures ELSE NoSignatures
        /\ UNCHANGED <<relation, inputs, edits, signatures, saved, basis, verdict>>
    BY <1>2 DEF Load
  <2>2. IsFiniteSet(DOMAIN relation) /\ todo_order' \in SetToSeqs(DOMAIN relation)
    BY <1>a, <2>1, KeysFinite, FS_Subset DEF PlanOrders
  <2>3. /\ todo_order' \in Seq(DOMAIN relation) /\ ToSet(todo_order') = DOMAIN relation
        /\ \A i, j \in DOMAIN todo_order' : i # j => todo_order'[i] # todo_order'[j]
    BY <2>2, OrderCovers
  <2>4. OrderLeft'
    BY <2>1, <2>3 DEF OrderLeft, PlanOrders
  <2>5. signatures = NoSignatures
    BY <1>a, <2>1 DEF PlanTypes
  <2>6. PlanTypes'
    BY <1>a, <2>1, <2>3, <2>5 DEF PlanTypes, PlanTypeOK
  <2>7. Signed(signatures, relation, inputs)' /\ TellChanges'
    BY <1>a, <2>1, <2>5 DEF Signed, TellChanges
  <2>8. SavedSigned'
    BY <1>a, <2>1 DEF SavedSigned
  <2> QED BY <2>1, <2>4, <2>6, <2>7, <2>8 DEF PlanInv, UnchangedIsUnchanged
<1>3. CASE ComputeSignature
  <2> DEFINE k == Head(todo_order)
  <2>1. /\ plan = "computing" /\ todo_order # << >> /\ todo_order' = Tail(todo_order)
        /\ signatures' = [j \in DOMAIN signatures \cup {k} |->
                             IF j = k THEN SignatureOf(k, signatures) ELSE signatures[j]]
        /\ UNCHANGED <<relation, inputs, edits, plan, previous, saved, basis, verdict>>
    BY <1>3 DEF ComputeSignature
  <2>2. OrderLeft /\ Signed(signatures, relation, inputs) /\ TellChanges
    BY <2>1 DEF PlanInv
  <2>3. /\ k \in DOMAIN relation /\ k \in ToSet(todo_order) /\ todo_order' \in Seq(DOMAIN relation)
        /\ ToSet(todo_order') = ToSet(todo_order) \ {k}
        /\ \A i, j \in DOMAIN todo_order' : i # j => todo_order'[i] # todo_order'[j]
        /\ \A i \in DOMAIN todo_order' : i + 1 \in DOMAIN todo_order /\ todo_order'[i] = todo_order[i + 1]
    BY <2>1, <2>2, FirstIsGone DEF OrderLeft
  <2>4. DOMAIN signatures = DOMAIN relation \ ToSet(todo_order) /\ k \notin DOMAIN signatures
    BY <1>a, <2>1, <2>3 DEF PlanTypes
  <2>5. OrderLeft'
    <3>1. todo_order' \in Seq(DOMAIN relation) /\ DOMAIN todo_order' = 1 .. Len(todo_order')
          /\ Len(todo_order') \in Nat
      BY <2>3
    <3>2. ASSUME NEW i \in DOMAIN todo_order', NEW j \in DOMAIN todo_order',
                 todo_order'[j] \in relation[todo_order'[i]]
          PROVE  j < i
      <4>1. i + 1 \in DOMAIN todo_order /\ j + 1 \in DOMAIN todo_order
            /\ todo_order[j + 1] \in relation[todo_order[i + 1]]
        BY <2>3, <3>2
      <4>2. j + 1 < i + 1
        BY <2>2, <4>1 DEF OrderLeft
      <4> QED BY <3>1, <4>2
    <3> QED BY <2>1, <2>3, <3>2 DEF OrderLeft
  <2>6. relation[k] \subseteq DOMAIN signatures
    <3>1. SUFFICES ASSUME NEW d \in relation[k], d \in ToSet(todo_order) PROVE FALSE
      BY <1>a, <2>3, <2>4
    <3>2. PICK j \in DOMAIN todo_order : todo_order[j] = d
      BY <3>1 DEF ToSet
    <3>3. 1 \in DOMAIN todo_order /\ todo_order[1] = k /\ DOMAIN todo_order = 1 .. Len(todo_order)
      BY <2>1, <2>2 DEF OrderLeft
    <3>4. j < 1
      BY <2>2, <3>1, <3>2, <3>3 DEF OrderLeft
    <3> QED BY <3>2, <3>3, <3>4
  <2> HIDE DEF k
  <2>7. /\ DOMAIN signatures' = DOMAIN signatures \cup {k}
        /\ \A j \in DOMAIN signatures : signatures'[j] = signatures[j]
        /\ signatures'[k] = [key |-> k, own |-> inputs[k], below |-> {signatures[d] : d \in relation[k]}]
    <3>1. relation[k] \cap DOMAIN signatures = relation[k]
      BY <2>6
    <3> QED BY <2>1, <2>4, <3>1 DEF SignatureOf
  <2>8. {signatures'[d] : d \in relation[k]} = {signatures[d] : d \in relation[k]}
    BY <2>6, <2>7
  <2>9. Signed(signatures, relation, inputs)'
    <3>1. SUFFICES ASSUME NEW j \in DOMAIN signatures'
                   PROVE  /\ j \in DOMAIN relation /\ relation[j] \subseteq DOMAIN signatures'
                          /\ signatures'[j].key = j /\ signatures'[j].own = inputs[j]
                          /\ signatures'[j].below = {signatures'[d] : d \in relation[j]}
                          /\ signatures'[j] = [key |-> j, own |-> inputs[j],
                                               below |-> {signatures'[d] : d \in relation[j]}]
      BY <2>1 DEF Signed
    <3>2. CASE j = k
      BY <2>3, <2>6, <2>7, <2>8, <3>2
    <3>3. CASE j # k
      <4>1. j \in DOMAIN signatures /\ relation[j] \subseteq DOMAIN signatures
            /\ signatures'[j] = signatures[j]
        BY <2>2, <2>7, <3>3 DEF Signed
      <4>2. {signatures'[d] : d \in relation[j]} = {signatures[d] : d \in relation[j]}
        BY <2>7, <4>1
      <4> QED BY <2>2, <2>7, <4>1, <4>2 DEF Signed
    <3> QED BY <3>2, <3>3
  <2>10. \A j : SameAsSaved(j)' <=> SameAsSaved(j)
    BY <2>1 DEF SameAsSaved
  <2>11. ASSUME k \in DOMAIN previous PROVE signatures'[k] = previous[k] <=> SameAsSaved(k)
    <3> DEFINE before == basis.relation
    <3>1. Signed(previous, before, basis.inputs) /\ DOMAIN previous = DOMAIN before
      BY <1>a, <2>11 DEF SavedSigned
    <3>2. \A d \in DOMAIN signatures \cap DOMAIN previous : signatures[d] = previous[d] <=> SameAsSaved(d)
      BY <2>2 DEF TellChanges
    <3>3. SameAsSaved(k) <=>
               /\ k \in DOMAIN before /\ relation[k] = before[k]
               /\ inputs[k] = basis.inputs[k]
               /\ \A d \in relation[k] : SameAsSaved(d)
      BY <1>a, <2>3, SameIfBelowSame
    <3> HIDE DEF before
    <3>4. /\ before[k] \subseteq DOMAIN previous
          /\ previous[k].key = k /\ previous[k].own = basis.inputs[k]
          /\ previous[k].below = {previous[d] : d \in before[k]}
          /\ previous[k] = [key |-> k, own |-> basis.inputs[k], below |-> {previous[d] : d \in before[k]}]
      BY <2>11, <3>1 DEF Signed
    <3>5. ASSUME signatures'[k] = previous[k] PROVE SameAsSaved(k)
      <4>1. inputs[k] = basis.inputs[k]
            /\ {signatures[d] : d \in relation[k]} = {previous[d] : d \in before[k]}
        BY <2>7, <3>4, <3>5
      <4>2. ASSUME NEW d \in relation[k] PROVE d \in before[k] /\ signatures[d] = previous[d]
        <5>1. PICK e \in before[k] : signatures[d] = previous[e]
          BY <4>1
        <5>2. signatures[d].key = d /\ previous[e].key = e
          BY <2>2, <2>6, <3>1, <3>4 DEF Signed
        <5> QED BY <5>1, <5>2
      <4>3. ASSUME NEW e \in before[k] PROVE e \in relation[k]
        <5>1. PICK d \in relation[k] : signatures[d] = previous[e]
          BY <4>1
        <5>2. signatures[d].key = d /\ previous[e].key = e
          BY <2>2, <2>6, <3>1, <3>4 DEF Signed
        <5> QED BY <5>1, <5>2
      <4>4. relation[k] = before[k]
        BY <4>2, <4>3
      <4>5. \A d \in relation[k] : SameAsSaved(d)
        BY <2>6, <3>2, <3>4, <4>2
      <4> QED BY <2>11, <3>1, <3>3, <4>1, <4>4, <4>5
    <3>6. ASSUME SameAsSaved(k) PROVE signatures'[k] = previous[k]
      <4>1. relation[k] = before[k] /\ inputs[k] = basis.inputs[k] /\ \A d \in relation[k] : SameAsSaved(d)
        BY <3>3, <3>6
      <4>2. \A d \in relation[k] : signatures[d] = previous[d]
        BY <2>6, <3>2, <3>4, <4>1
      <4>3. {signatures[d] : d \in relation[k]} = {previous[d] : d \in before[k]}
        BY <4>1, <4>2
      <4> QED BY <2>7, <3>4, <4>1, <4>3
    <3> QED BY <3>5, <3>6
  <2>12. TellChanges'
    BY <2>1, <2>2, <2>7, <2>10, <2>11 DEF TellChanges
  <2>13. PlanTypes'
    BY <1>a, <2>1, <2>3, <2>4, <2>7 DEF PlanTypes, PlanTypeOK
  <2>14. SavedSigned'
    BY <1>a, <2>1 DEF SavedSigned
  <2> QED BY <2>1, <2>5, <2>9, <2>12, <2>13, <2>14 DEF PlanInv, UnchangedIsUnchanged
<1>4. CASE Analyze
  <2>1. /\ plan = "computing" /\ todo_order = << >> /\ plan' = "saving"
        /\ verdict' = [k \in DOMAIN relation |-> Verdict(k)]
        /\ UNCHANGED <<relation, inputs, edits, todo_order, signatures, previous, saved, basis>>
    BY <1>4 DEF Analyze
  <2>2. OrderLeft /\ Signed(signatures, relation, inputs) /\ TellChanges
    BY <2>1 DEF PlanInv
  <2>3. ToSet(todo_order) = {} /\ DOMAIN signatures = DOMAIN relation
    <3>1. ToSet(<< >>) = {}
      BY DEF ToSet
    <3> QED BY <1>a, <2>1, <3>1 DEF PlanTypes
  <2>4. PlanTypes'
    BY <1>a, <2>1, <2>3 DEF PlanTypes, PlanTypeOK
  <2>5. \A j : SameAsSaved(j)' <=> SameAsSaved(j)
    BY <2>1 DEF SameAsSaved
  <2>6. TellChanges' /\ OrderLeft' /\ Signed(signatures, relation, inputs)'
    BY <2>1, <2>2, <2>5 DEF TellChanges, OrderLeft, Signed
  <2>7. UnchangedIsUnchanged'
    <3>1. SUFFICES ASSUME NEW k \in DOMAIN relation
                   PROVE  /\ Verdict(k) = "new" => k \notin DOMAIN basis.relation \/ previous = NoSignatures
                          /\ Verdict(k) = "unchanged" <=> k \in DOMAIN previous /\ SameAsSaved(k)
      BY <2>1, <2>5 DEF UnchangedIsUnchanged
    <3>2. k \in DOMAIN previous => (signatures[k] = previous[k] <=> SameAsSaved(k))
      BY <2>2, <2>3 DEF TellChanges
    <3>3. previous # NoSignatures => DOMAIN previous = DOMAIN basis.relation
      BY <1>a DEF SavedSigned
    <3> QED BY <3>2, <3>3 DEF Verdict
  <2>8. SavedSigned'
    BY <1>a, <2>1 DEF SavedSigned
  <2> QED BY <2>4, <2>6, <2>7, <2>8 DEF PlanInv
<1>5. CASE SaveTruncate
  <2>1. /\ plan = "saving" /\ saved' = [file |-> "torn", signatures |-> NoSignatures]
        /\ UNCHANGED <<relation, inputs, edits, plan, todo_order, signatures, previous, basis, verdict>>
    BY <1>5 DEF SaveTruncate
  <2>2. PlanTypes'
    BY <1>a, <2>1 DEF PlanTypes, PlanTypeOK
  <2>3. \A j : SameAsSaved(j)' <=> SameAsSaved(j)
    BY <2>1 DEF SameAsSaved
  <2>4. TellChanges' /\ OrderLeft' /\ Signed(signatures, relation, inputs)' /\ UnchangedIsUnchanged'
    BY <2>1, <2>3 DEF PlanInv, TellChanges, OrderLeft, Signed, UnchangedIsUnchanged
  <2>5. SavedSigned'
    BY <1>a, <2>1 DEF SavedSigned
  <2> QED BY <2>2, <2>4, <2>5 DEF PlanInv
<1>6. CASE SaveWrite
  <2>1. /\ plan = "saving" /\ saved' = [file |-> "whole", signatures |-> signatures]
        /\ basis' = [relation |-> relation, inputs |-> inputs] /\ EndOfPlan
        /\ UNCHANGED <<relation, inputs, edits, verdict>>
    BY <1>6 DEF SaveWrite
  <2>2. PlanTypes'
    BY <1>a, <2>1 DEF EndOfPlan, PlanTypes, PlanTypeOK
  <2>3. DOMAIN signatures = DOMAIN relation
    <3>1. ToSet(<< >>) = {}
      BY DEF ToSet
    <3> QED BY <1>a, <2>1, <3>1 DEF PlanTypes
  <2>4. SavedSigned'
    BY <2>1, <2>3 DEF PlanInv, SavedSigned, EndOfPlan
  <2> QED BY <2>1, <2>2, <2>4 DEF PlanInv, EndOfPlan, UnchangedIsUnchanged
<1>7. CASE PlanKilled
  <2>1. EndOfPlan /\ verdict' = NoSignatures /\ UNCHANGED <<relation, inputs, edits, saved, basis>>
    BY <1>7 DEF PlanKilled
  <2>2. PlanTypes'
    BY <1>a, <2>1 DEF EndOfPlan, PlanTypes, PlanTypeOK
  <2> QED BY <1>a, <2>1, <2>2 DEF EndOfPlan, PlanInv, SavedSigned, UnchangedIsUnchanged
<1>8. CASE UNCHANGED planVars
  <2>1. PlanTypes' /\ SavedSigned'
    BY <1>a, <1>8 DEF planVars, PlanTypes, PlanTypeOK, SavedSigned
  <2>2. \A j : SameAsSaved(j)' <=> SameAsSaved(j)
    BY <1>8 DEF planVars, SameAsSaved
  <2>3. UnchangedIsUnchanged'
    BY <1>a, <1>8, <2>2 DEF planVars, UnchangedIsUnchanged
  <2>4. ASSUME plan' # "none" PROVE OrderLeft' /\ Signed(signatures, relation, inputs)' /\ TellChanges'
    BY <1>8, <2>2, <2>4 DEF planVars, PlanInv, OrderLeft, Signed, TellChanges
  <2> QED BY <2>1, <2>3, <2>4 DEF PlanInv
<1> QED BY <1>1, <1>2, <1>3, <1>4, <1>5, <1>6, <1>7, <1>8 DEF PlanStep

(* A task is called unchanged exactly if nothing it is made from has       *)
(* changed since the last plan.                                            *)
THEOREM PlanIsSound == PlanInit /\ [][PlanStep]_planVars => []PlanSound
<1>1. PlanInv => PlanSound
  BY DEF PlanInv, PlanTypes, PlanSound
<1> QED BY <1>1, PlanInitially, PlanInductive, PTL

-----------------------------------------------------------------------------
(* ScriptExecution.                                                        *)

(* What the files of a directory can be.                                   *)
Contents == FileNames \cup {"none", "empty", "text"}
Kinds == {"absent", "file", "dir", "link"}
FileStates ==
    [ok : BOOLEAN, dirs : SUBSET Dirs, kind : [FilePaths -> Kinds],
     content : [FilePaths -> Contents], to : [FilePaths -> FilePaths]]

(* The path behind links is one of the paths.                              *)
LEMMA FollowTyped ==
    ASSUME NEW s \in FileStates, NEW p \in FilePaths
    PROVE  Follow(s, p) \in FilePaths /\ Real(s, p) \in FilePaths
<1>1. \A q \in FilePaths : Follow(s, q) \in FilePaths
  BY DEF Follow, FileStates
<1> QED BY <1>1 DEF Real

(* What is not a link is the path itself.                                  *)
LEMMA NotALink ==
    ASSUME NEW s, NEW p, ~ Is(s, p, {"link"})
    PROVE  Real(s, p) = p
BY DEF Real, Follow

(* The steps on files leave files: a failure,                              *)
LEMMA FailTyped ==
    ASSUME NEW s \in FileStates
    PROVE  Fail(s) \in FileStates /\ Fail(s).ok = FALSE
BY DEF Fail, FileStates

(* a file that is put in its place,                                        *)
LEMMA PutTyped ==
    ASSUME NEW s \in FileStates, NEW p \in FilePaths, NEW k \in Kinds, NEW c \in Contents
    PROVE  Put(s, p, k, c) \in FileStates /\ Put(s, p, k, c).ok = s.ok
BY DEF Put, FileStates

(* a link that points somewhere else,                                      *)
LEMMA LinkTyped ==
    ASSUME NEW s \in FileStates, NEW p \in FilePaths, NEW q \in FilePaths
    PROVE  [s EXCEPT !.to[p] = q] \in FileStates
BY DEF FileStates

(* a file that is deleted,                                                 *)
LEMMA DeleteTyped ==
    ASSUME NEW s \in FileStates, NEW p \in FilePaths
    PROVE  Delete(s, p) \in FileStates
BY PutTyped DEF Delete, Kinds, Contents

(* one that is written to,                                                 *)
LEMMA WriteTyped ==
    ASSUME NEW s \in FileStates, NEW p \in FilePaths, NEW c \in Contents
    PROVE  WriteTo(s, p, c) \in FileStates
<1>1. Real(s, p) \in FilePaths
  BY FollowTyped
<1>2. "file" \in Kinds
  BY DEF Kinds
<1>3. Put(s, Real(s, p), "file", c) \in FileStates /\ Fail(s) \in FileStates
  BY <1>1, <1>2, PutTyped, FailTyped
<1> QED BY <1>3 DEF WriteTo

(* create_dir_all does nothing for a directory that is there.              *)
LEMMA ParentThere ==
    ASSUME NEW s \in FileStates, NEW p, p[1] \in s.dirs
    PROVE  WithParent(s, p) = s
<1>1. s.dirs \cup {p[1]} = s.dirs
  OBVIOUS
<1> QED BY <1>1 DEF WithParent, FileStates

(* and a directory that is created with its parents.                       *)
LEMMA ParentTyped ==
    ASSUME NEW s \in FileStates, NEW p \in FilePaths
    PROVE  WithParent(s, p) \in FileStates
BY DEF WithParent, FileStates, FilePaths

(* mkdir -p leaves files.                                                  *)
LEMMA MakeDirTyped ==
    ASSUME NEW s \in FileStates, NEW p \in FilePaths
    PROVE  MakeDirAll(p, s) \in FileStates
<1> DEFINE t == WithParent(s, p)
<1>1. t \in FileStates
  BY ParentTyped
<1>2. "dir" \in Kinds /\ "none" \in Contents
  BY DEF Kinds, Contents
<1>3. Put(t, p, "dir", "none") \in FileStates /\ Fail(t) \in FileStates
  <2> HIDE DEF t
  <2> QED BY <1>1, <1>2, PutTyped, FailTyped
<1> QED BY <1>1, <1>3 DEF MakeDirAll

(* An environment over another one: its own values go first.               *)
LEMMA OverFacts ==
    ASSUME NEW f, NEW g
    PROVE  /\ DOMAIN Over(f, g) = DOMAIN f \cup DOMAIN g
           /\ \A x \in DOMAIN f : Over(f, g)[x] = f[x]
           /\ \A x \in DOMAIN g \ DOMAIN f : Over(f, g)[x] = g[x]
BY DEF Over

-----------------------------------------------------------------------------
(* Directly and in bash the same, one command at a time.                   *)
LEMMA SameTouch ==
    ASSUME NEW s \in FileStates, NEW p \in FilePaths, p[1] \in s.dirs
    PROVE  TouchPath(p, s) = ShellOn("touch", p, p, s) /\ TouchPath(p, s) \in FileStates
<1>1. WithParent(s, p) = s
  BY ParentThere
<1>2. TouchPath(p, s) = IF Exists(s, p) THEN s ELSE WriteTo(s, p, "empty")
  BY <1>1 DEF TouchPath
<1>3. WriteTo(s, p, "empty") \in FileStates
  BY WriteTyped DEF Contents
<1> QED BY <1>2, <1>3 DEF ShellOn

(* mkdir -p and bbdirs.                                                    *)
LEMMA SameMakeDir ==
    ASSUME NEW s \in FileStates, NEW p \in FilePaths, NEW c \in {"mkdir", "bbdirs"}
    PROVE  MakeDirAll(p, s) = ShellOn(c, p, p, s)
BY DEF ShellOn

(* cp and cp -r of something else into a directory that is there.          *)
LEMMA SameCopy ==
    ASSUME NEW s \in FileStates, NEW p \in FilePaths, NEW q \in FilePaths, NEW c \in {"cp", "cp_r"},
           q[1] \in s.dirs, Real(s, p) # Real(s, q)
    PROVE  /\ CopyPath(p, q, c = "cp_r", s) = ShellOn(c, p, q, s)
           /\ CopyPath(p, q, c = "cp_r", s) \in FileStates
<1> DEFINE recursive == c = "cp_r"
           content == s.content[Real(s, p)]
           result == IF recursive /\ IsDir(s, p) THEN MakeDirAll(q, s)
                     ELSE IF ~ Exists(s, p) \/ IsDir(s, p) THEN Fail(s)
                     ELSE WriteTo(s, q, content)
<1>1. WithParent(s, q) = s
  BY ParentThere
<1>2. CopyPath(p, q, recursive, s) = result
  BY <1>1 DEF CopyPath
<1>3. ShellOn(c, p, q, s) = result
  BY DEF ShellOn
<1>4. content \in Contents
  BY FollowTyped DEF FileStates
<1>5. result \in FileStates
  <2>1. WriteTo(s, q, content) \in FileStates
    <3> HIDE DEF content
    <3> QED BY <1>4, WriteTyped
  <2> QED BY <2>1, MakeDirTyped, FailTyped
<1> QED BY <1>2, <1>3, <1>5

(* mv into a directory that is there.                                      *)
LEMMA SameMove ==
    ASSUME NEW s \in FileStates, NEW p \in FilePaths, NEW q \in FilePaths, q[1] \in s.dirs
    PROVE  MovePath(p, q, s) = ShellOn("mv", p, q, s) /\ MovePath(p, q, s) \in FileStates
<1>1. WithParent(s, q) = s
  BY ParentThere
<1>2. MovePath(p, q, s) \in FileStates
  <2> DEFINE k == s.kind[p]
             c == s.content[p]
             u == s.to[p]
             t == [Put(s, q, k, c) EXCEPT !.to[q] = u]
  <2>1. k \in Kinds /\ c \in Contents /\ u \in FilePaths
    BY DEF FileStates
  <2>2. t \in FileStates
    <3> HIDE DEF k, c, u
    <3> QED BY <2>1, PutTyped, LinkTyped
  <2>3. Delete(t, p) \in FileStates
    <3> HIDE DEF t
    <3> QED BY <2>2, DeleteTyped
  <2> QED BY <1>1, <2>3, FailTyped DEF MovePath
<1>3. ShellOn("mv", p, q, s) = MovePath(p, q, s)
  BY DEF ShellOn
<1> QED BY <1>2, <1>3

(* rm, unless the path is a dangling link or the link of a directory.      *)
LEMMA SameRemove ==
    ASSUME NEW s \in FileStates, NEW p \in FilePaths, NEW c \in {"rm", "rm_r", "rm_f", "rm_rf"},
           ~ Dangling(s, p), ~ (Is(s, p, {"link"}) /\ IsDir(s, p))
    PROVE  /\ RemovePath(p, c \in {"rm_r", "rm_rf"}, c \in {"rm_f", "rm_rf"}, s) = ShellOn(c, p, p, s)
           /\ ShellOn(c, p, p, s) \in FileStates
<1> DEFINE force == c \in {"rm_f", "rm_rf"}
           recursive == c \in {"rm_r", "rm_rf"}
           result == IF Is(s, p, {"absent"}) THEN IF force THEN s ELSE Fail(s)
                     ELSE IF Is(s, p, {"dir"}) /\ ~ recursive THEN Fail(s)
                     ELSE Delete(s, p)
<1>1. ~ Exists(s, p) <=> Is(s, p, {"absent"})
  <2>1. Is(s, p, {"absent"}) => Real(s, p) = p
    BY NotALink DEF Is
  <2> QED BY <2>1 DEF Dangling, Exists, Is
<1>2. IsDir(s, p) <=> Is(s, p, {"dir"})
  <2>1. Is(s, p, {"dir"}) => Real(s, p) = p
    BY NotALink DEF Is
  <2>2. ~ Is(s, p, {"link"}) => Real(s, p) = p
    BY NotALink
  <2> QED BY <2>1, <2>2 DEF IsDir, Is
<1>3. ~ (Is(s, p, {"absent"}) /\ Is(s, p, {"dir"}))
  BY DEF Is
<1>4. ShellOn(c, p, p, s) = result
  BY <1>3 DEF ShellOn
<1>5. RemovePath(p, recursive, force, s) = result
  BY <1>1, <1>2, <1>3 DEF RemovePath
<1>6. result \in FileStates
  BY FailTyped, DeleteTyped
<1> QED BY <1>4, <1>5, <1>6

(* ln -s, and ln -sf where nothing is in the way.                          *)
LEMMA SameSymlink ==
    ASSUME NEW s \in FileStates, NEW p \in FilePaths, NEW q \in FilePaths, NEW c \in {"ln_s", "ln_sf"},
           q[1] \in s.dirs, c = "ln_sf" => Is(s, q, {"absent"})
    PROVE  SymlinkPath(p, q, s) = ShellOn(c, p, q, s) /\ SymlinkPath(p, q, s) \in FileStates
<1> DEFINE linked == [Put(s, q, "link", "none") EXCEPT !.to[q] = p]
           result == IF Is(s, q, {"absent"}) THEN linked ELSE Fail(s)
<1>1. WithParent(s, q) = s
  BY ParentThere
<1>2. SymlinkPath(p, q, s) = result
  BY <1>1 DEF SymlinkPath
<1>3. ShellOn(c, p, q, s) = result
  BY DEF ShellOn
<1>4. linked \in FileStates
  <2>1. Put(s, q, "link", "none") \in FileStates
    BY PutTyped DEF Kinds, Contents
  <2> QED BY <2>1, LinkTyped
<1> QED BY <1>2, <1>3, <1>4, FailTyped

(* chmod.                                                                  *)
LEMMA SameChmod ==
    ASSUME NEW s \in FileStates, NEW p \in FilePaths
    PROVE  ChmodPath(p, s) = ShellOn("chmod", p, p, s) /\ ChmodPath(p, s) \in FileStates
BY FailTyped DEF ShellOn, ChmodPath


-----------------------------------------------------------------------------
(* What is exported, and what the analysis makes of it.                    *)
Values == {"work", "outputs", "image", "a", "b"}
Envs == UNION {[S -> Values] : S \in SUBSET Exportable}

(* Environments hold values of the exportable variables,                   *)
LEMMA EnvFacts ==
    ASSUME NEW e \in Envs
    PROVE  DOMAIN e \subseteq Exportable /\ \A v \in DOMAIN e : e[v] \in Values
BY DEF Envs

(* and are such functions;                                                 *)
LEMMA EnvWhen ==
    ASSUME NEW e, NEW S \in SUBSET Exportable, e \in [S -> Values]
    PROVE  e \in Envs
BY DEF Envs

(* one over another is one,                                                *)
LEMMA OverTyped ==
    ASSUME NEW e \in Envs, NEW f \in Envs
    PROVE  Over(e, f) \in Envs
<1> DEFINE S == DOMAIN e \cup DOMAIN f
<1>1. S \in SUBSET Exportable
  BY EnvFacts
<1>2. Over(e, f) \in [S -> Values]
  BY EnvFacts DEF Over
<1> QED BY <1>1, <1>2, EnvWhen

(* an export makes one, that has its variable and those before it,         *)
LEMMA ExportedTyped ==
    ASSUME NEW l \in Lines, NEW e \in Envs
    PROVE  /\ Exported(l, e) \in Envs /\ DOMAIN e \subseteq DOMAIN Exported(l, e)
           /\ l.cmd = "export" => l.variable \in DOMAIN Exported(l, e)
<1>1. CASE l.cmd = "export"
  <2> DEFINE one == [v \in {l.variable} |-> l.value]
  <2>1. one \in [{l.variable} -> Values] /\ {l.variable} \in SUBSET Exportable
    BY <1>1, LinesTyped DEF LineTyped, Values
  <2>2. one \in Envs
    BY <2>1, EnvWhen
  <2>3. Exported(l, e) = Over(one, e) /\ DOMAIN one = {l.variable}
    BY <1>1 DEF Exported
  <2> HIDE DEF one
  <2>4. DOMAIN Over(one, e) = {l.variable} \cup DOMAIN e /\ Over(one, e) \in Envs
    BY <2>2, <2>3, OverTyped, OverFacts
  <2> QED BY <2>3, <2>4
<1>2. CASE l.cmd # "export"
  BY <1>2 DEF Exported
<1> QED BY <1>1, <1>2

(* on top of another just as alone.                                        *)
LEMMA ExportedOver ==
    ASSUME NEW l, NEW e, NEW f
    PROVE  Exported(l, Over(e, f)) = Over(Exported(l, e), f)
BY DEF Exported, Over

-----------------------------------------------------------------------------
Actions == {ActionOf(l, e) : l \in Lines, e \in Envs}
Results == [is_simple : {TRUE}, actions : Seq(Actions), env_vars : Envs]
NoResult == [is_simple |-> TRUE, actions |-> << >>, env_vars |-> << >>]
AfterLine(r, l) == [r EXCEPT !.actions = Append(@, ActionOf(l, r.env_vars)), !.env_vars = Exported(l, @)]

(* The analysis of a line makes a result from a result.                    *)
LEMMA ResultsTyped ==
    /\ NoResult \in Results
    /\ \A r \in Results, l \in Lines : AfterLine(r, l) \in Results
<1>1. << >> \in [{} -> Values] /\ {} \in SUBSET Exportable
  OBVIOUS
<1>2. << >> \in Envs
  BY <1>1, EnvWhen
<1>3. NoResult \in Results
  BY <1>2 DEF NoResult, Results
<1>4. ASSUME NEW r \in Results, NEW l \in Lines PROVE AfterLine(r, l) \in Results
  <2>1. r.env_vars \in Envs /\ r.actions \in Seq(Actions)
    BY DEF Results
  <2>2. Exported(l, r.env_vars) \in Envs /\ ActionOf(l, r.env_vars) \in Actions
    BY <2>1, ExportedTyped DEF Actions
  <2>3. Append(r.actions, ActionOf(l, r.env_vars)) \in Seq(Actions)
    BY <2>1, <2>2
  <2> QED BY <2>2, <2>3 DEF AfterLine, Results
<1> QED BY <1>3, <1>4

(* analyze_script goes from result to result, one for each line.           *)
LEMMA AnalysisSteps ==
    ASSUME NEW lines \in Seq(Lines), AnalyzeScript(lines).is_simple
    PROVE  \E it : /\ it[0] = NoResult
                   /\ \A k \in 1 .. Len(lines) : it[k] = AfterLine(it[k - 1], lines[k])
                   /\ AnalyzeScript(lines) = it[Len(lines)]
                   /\ \A k \in 1 .. Len(lines) : ~ Unreadable(lines[k])
<1> DEFINE n == Len(lines)
           rule == [p \in Results \X Lines |-> AfterLine(p[1], p[2])]
           Eqn(f) == f = [s \in SUBSET DOMAIN lines |->
                            IF s = {} THEN NoResult
                            ELSE AfterLine(f[s \ {Max(s)}], lines[Max(s)])]
           iter == CHOOSE f : Eqn(f)
<1>1. n \in Nat /\ DOMAIN lines = 1 .. n /\ \A k \in 1 .. n : lines[k] \in Lines
  OBVIOUS
<1>2. \A k \in 1 .. n : ~ Unreadable(lines[k])
  BY <1>1 DEF AnalyzeScript
<1>3. \E f : Eqn(f)
  <2>1. rule \in [Results \X Lines -> Results] /\ NoResult \in Results
    BY ResultsTyped
  <2>2. PICK f \in [SUBSET (1 .. n) -> Results] : Folds(f, lines, NoResult, rule)
    <3> HIDE DEF rule
    <3> QED BY <2>1, FoldExists
  <2>3. ASSUME NEW A \in SUBSET (1 .. n), A # {}
        PROVE  f[A] = AfterLine(f[A \ {Max(A)}], lines[Max(A)])
    <3>1. Max(A) \in 1 .. n /\ f[A] = rule[<<f[A \ {Max(A)}], lines[Max(A)]>>]
      BY <2>2, <2>3 DEF Folds
    <3>2. f[A \ {Max(A)}] \in Results /\ lines[Max(A)] \in Lines
      BY <1>1, <2>2, <3>1
    <3> QED BY <3>1, <3>2
  <2>4. f[{}] = NoResult
    BY <2>2 DEF Folds
  <2>5. Eqn(f)
    BY <1>1, <2>2, <2>3, <2>4
  <2> QED BY <2>5
<1>4. Eqn(iter)
  <2> HIDE DEF Eqn
  <2> QED BY <1>3
<1>5. AnalyzeScript(lines) = iter[DOMAIN lines]
  BY <1>1, <1>2 DEF AnalyzeScript, FoldLeft, MapThenFoldSet, NoResult, AfterLine
<1> HIDE DEF iter
<1> DEFINE it == [k \in 0 .. n |-> iter[1 .. k]]
<1>6. it[0] = NoResult
  <2>1. 1 .. 0 = {} /\ {} \in SUBSET DOMAIN lines
    OBVIOUS
  <2>2. iter[{}] = NoResult
    BY <1>4, <2>1
  <2>3. it[0] = iter[1 .. 0]
    BY <1>1
  <2> QED BY <2>1, <2>2, <2>3
<1>7. ASSUME NEW k \in 1 .. n PROVE it[k] = AfterLine(it[k - 1], lines[k])
  <2>1. (1 .. k) \in SUBSET DOMAIN lines /\ k \in Nat \ {0}
    BY <1>1
  <2>2. Max(1 .. k) = k /\ (1 .. k) \ {k} = 1 .. (k - 1) /\ 1 .. k # {}
    BY <2>1, MaxOfPrefix
  <2>3. iter[1 .. k] = AfterLine(iter[1 .. (k - 1)], lines[k])
    BY <1>4, <2>1, <2>2
  <2>4. it[k] = iter[1 .. k] /\ it[k - 1] = iter[1 .. (k - 1)]
    BY <1>1
  <2> HIDE DEF it
  <2> QED BY <2>3, <2>4
<1>8. AnalyzeScript(lines) = it[n]
  BY <1>1, <1>5
<1> HIDE DEF it
<1> QED BY <1>2, <1>6, <1>7, <1>8

(* What a sequence of lines exports, on top of an environment.             *)
EnvAfter(base, lines) == FoldLeft(LAMBDA env, l : Exported(l, env), base, lines)

(* So do the exports of a sequence of lines.                               *)
LEMMA EnvSteps ==
    ASSUME NEW lines \in Seq(Lines), NEW base \in Envs
    PROVE  \E it : /\ it[0] = base
                   /\ \A k \in 1 .. Len(lines) : it[k] = Exported(lines[k], it[k - 1])
                   /\ EnvAfter(base, lines) = it[Len(lines)]
<1> DEFINE n == Len(lines)
           rule == [p \in Envs \X Lines |-> Exported(p[2], p[1])]
           Eqn(f) == f = [s \in SUBSET DOMAIN lines |->
                            IF s = {} THEN base ELSE Exported(lines[Max(s)], f[s \ {Max(s)}])]
           iter == CHOOSE f : Eqn(f)
<1>1. n \in Nat /\ DOMAIN lines = 1 .. n /\ \A k \in 1 .. n : lines[k] \in Lines
  OBVIOUS
<1>2. \E f : Eqn(f)
  <2>1. rule \in [Envs \X Lines -> Envs]
    BY ExportedTyped
  <2>2. PICK f \in [SUBSET (1 .. n) -> Envs] : Folds(f, lines, base, rule)
    <3> HIDE DEF rule
    <3> QED BY <2>1, FoldExists
  <2>3. ASSUME NEW A \in SUBSET (1 .. n), A # {}
        PROVE  f[A] = Exported(lines[Max(A)], f[A \ {Max(A)}])
    <3>1. Max(A) \in 1 .. n /\ f[A] = rule[<<f[A \ {Max(A)}], lines[Max(A)]>>]
      BY <2>2, <2>3 DEF Folds
    <3>2. f[A \ {Max(A)}] \in Envs /\ lines[Max(A)] \in Lines
      BY <1>1, <2>2, <3>1
    <3> QED BY <3>1, <3>2
  <2>4. f[{}] = base
    BY <2>2 DEF Folds
  <2>5. Eqn(f)
    BY <1>1, <2>2, <2>3, <2>4
  <2> QED BY <2>5
<1>3. Eqn(iter)
  <2> HIDE DEF Eqn
  <2> QED BY <1>2
<1>4. EnvAfter(base, lines) = iter[DOMAIN lines]
  BY DEF EnvAfter, FoldLeft, MapThenFoldSet
<1> HIDE DEF iter
<1> DEFINE it == [k \in 0 .. n |-> iter[1 .. k]]
<1>5. it[0] = base
  BY <1>1, <1>3
<1>6. ASSUME NEW k \in 1 .. n PROVE it[k] = Exported(lines[k], it[k - 1])
  <2>1. (1 .. k) \in SUBSET DOMAIN lines /\ k \in Nat \ {0}
    BY <1>1
  <2>2. Max(1 .. k) = k /\ (1 .. k) \ {k} = 1 .. (k - 1) /\ 1 .. k # {}
    BY <2>1, MaxOfPrefix
  <2>3. iter[1 .. k] = Exported(lines[k], iter[1 .. (k - 1)])
    BY <1>3, <2>1, <2>2
  <2>4. it[k] = iter[1 .. k] /\ it[k - 1] = iter[1 .. (k - 1)]
    BY <1>1
  <2> HIDE DEF it
  <2> QED BY <2>3, <2>4
<1>7. EnvAfter(base, lines) = it[n]
  BY <1>1, <1>4
<1> HIDE DEF it
<1> QED BY <1>5, <1>6, <1>7

-----------------------------------------------------------------------------
(* env[k] is what the first k lines export.                                *)
ExportsOf(env, lines) ==
    /\ env[0] = << >>
    /\ \A k \in 0 .. Len(lines) : env[k] \in Envs
    /\ \A k \in 1 .. Len(lines) :
          /\ env[k] = Exported(lines[k], env[k - 1])
          /\ \A j \in 1 .. k : lines[j].cmd = "export" => lines[j].variable \in DOMAIN env[k]

(* The analysis of a simple script turns each line into an action, with    *)
(* the variables exported before it.                                       *)
LEMMA AnalysisFacts ==
    ASSUME NEW lines \in Seq(Lines), AnalyzeScript(lines).is_simple
    PROVE  \E env : /\ ExportsOf(env, lines)
                    /\ AnalyzeScript(lines).env_vars = env[Len(lines)]
                    /\ \A k \in 1 .. Len(lines) :
                          /\ ~ Unreadable(lines[k])
                          /\ AnalyzeScript(lines).actions[k] = ActionOf(lines[k], env[k - 1])
<1> DEFINE n == Len(lines)
<1>1. n \in Nat /\ \A k \in 1 .. n : lines[k] \in Lines
  OBVIOUS
<1>2. PICK it : /\ it[0] = NoResult
                /\ \A k \in 1 .. n : it[k] = AfterLine(it[k - 1], lines[k])
                /\ AnalyzeScript(lines) = it[n]
                /\ \A k \in 1 .. n : ~ Unreadable(lines[k])
  BY AnalysisSteps
<1> HIDE DEF n
<1> DEFINE Facts(k) ==
              /\ it[k] \in Results /\ Len(it[k].actions) = k
              /\ \A j \in 1 .. k : it[k].actions[j] = ActionOf(lines[j], it[j - 1].env_vars)
              /\ \A j \in 1 .. k : lines[j].cmd = "export" => lines[j].variable \in DOMAIN it[k].env_vars
           Good == {k \in Nat : k <= n => Facts(k)}
<1>3. Facts(0)
  <2>1. NoResult.actions = << >> /\ Len(<< >>) = 0
    BY DEF NoResult
  <2> QED BY <1>2, <2>1, ResultsTyped
<1>4. ASSUME NEW k \in Nat, k \in Good PROVE k + 1 \in Good
  <2>1. SUFFICES ASSUME k + 1 <= n PROVE Facts(k + 1)
    OBVIOUS
  <2> DEFINE r == it[k]
             l == lines[k + 1]
             q == it[k + 1]
             m == k + 1
  <2>2. k <= n /\ k + 1 \in 1 .. n /\ (k + 1) - 1 = k
    BY <1>1, <2>1
  <2>3. r \in Results /\ Len(r.actions) = k
    BY <1>4, <2>2
  <2>4. q = AfterLine(r, l) /\ l \in Lines
    BY <1>1, <1>2, <2>2
  <2>5. q \in Results
    BY <2>3, <2>4, ResultsTyped
  <2>6. q.actions = Append(r.actions, ActionOf(l, r.env_vars)) /\ q.env_vars = Exported(l, r.env_vars)
    BY <2>3, <2>4 DEF AfterLine, Results
  <2>7. r.actions \in Seq(Actions) /\ r.env_vars \in Envs /\ ActionOf(l, r.env_vars) \in Actions
    <3>1. r.actions \in Seq(Actions) /\ r.env_vars \in Envs
      BY <2>3 DEF Results
    <3> HIDE DEF r, l
    <3>2. ActionOf(l, r.env_vars) \in Actions
      BY <2>4, <3>1 DEF Actions
    <3> QED BY <3>1, <3>2
  <2>8. /\ Len(q.actions) = m
        /\ \A j \in 1 .. k : q.actions[j] = r.actions[j]
        /\ q.actions[m] = ActionOf(l, r.env_vars)
    BY <2>3, <2>6, <2>7, Appending
  <2>9. /\ DOMAIN r.env_vars \subseteq DOMAIN q.env_vars
        /\ l.cmd = "export" => l.variable \in DOMAIN q.env_vars
    BY <2>4, <2>6, <2>7, ExportedTyped
  <2>10. \A j \in 1 .. m : j \in 1 .. k \/ j = m
    OBVIOUS
  <2>11. \A j \in 1 .. k : /\ r.actions[j] = ActionOf(lines[j], it[j - 1].env_vars)
                           /\ lines[j].cmd = "export" => lines[j].variable \in DOMAIN r.env_vars
    BY <1>4, <2>2
  <2>12. m - 1 = k /\ lines[m] = l
    OBVIOUS
  <2>13. \A j \in 1 .. m : q.actions[j] = ActionOf(lines[j], it[j - 1].env_vars)
    <3> HIDE DEF m, l, q
    <3> QED BY <2>8, <2>10, <2>11, <2>12 DEF r
  <2>14. \A j \in 1 .. m : lines[j].cmd = "export" => lines[j].variable \in DOMAIN q.env_vars
    <3> HIDE DEF m, l, q, r
    <3> QED BY <2>9, <2>10, <2>11, <2>12
  <2> QED BY <2>5, <2>8, <2>13, <2>14
<1>5. Nat \subseteq Good
  <2>1. 0 \in Good
    BY <1>3
  <2> HIDE DEF Good
  <2> QED BY <1>4, <2>1, SetInduction
<1>6. \A k \in 0 .. n : Facts(k)
  BY <1>1, <1>5
<1> DEFINE env == [k \in 0 .. n |-> it[k].env_vars]
<1>7. n \in 0 .. n /\ 0 \in 0 .. n /\ \A k \in 1 .. n : k \in 0 .. n /\ k - 1 \in 0 .. n
  BY <1>1
<1>8. \A k \in 0 .. n : env[k] = it[k].env_vars /\ it[k] \in Results /\ env[k] \in Envs
  BY <1>6 DEF Results
<1>9. env[0] = << >>
  BY <1>2, <1>7 DEF NoResult
<1>10. \A k \in 1 .. n : \A j \in 1 .. k : lines[j].cmd = "export" => lines[j].variable \in DOMAIN env[k]
  BY <1>6, <1>7
<1>11. ASSUME NEW k \in 1 .. n PROVE env[k] = Exported(lines[k], env[k - 1])
  <2> HIDE DEF env
  <2>1. it[k] = AfterLine(it[k - 1], lines[k]) /\ it[k - 1] \in Results
    BY <1>2, <1>7, <1>8
  <2>2. it[k].env_vars = Exported(lines[k], it[k - 1].env_vars)
    BY <2>1 DEF AfterLine, Results
  <2> QED BY <1>7, <1>8, <2>2
<1>12. ASSUME NEW k \in 1 .. n PROVE AnalyzeScript(lines).actions[k] = ActionOf(lines[k], env[k - 1])
  <2>1. it[n].actions[k] = ActionOf(lines[k], it[k - 1].env_vars)
    BY <1>6, <1>7
  <2> HIDE DEF env
  <2> QED BY <1>2, <1>7, <1>8, <2>1
<1>13. AnalyzeScript(lines).env_vars = env[n]
  BY <1>2, <1>7
<1>14. ExportsOf(env, lines)
  <2> HIDE DEF env
  <2> QED BY <1>8, <1>9, <1>10, <1>11 DEF ExportsOf, n
<1> HIDE DEF env
<1> QED BY <1>2, <1>12, <1>13, <1>14 DEF n

GivenTyped == given \in Envs /\ "D" \notin DOMAIN given

(* The environment of an execution is one.                                 *)
LEMMA EnvironmentTyped ==
    ASSUME GivenTyped
    PROVE  Environment \in Envs /\ Over(<< >>, Environment) = Environment
<1> DEFINE one == [v \in {"D"} |-> "outputs"]
<1>1. one \in [{"D"} -> Values] /\ {"D"} \in SUBSET Exportable
  BY DEF Values, Exportable
<1>2. one \in Envs
  BY <1>1, EnvWhen
<1>3. Environment = Over(one, given)
  BY DEF Environment
<1>4. Environment \in Envs
  <2> HIDE DEF one
  <2> QED BY <1>2, <1>3, OverTyped DEF GivenTyped
<1>5. DOMAIN << >> = {}
  OBVIOUS
<1>6. Over(<< >>, Environment) = [v \in DOMAIN Environment |-> Environment[v]]
  BY <1>5 DEF Over
<1>7. [v \in DOMAIN Environment |-> Environment[v]] = Environment
  BY DEF Environment, Over
<1> QED BY <1>4, <1>6, <1>7

(* In bash a line finds what was exported before it, on top of the         *)
(* environment.                                                            *)
LEMMA ShellEnvIs ==
    ASSUME script \in Seq(Lines), GivenTyped, NEW env, ExportsOf(env, script), NEW n \in 1 .. Len(script)
    PROVE  ShellEnv(n) = Over(env[n - 1], Environment)
<1> DEFINE before == SubSeq(script, 1, n - 1)
           m == n - 1
<1>1. Len(script) \in Nat /\ m \in Nat /\ m <= Len(script) /\ n - 1 = m
  OBVIOUS
<1>2. before \in Seq(Lines) /\ Len(before) = m /\ \A k \in 1 .. m : before[k] = script[k]
  <2>1. 1 .. m \subseteq 1 .. Len(script)
    BY <1>1
  <2> HIDE DEF m
  <2> QED BY <1>1, <2>1
<1>3. PICK it : /\ it[0] = Environment
                /\ \A k \in 1 .. Len(before) : it[k] = Exported(before[k], it[k - 1])
                /\ EnvAfter(Environment, before) = it[Len(before)]
  <2> HIDE DEF before
  <2> QED BY <1>2, EnvironmentTyped, EnvSteps
<1>4. ShellEnv(n) = EnvAfter(Environment, before)
  BY DEF ShellEnv, EnvAfter
<1> HIDE DEF before, m
<1> DEFINE Good == {k \in Nat : k <= m => it[k] = Over(env[k], Environment)}
<1>5. 0 \in Good
  BY <1>3, EnvironmentTyped DEF ExportsOf
<1>6. ASSUME NEW k \in Nat, k \in Good PROVE k + 1 \in Good
  <2>1. SUFFICES ASSUME k + 1 <= m PROVE it[k + 1] = Over(env[k + 1], Environment)
    OBVIOUS
  <2>2. k <= m /\ k + 1 \in 1 .. m /\ k + 1 \in 1 .. Len(script) /\ (k + 1) - 1 = k
    BY <1>1, <2>1
  <2>3. it[k] = Over(env[k], Environment)
    BY <1>6, <2>2
  <2>4. it[k + 1] = Exported(script[k + 1], it[k])
    BY <1>2, <1>3, <2>2
  <2>5. env[k + 1] = Exported(script[k + 1], env[k])
    BY <2>2 DEF ExportsOf
  <2> QED BY <2>3, <2>4, <2>5, ExportedOver
<1>7. Nat \subseteq Good
  <2> HIDE DEF Good
  <2> QED BY <1>5, <1>6, SetInduction
<1>8. it[m] = Over(env[m], Environment)
  <2>1. m \in Nat /\ m <= m
    BY <1>1
  <2> QED BY <1>7, <2>1
<1> QED BY <1>1, <1>2, <1>3, <1>4, <1>8

(* A word that is set, and is not D by default, stands for the same path.  *)
(* The environments before each line; a word that bash can expand, and     *)
(* that is not left to the default of D.                                   *)
Analysed(env) ==
    /\ script \in Seq(Lines) /\ GivenTyped
    /\ ExportsOf(env, script)
    /\ AnalyzeScript(script).env_vars = env[Len(script)]
WordSet(w, n) ==
    /\ w \in ({""} \cup Exportable) \X FileNames
    /\ w[1] \in {""} \cup DOMAIN ShellEnv(n)
    /\ w[1] = "D" => \E j \in 1 .. n - 1 : script[j].cmd = "export" /\ script[j].variable = "D"

LEMMA SameWord ==
    ASSUME NEW env, Analysed(env), NEW n \in 1 .. Len(script), NEW w, WordSet(w, n)
    PROVE  ResolvePath(ExpandVariables(w, env[n - 1])) = Word(w, n) /\ Word(w, n) \in FilePaths
<1> DEFINE e == env[n - 1]
           d == IF w[1] = "" THEN "work" ELSE ShellEnv(n)[w[1]]
           len == Len(script)
           full == env[len]
<1>1. n \in 1 .. len /\ len \in Nat /\ n - 1 \in 0 .. len /\ len \in 0 .. len
  <2>1. len \in Nat
    BY DEF Analysed
  <2> HIDE DEF len
  <2>2. n \in 1 .. len
    BY DEF len
  <2> QED BY <2>1, <2>2
<1>2. e \in Envs /\ full \in Envs /\ Environment \in Envs
  BY <1>1, EnvironmentTyped DEF ExportsOf, Analysed
<1>3. ShellEnv(n) = Over(e, Environment)
  BY ShellEnvIs DEF Analysed
<1>4. w[2] \in FileNames /\ Word(w, n) = <<d, w[2]>>
  BY DEF Word, WordSet
<1>5. FullEnv = Over(Environment, full)
  BY DEF FullEnv, Analysed
<1>6. /\ DOMAIN FullEnv \subseteq Exportable
      /\ \A v \in DOMAIN Environment : v \in DOMAIN FullEnv /\ FullEnv[v] = Environment[v]
  <2> HIDE DEF full
  <2>1. /\ DOMAIN FullEnv = DOMAIN Environment \cup DOMAIN full
        /\ \A v \in DOMAIN Environment : FullEnv[v] = Environment[v]
    BY <1>5, OverFacts
  <2>2. DOMAIN full \subseteq Exportable /\ DOMAIN Environment \subseteq Exportable
    BY <1>2, EnvFacts
  <2> QED BY <2>1, <2>2
<1>7. \A v \in Values : v \notin Exportable /\ v \in Dirs
  BY DEF Values, Exportable, Dirs
<1>8. ASSUME NEW v \in Values
      PROVE  ResolvePath(<<v, w[2]>>) = <<v, w[2]>> /\ <<v, w[2]>> \in FilePaths
  BY <1>4, <1>6, <1>7 DEF ResolvePath, FilePaths
<1> HIDE DEF e, d, full, len
<1> DEFINE base == Environment
<1>14. base \in Envs /\ ShellEnv(n) = Over(e, base)
  BY <1>2, <1>3
<1>15. base = Environment
  OBVIOUS
<1> HIDE DEF base
<1>16. /\ DOMAIN ShellEnv(n) = DOMAIN e \cup DOMAIN base
       /\ \A v \in DOMAIN e : ShellEnv(n)[v] = e[v] /\ e[v] \in Values
       /\ \A v \in DOMAIN base \ DOMAIN e : ShellEnv(n)[v] = base[v] /\ base[v] \in Values
  <2>1. /\ DOMAIN ShellEnv(n) = DOMAIN e \cup DOMAIN base
        /\ \A v \in DOMAIN e : ShellEnv(n)[v] = e[v]
        /\ \A v \in DOMAIN base \ DOMAIN e : ShellEnv(n)[v] = base[v]
    <3>1. /\ DOMAIN Over(e, base) = DOMAIN e \cup DOMAIN base
          /\ \A v \in DOMAIN e : Over(e, base)[v] = e[v]
          /\ \A v \in DOMAIN base \ DOMAIN e : Over(e, base)[v] = base[v]
      BY OverFacts
    <3> QED BY <1>14, <3>1
  <2>2. (\A v \in DOMAIN e : e[v] \in Values) /\ (\A v \in DOMAIN base : base[v] \in Values)
    BY <1>2, <1>14, EnvFacts
  <2> QED BY <2>1, <2>2
<1>9. CASE w[1] = ""
  <2>1. ExpandVariables(w, e) = <<"work", w[2]>> /\ d = "work" /\ "work" \in Values
    BY <1>9 DEF ExpandVariables, d, Values
  <2> QED BY <1>4, <1>8, <2>1 DEF e
<1>10. CASE w[1] # "" /\ w[1] \in DOMAIN e
  <2>1. ExpandVariables(w, e) = <<e[w[1]], w[2]>>
    BY <1>10 DEF ExpandVariables
  <2>2. d = e[w[1]] /\ d \in Values
    BY <1>10, <1>16 DEF d
  <2> QED BY <1>4, <1>8, <2>1, <2>2 DEF e
<1>11. CASE w[1] # "" /\ w[1] \notin DOMAIN e
  <2>1. w[1] # "D"
    <3>1. ASSUME NEW j \in 1 .. n - 1, script[j].cmd = "export", script[j].variable = "D" PROVE "D" \in DOMAIN e
      <4>1. n - 1 \in 1 .. len
        BY <1>1, <3>1
      <4> QED BY <3>1, <4>1 DEF ExportsOf, e, len, Analysed
    <3> QED BY <1>11, <3>1 DEF WordSet
  <2>2. w[1] \in DOMAIN Environment /\ d = Environment[w[1]] /\ d \in Values
    BY <1>11, <1>15, <1>16 DEF d, WordSet
  <2>3. ExpandVariables(w, e) = <<w[1], w[2]>>
    BY <1>11, <2>1 DEF ExpandVariables
  <2>4. ResolvePath(<<w[1], w[2]>>) = <<d, w[2]>>
    BY <1>6, <2>2 DEF ResolvePath
  <2> QED BY <1>4, <1>8, <2>2, <2>3, <2>4 DEF e
<1> QED BY <1>9, <1>10, <1>11

(* A command with one word is a step of bash on it.                        *)
LEMMA FoldOne ==
    ASSUME NEW H, NEW words \in Seq(H), Len(words) = 1, NEW cmd, NEW n, NEW s, s.ok
    PROVE  FoldLeft(LAMBDA t, w : IF t.ok THEN ShellOn(cmd, Word(w, n), Word(w, n), t) ELSE t, s, words)
           = ShellOn(cmd, Word(words[1], n), Word(words[1], n), s)
<1> DEFINE After(t, w) == IF t.ok THEN ShellOn(cmd, Word(w, n), Word(w, n), t) ELSE t
           Eqn(f) == f = [A \in SUBSET DOMAIN words |->
                            IF A = {} THEN s ELSE After(f[A \ {Max(A)}], words[Max(A)])]
           iter == CHOOSE f : Eqn(f)
<1>1. DOMAIN words = {1}
  OBVIOUS
<1>2. Max({1}) = 1 /\ {1} \ {1} = {}
  <2>1. 1 \in Nat \ {0} /\ 1 .. 1 = {1}
    OBVIOUS
  <2>2. Max(1 .. 1) = 1
    BY <2>1, MaxOfPrefix
  <2> QED BY <2>1, <2>2
<1>3. \A A \in SUBSET {1} : A = {} \/ A = {1}
  OBVIOUS
<1>4. After(s, words[1]) = ShellOn(cmd, Word(words[1], n), Word(words[1], n), s)
  OBVIOUS
<1>5. FoldLeft(After, s, words) = iter[DOMAIN words]
  BY DEF FoldLeft, MapThenFoldSet
<1> HIDE DEF After
<1>6. \E f : Eqn(f)
  <2> DEFINE f == [A \in SUBSET {1} |-> IF A = {} THEN s ELSE After(s, words[1])]
  <2>1. f[{}] = s /\ f[{1}] = After(s, words[1])
    OBVIOUS
  <2>2. \A A \in SUBSET {1} : f[A] = IF A = {} THEN s ELSE After(f[A \ {Max(A)}], words[Max(A)])
    <3> HIDE DEF f
    <3>1. {1} # {}
      OBVIOUS
    <3>2. ASSUME NEW A \in SUBSET {1}, A = {1} PROVE f[A] = After(f[A \ {Max(A)}], words[Max(A)])
      BY <1>2, <2>1, <3>2
    <3> QED BY <1>3, <2>1, <3>1, <3>2
  <2>3. f = [A \in SUBSET {1} |-> f[A]]
    OBVIOUS
  <2>4. Eqn(f)
    <3> HIDE DEF f
    <3> QED BY <1>1, <2>2, <2>3
  <2> HIDE DEF Eqn
  <2> QED BY <2>4
<1>7. Eqn(iter)
  <2> HIDE DEF Eqn
  <2> QED BY <1>6
<1> HIDE DEF iter
<1>8. iter[{}] = s
  <2>1. {} \in SUBSET DOMAIN words
    OBVIOUS
  <2> QED BY <1>7, <2>1
<1>9. iter[{1}] = After(s, words[1])
  <2>1. {1} \in SUBSET DOMAIN words /\ {1} # {}
    BY <1>1
  <2> QED BY <1>2, <1>7, <1>8, <2>1
<1>10. FoldLeft(After, s, words) = ShellOn(cmd, Word(words[1], n), Word(words[1], n), s)
  BY <1>1, <1>4, <1>5, <1>9
<1> QED BY <1>10 DEF After

(* The commands by the words they take.                                    *)
Pairs == {"cp", "cp_r", "mv", "ln_s", "ln_sf"}
Singles == {"touch", "mkdir", "bbdirs", "rm", "rm_r", "rm_f", "rm_rf", "chmod"}
Silent == {"echo", "note", "export"}
Words == ({""} \cup Exportable) \X FileNames

(* The words of a line that is not known to differ are set.                *)
LEMMA WordsAreSet ==
    ASSUME script \in Seq(Lines), NEW n \in 1 .. Len(script), NEW s, ~ Unreadable(script[n]),
           ~ Differs(script[n], n, s)
    PROVE  /\ script[n].words \in Seq(Words)
           /\ \A i \in 1 .. Len(script[n].words) : WordSet(script[n].words[i], n)
           /\ \/ script[n].cmd \in Silent
              \/ script[n].cmd \in Singles /\ Len(script[n].words) = 1
              \/ script[n].cmd \in Pairs /\ Len(script[n].words) = 2
<1> DEFINE l == script[n]
           words == l.words
           len == Len(words)
<1>1. l \in Lines
  OBVIOUS
<1> HIDE DEF l
<1>2. LineTyped(l)
  BY <1>1, LinesTyped
<1>3. words \in Seq(Words)
  BY <1>2 DEF LineTyped, Words
<1> HIDE DEF words
<1>4. len \in Nat /\ DOMAIN words = 1 .. len /\ (words # << >> => len # 0) /\ \A i \in 1 .. len : words[i] \in Words
  BY <1>3
<1>5. ~ Unreadable(l) /\ ~ Differs(l, n, s)
  BY DEF l
<1>6. ~ Unset(l, n)
  BY <1>5 DEF Differs
<1>7. ASSUME NEW i \in 1 .. len PROVE WordSet(words[i], n)
  <2>1. words[i][1] \in {""} \cup DOMAIN ShellEnv(n)
    BY <1>4, <1>6 DEF Unset, words
  <2>2. words[i][1] = "D" => \E j \in 1 .. n - 1 : script[j].cmd = "export" /\ script[j].variable = "D"
    BY <1>4, <1>5 DEF Differs, words
  <2> QED BY <1>4, <2>1, <2>2 DEF WordSet, Words
<1>8. l.cmd \in Silent \/ (l.cmd \in Singles /\ len = 1) \/ (l.cmd \in Pairs /\ len = 2)
  <2>1. l.cmd \in Commands /\ (words # << >> \/ l.cmd \in {"echo", "note", "export", "pipe", "other"})
    BY <1>2 DEF LineTyped, words
  <2>2. l.cmd \notin {"pipe", "other"} /\ (l.cmd \in Pairs => len = 2)
    BY <1>5 DEF Unreadable, Pairs, words
  <2>3. l.cmd # "echo_to" /\ (len > 1 => l.cmd \in Pairs)
    BY <1>5 DEF Differs, Pairs, words
  <2>4. l.cmd \in Singles \/ l.cmd \in Silent \/ l.cmd \in Pairs
    BY <2>1, <2>2, <2>3 DEF Commands, Singles, Silent, Pairs
  <2>5. l.cmd \in Singles => l.cmd \notin Pairs /\ l.cmd \notin {"echo", "note", "export", "pipe", "other"}
    BY DEF Singles, Pairs
  <2>6. l.cmd \in Singles => len # 0 /\ ~ (len > 1)
    BY <1>4, <2>1, <2>3, <2>5
  <2> HIDE DEF len
  <2>7. l.cmd \in Singles => len = 1
    BY <1>4, <2>6
  <2> QED BY <2>2, <2>4, <2>7
<1> QED BY <1>3, <1>7, <1>8 DEF words, l

(* A line whose words are set, on files that are as they should be.        *)
LineReady(env, l, n, s) ==
    /\ Analysed(env) /\ n \in 1 .. Len(script) /\ l = script[n]
    /\ s \in FileStates /\ s.ok
    /\ l.words \in Seq(Words) /\ \A i \in 1 .. Len(l.words) : WordSet(l.words[i], n)
    /\ ~ Differs(l, n, s)

SameEffect(env, l, n, s) ==
    /\ ExecuteAction(ActionOf(l, env[n - 1]), s) = ShellLine(l, n, s)
    /\ ShellLine(l, n, s) \in FileStates

(* A command with one word has the same effect directly and in bash;       *)
LEMMA SameSingle ==
    ASSUME NEW env, NEW l, NEW n, NEW s, LineReady(env, l, n, s), l.cmd \in Singles, Len(l.words) = 1
    PROVE  SameEffect(env, l, n, s)
<1> DEFINE e == env[n - 1]
           word == l.words[1]
           dst == PathOf(l.words, e)
           p == Word(word, n)
           a == ActionOf(l, e)
<1>1. dst = ExpandVariables(word, e)
  BY DEF PathOf
<1>2. WordSet(word, n) /\ Analysed(env) /\ n \in 1 .. Len(script)
  BY DEF LineReady
<1>3. ResolvePath(dst) = p /\ p \in FilePaths
  <2> HIDE DEF dst, word
  <2> QED BY <1>1, <1>2, SameWord
<1>4. ShellLine(l, n, s) = ShellOn(l.cmd, p, p, s)
  <2>1. l.words \in Seq(Words) /\ s.ok
    BY DEF LineReady
  <2>2. l.cmd \notin {"echo", "note", "export"} /\ l.cmd \notin {"cp", "cp_r", "mv", "ln_s", "ln_sf"}
    BY DEF Singles
  <2>3. ShellLine(l, n, s) = FoldLeft(LAMBDA t, w : IF t.ok THEN ShellOn(l.cmd, Word(w, n), Word(w, n), t) ELSE t,
                                      s, l.words)
    BY <2>2 DEF ShellLine
  <2> QED BY <2>1, <2>3, FoldOne
<1>5. s \in FileStates /\ ~ Differs(l, n, s)
  BY DEF LineReady
<1>6. word = l.words[Len(l.words)]
  OBVIOUS
<1> HIDE DEF dst, word, p
<1>7. SUFFICES ExecuteAction(a, s) = ShellOn(l.cmd, p, p, s) /\ ExecuteAction(a, s) \in FileStates
  BY <1>4 DEF SameEffect
<1>8. CASE l.cmd = "touch"
  <2>1. a = [op |-> "Touch", path |-> dst]
    BY <1>8 DEF ActionOf, ParseTouch, dst
  <2>2. ExecuteAction(a, s) = TouchPath(p, s)
    BY <1>3, <2>1 DEF ExecuteAction
  <2>3. p[1] \in s.dirs
    BY <1>5, <1>6, <1>8 DEF Differs, p
  <2> QED BY <1>3, <1>5, <1>8, <2>2, <2>3, SameTouch
<1>9. CASE l.cmd \in {"mkdir", "bbdirs"}
  <2>1. a = [op |-> "MakeDir", path |-> dst]
    BY <1>9 DEF ActionOf, ParseMkdir, dst
  <2>2. ExecuteAction(a, s) = MakeDirAll(p, s)
    BY <1>3, <2>1 DEF ExecuteAction
  <2> QED BY <1>3, <1>5, <1>9, <2>2, SameMakeDir, MakeDirTyped
<1>10. CASE l.cmd \in {"rm", "rm_r", "rm_f", "rm_rf"}
  <2> DEFINE recursive == l.cmd \in {"rm_r", "rm_rf"}
             force == l.cmd \in {"rm_f", "rm_rf"}
  <2>1. a = [op |-> "Remove", path |-> dst, recursive |-> recursive, force |-> force]
    BY <1>10 DEF ActionOf, ParseRm, dst
  <2>2. ExecuteAction(a, s) = RemovePath(p, recursive, force, s)
    <3> HIDE DEF recursive, force
    <3> QED BY <1>3, <2>1 DEF ExecuteAction
  <2>3. ~ Dangling(s, p) /\ ~ (Is(s, p, {"link"}) /\ IsDir(s, p))
    BY <1>5, <1>10 DEF Differs, p, word
  <2> QED BY <1>3, <1>5, <1>10, <2>2, <2>3, SameRemove
<1>11. CASE l.cmd = "chmod"
  <2>1. a = [op |-> "Chmod", path |-> dst]
    BY <1>11 DEF ActionOf, ParseChmod, dst
  <2>2. ExecuteAction(a, s) = ChmodPath(p, s)
    BY <1>3, <2>1 DEF ExecuteAction
  <2> QED BY <1>3, <1>5, <1>11, <2>2, SameChmod
<1> QED BY <1>8, <1>9, <1>10, <1>11 DEF Singles

(* so has one with two;                                                    *)
LEMMA SamePair ==
    ASSUME NEW env, NEW l, NEW n, NEW s, LineReady(env, l, n, s), l.cmd \in Pairs, Len(l.words) = 2
    PROVE  SameEffect(env, l, n, s)
<1> DEFINE e == env[n - 1]
           from == l.words[1]
           dest == l.words[2]
           src == ExpandVariables(from, e)
           dst == ExpandVariables(dest, e)
           p == Word(from, n)
           q == Word(dest, n)
           a == ActionOf(l, e)
<1>1. WordSet(from, n) /\ WordSet(dest, n) /\ Analysed(env) /\ n \in 1 .. Len(script)
  BY DEF LineReady
<1>2. ResolvePath(src) = p /\ p \in FilePaths /\ ResolvePath(dst) = q /\ q \in FilePaths
  <2> HIDE DEF from, dest
  <2> QED BY <1>1, SameWord
<1>3. ShellLine(l, n, s) = ShellOn(l.cmd, p, q, s)
  BY DEF ShellLine, Pairs
<1>4. s \in FileStates /\ ~ Differs(l, n, s)
  BY DEF LineReady
<1>5. from = l.words[1] /\ dest = l.words[Len(l.words)]
  OBVIOUS
<1> HIDE DEF src, dst, p, q
<1>6. q[1] \in s.dirs
  BY <1>4, <1>5 DEF Differs, Pairs, q
<1>7. SUFFICES ExecuteAction(a, s) = ShellOn(l.cmd, p, q, s) /\ ExecuteAction(a, s) \in FileStates
  BY <1>3 DEF SameEffect
<1>8. CASE l.cmd \in {"cp", "cp_r"}
  <2> DEFINE recursive == l.cmd = "cp_r"
  <2>1. a = [op |-> "Copy", src |-> src, path |-> dst, recursive |-> recursive]
    BY <1>8 DEF ActionOf, ParseCp, src, dst
  <2>2. ExecuteAction(a, s) = CopyPath(p, q, recursive, s)
    <3> HIDE DEF recursive
    <3> QED BY <1>2, <2>1 DEF ExecuteAction
  <2>3. Real(s, p) # Real(s, q)
    BY <1>4, <1>5, <1>8 DEF Differs, p, q
  <2> QED BY <1>2, <1>4, <1>6, <1>8, <2>2, <2>3, SameCopy
<1>9. CASE l.cmd = "mv"
  <2>1. a = [op |-> "Move", src |-> src, path |-> dst]
    BY <1>9 DEF ActionOf, ParseMv, FromTo, src, dst
  <2>2. ExecuteAction(a, s) = MovePath(p, q, s)
    BY <1>2, <2>1 DEF ExecuteAction
  <2> QED BY <1>2, <1>4, <1>6, <1>9, <2>2, SameMove
<1>10. CASE l.cmd \in {"ln_s", "ln_sf"}
  <2>1. a = [op |-> "Symlink", src |-> src, path |-> dst]
    BY <1>10 DEF ActionOf, ParseLn, FromTo, src, dst
  <2>2. ExecuteAction(a, s) = SymlinkPath(p, q, s)
    BY <1>2, <2>1 DEF ExecuteAction
  <2>3. l.cmd = "ln_sf" => Is(s, q, {"absent"})
    BY <1>4, <1>5 DEF Differs, p, q
  <2> QED BY <1>2, <1>4, <1>6, <1>10, <2>2, <2>3, SameSymlink
<1> QED BY <1>8, <1>9, <1>10 DEF Pairs

(* and the others have none.                                               *)
LEMMA SameSilent ==
    ASSUME NEW env, NEW l, NEW n, NEW s, LineReady(env, l, n, s), l.cmd \in Silent
    PROVE  SameEffect(env, l, n, s)
<1> DEFINE a == ActionOf(l, env[n - 1])
<1>1. a.op \in {"Log", "SetEnv"}
  BY DEF ActionOf, Silent
<1>2. ExecuteAction(a, s) = s
  <2> HIDE DEF a
  <2> QED BY <1>1 DEF ExecuteAction
<1>3. ShellLine(l, n, s) = s
  BY DEF ShellLine, Silent
<1> QED BY <1>2, <1>3 DEF SameEffect, LineReady

(* Every line that is not known to differ has the effect of bash.          *)
LEMMA SameLine ==
    ASSUME NEW env, Analysed(env), NEW n \in 1 .. Len(script), NEW s \in FileStates, s.ok,
           ~ Unreadable(script[n]), ~ Differs(script[n], n, s)
    PROVE  SameEffect(env, script[n], n, s)
<1>1. script \in Seq(Lines)
  BY DEF Analysed
<1> DEFINE l == script[n]
<1>2. LineReady(env, l, n, s)
  BY <1>1, WordsAreSet DEF LineReady
<1>3. \/ l.cmd \in Silent
      \/ l.cmd \in Singles /\ Len(l.words) = 1
      \/ l.cmd \in Pairs /\ Len(l.words) = 2
  BY <1>1, WordsAreSet
<1> HIDE DEF l
<1>4. SameEffect(env, l, n, s)
  BY <1>2, <1>3, SameSilent, SameSingle, SamePair
<1> QED BY <1>4 DEF l

-----------------------------------------------------------------------------
(* The files have their types, as long as they agree.                      *)
ScriptInv ==
    /\ script \in Seq(Lines) /\ GivenTyped
    /\ position \in Nat \ {0}
    /\ deviated \in BOOLEAN
    /\ ~ deviated => /\ shell \in FileStates
                     /\ direct.ok = shell.ok
                     /\ direct.ok => direct = shell

(* Scripts start so,                                                       *)
LEMMA ScriptStarts == ScriptInit => ScriptInv
<1> SUFFICES ASSUME ScriptInit PROVE ScriptInv
  OBVIOUS
<1>1. script \in Seq(Lines)
  <2>1. PICK n \in 1 .. MaxLines : script \in [1 .. n -> Lines]
    BY DEF ScriptInit
  <2>2. n \in Nat
    BY <2>1, MaxLinesNat
  <2> QED BY <2>1, <2>2
<1>2. GivenTyped
  <2>1. << >> \in [{} -> Values] /\ {} \in SUBSET Exportable
    OBVIOUS
  <2>2. [v \in {"V"} |-> "a"] \in [{"V"} -> Values] /\ {"V"} \in SUBSET Exportable
    BY DEF Values, Exportable
  <2>3. DOMAIN << >> = {} /\ DOMAIN [v \in {"V"} |-> "a"] = {"V"}
    OBVIOUS
  <2>4. << >> \in Envs /\ [v \in {"V"} |-> "a"] \in Envs
    BY <2>1, <2>2, EnvWhen
  <2> QED BY <2>3, <2>4 DEF ScriptInit, GivenTyped
<1>3. \A x \in {"absent", "file"}, y \in {"absent", "dir"} : Files(x, y) \in FileStates
  <2> TAKE x \in {"absent", "file"}, y \in {"absent", "dir"}
  <2>1. "work" \in Dirs /\ "outputs" \in Dirs /\ "a" \in Dirs
    BY DEF Dirs
  <2>2. \A p \in FilePaths : p[2] \in Contents /\ "none" \in Contents
    BY DEF FilePaths, Contents
  <2>3. x \in Kinds /\ y \in Kinds /\ "absent" \in Kinds
    BY DEF Kinds
  <2> QED BY <2>1, <2>2, <2>3 DEF Files, FileStates
<1>4. direct \in FileStates /\ shell = direct
  BY <1>3 DEF ScriptInit
<1>5. position = 1 /\ deviated = FALSE
  BY DEF ScriptInit
<1>6. position \in Nat \ {0}
  BY <1>5
<1>8. deviated \in BOOLEAN
  BY <1>5
<1>7. shell \in FileStates /\ direct.ok = shell.ok
  BY <1>4
<1> QED BY <1>1, <1>2, <1>4, <1>6, <1>7, <1>8 DEF ScriptInv

(* and stay so with every line.                                            *)
LEMMA ScriptSteps == ScriptInv /\ [ScriptStep]_scriptVars => ScriptInv'
<1> SUFFICES ASSUME ScriptInv, [ScriptStep]_scriptVars PROVE ScriptInv'
  OBVIOUS
<1>1. CASE ExecuteLine
  <2> DEFINE n == position
             l == script[n]
  <2>1. script' = script /\ given' = given /\ position' = position + 1
    BY <1>1 DEF ExecuteLine
  <2>2. GivenTyped'
    BY <2>1 DEF GivenTyped, ScriptInv
  <2>3. deviated' \in BOOLEAN /\ deviated' = (deviated \/ (shell.ok /\ Differs(l, n, shell)))
    BY <1>1 DEF ExecuteLine, ScriptInv
  <2>4. ASSUME ~ deviated' PROVE shell' \in FileStates /\ direct'.ok = shell'.ok /\ (direct'.ok => direct' = shell')
    <3>1. ~ deviated /\ shell.ok /\ direct = shell /\ shell \in FileStates /\ ~ Differs(l, n, shell)
      BY <1>1, <2>3, <2>4 DEF ExecuteLine, ScriptInv
    <3>2. n \in 1 .. Len(script) /\ script \in Seq(Lines) /\ AnalyzeScript(script).is_simple
      BY <1>1 DEF ExecuteLine, ScriptInv
    <3>3. PICK env : /\ ExportsOf(env, script)
                     /\ AnalyzeScript(script).env_vars = env[Len(script)]
                     /\ \A k \in 1 .. Len(script) :
                           /\ ~ Unreadable(script[k])
                           /\ AnalyzeScript(script).actions[k] = ActionOf(script[k], env[k - 1])
      BY <3>2, AnalysisFacts
    <3>4. Analysed(env)
      BY <3>2, <3>3 DEF Analysed, ScriptInv
    <3>5. ~ Unreadable(script[n]) /\ AnalyzeScript(script).actions[n] = ActionOf(l, env[n - 1])
      BY <3>2, <3>3
    <3>6. SameEffect(env, l, n, shell)
      BY <3>1, <3>2, <3>4, <3>5, SameLine
    <3>7. ~ Unset(l, n)
      BY <3>1 DEF Differs
    <3>8. direct' = ExecuteAction(AnalyzeScript(script).actions[n], direct) /\ shell' = ShellLine(l, n, shell)
      BY <1>1, <3>1, <3>7 DEF ExecuteLine
    <3> QED BY <3>1, <3>5, <3>6, <3>8 DEF SameEffect
  <2> QED BY <2>1, <2>2, <2>3, <2>4 DEF ScriptInv
<1>2. CASE ExecutionEnds \/ RefuseComplex \/ ExecuteWithBash \/ ExecuteRustShell \/ UNCHANGED scriptVars
  <2>1. UNCHANGED <<script, given, position, direct, shell, deviated>>
    BY <1>2 DEF ExecutionEnds, RefuseComplex, ExecuteWithBash, ExecuteRustShell, scriptVars
  <2> QED BY <2>1 DEF ScriptInv, GivenTyped
<1> QED BY <1>1, <1>2 DEF ScriptStep

(* As long as no line is of a kind that is known to differ, a script that  *)
(* is executed directly goes as far as bash would take it and leaves the   *)
(* same files.                                                             *)
THEOREM DirectAsShell == ScriptInit /\ [][ScriptStep]_scriptVars => []DirectIsShell
<1>1. ScriptInv => DirectIsShell
  BY DEF ScriptInv, DirectIsShell
<1> QED BY <1>1, ScriptStarts, ScriptSteps, PTL
=============================================================================
