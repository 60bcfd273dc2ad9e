------------------------ MODULE ResourceLease_proofs ------------------------
(***************************************************************************)
(* Proofs about ResourceLease, for every set of processes, every set of     *)
(* numbered fingerprints and every set of modes.                            *)
(***************************************************************************)
EXTENDS ResourceLease, TLAPS

USE LeaseAssumption

\* Nobody has a lock, a lease or a place at first.
LEMMA InitLock == Init => LockInv
<1> SUFFICES ASSUME Init PROVE LockInv
  OBVIOUS
<1> USE DEF Init
<1>1. TypeOK
  BY DEF TypeOK, Places
<1>2. LocksAgree /\ LocksAreKnown
  BY DEF LocksAgree, LocksAreKnown
<1>3. BatchIsWhole /\ MetadataIsOwn
  BY DEF BatchIsWhole, MetadataIsOwn
<1> QED
  BY <1>1, <1>2, <1>3 DEF LockInv

LockTable == [Resources -> [Procs -> {"free", "shared", "exclusive"}]]

\* Changing one entry of the kernel's table leaves a table.
LEMMA LockTyped ==
    ASSUME TypeOK, NEW p \in Procs, NEW r \in Resources,
           NEW m \in {"free", "shared", "exclusive"}
    PROVE  [locks EXCEPT ![r][p] = m] \in LockTable
<1>1. locks \in LockTable
  BY DEF TypeOK, LockTable
<1>2. [locks[r] EXCEPT ![p] = m] \in [Procs -> {"free", "shared", "exclusive"}]
  BY <1>1 DEF LockTable
<1>3. [locks EXCEPT ![r][p] = m] = [locks EXCEPT ![r] = [locks[r] EXCEPT ![p] = m]]
  BY <1>1 DEF LockTable
<1> QED
  BY <1>1, <1>2, <1>3 DEF LockTable

\* So does freeing everything one process has.
LEMMA AllFreeTyped ==
    ASSUME TypeOK, NEW p \in Procs
    PROVE  AllFree(p) \in LockTable
<1>1. \A r \in Resources :
        [locks[r] EXCEPT ![p] = "free"] \in [Procs -> {"free", "shared", "exclusive"}]
  BY DEF TypeOK
<1> QED
  BY <1>1 DEF AllFree, LockTable

\* Every step of one process preserves the invariant: one case per action.
LEMMA NextLock == LockInv /\ [Next]_vars => LockInv'
<1> SUFFICES ASSUME LockInv, [Next]_vars PROVE LockInv'
  OBVIOUS
<1> USE DEF LockInv, TypeOK, Places, LocksAgree, LocksAreKnown, BatchIsWhole,
            MetadataIsOwn, Go, Pick, Lock
<1>1. ASSUME NEW p \in Procs, NEW resources \in SUBSET Resources, Request(p, resources)
      PROVE  LockInv'
  BY <1>1 DEF Request
<1>2. ASSUME NEW p \in Procs, NEW r \in Resources, TryLock(p, r) PROVE LockInv'
  BY <1>2 DEF TryLock, NextInOrder, Missing, Lockable
<1>3. ASSUME NEW p \in Procs, NEW r \in Resources, FindBusy(p, r) PROVE LockInv'
  <2>1. TypeOK'
    BY <1>3 DEF FindBusy
  <2>2. LocksAgree'
    BY <1>3 DEF FindBusy
  <2>3. LocksAreKnown'
    BY <1>3 DEF FindBusy
  <2>4. BatchIsWhole'
    BY <1>3 DEF FindBusy
  <2>5. MetadataIsOwn'
    BY <1>3 DEF FindBusy
  <2> QED
    BY <2>1, <2>2, <2>3, <2>4, <2>5
<1>4. ASSUME NEW p \in Procs, WriteMetadata(p) PROVE LockInv'
  BY <1>4 DEF WriteMetadata, Missing
<1>5. ASSUME NEW p \in Procs, FailMetadata(p) PROVE LockInv'
  <2>1. TypeOK'
    <3>1. meta' \in [Resources -> Procs \union {NoOne}]
      BY <1>5 DEF FailMetadata
    <3> QED
      BY <1>5, <3>1 DEF FailMetadata
  <2>2. LocksAgree'
    BY <1>5 DEF FailMetadata
  <2>3. LocksAreKnown'
    BY <1>5 DEF FailMetadata
  <2>4. BatchIsWhole'
    BY <1>5 DEF FailMetadata
  <2>5. MetadataIsOwn'
    BY <1>5 DEF FailMetadata
  <2> QED
    BY <2>1, <2>2, <2>3, <2>4, <2>5
<1>6. ASSUME NEW p \in Procs, EndWork(p) PROVE LockInv'
  BY <1>6 DEF EndWork
<1>7. ASSUME NEW p \in Procs, NEW r \in Resources, ReadMetadata(p, r) PROVE LockInv'
  BY <1>7 DEF ReadMetadata, ToRelease
<1>8. ASSUME NEW p \in Procs, Unlink(p) PROVE LockInv'
  BY <1>8 DEF Unlink
<1>9. ASSUME NEW p \in Procs, FailUnlink(p) PROVE LockInv'
  <2>1. CASE at[p] \in held[p]
    <3>1. locks' = AllFree(p) /\ locks' \in LockTable
      BY <1>9, <2>1, AllFreeTyped DEF FailUnlink
    <3>2. held' = [held EXCEPT ![p] = {}] /\ pc' = [pc EXCEPT ![p] = "done"]
      BY <1>9, <2>1 DEF FailUnlink
    <3>3. TypeOK'
      <4>1. /\ held' \in [Procs -> SUBSET Resources]
            /\ \A q \in Procs : held'[q] \subseteq wanted'[q]
        BY <1>9, <3>2 DEF FailUnlink
      <4>2. pc' \in [Procs -> Places] /\ at' \in [Procs -> Resources \union {Nowhere}]
        BY <1>9, <3>2 DEF FailUnlink
      <4>3. UNCHANGED <<meta, mode, wanted, fate>> /\ luck' \in BOOLEAN
        BY <1>9 DEF FailUnlink
      <4> QED
        BY <3>1, <4>1, <4>2, <4>3 DEF LockTable
    <3>4. LocksAgree' /\ LocksAreKnown'
      BY <1>9, <3>1, <3>2 DEF FailUnlink, AllFree
    <3>5. BatchIsWhole' /\ MetadataIsOwn'
      BY <1>9, <3>2 DEF FailUnlink
    <3> QED
      BY <3>3, <3>4, <3>5
  <2>2. CASE at[p] \notin held[p]
    <3>1. at[p] \in Resources
      BY <1>9 DEF FailUnlink
    <3>2. [locks EXCEPT ![at[p]][p] = "free"] \in LockTable
      BY <3>1, LockTyped
    <3>3. locks' = [locks EXCEPT ![at[p]][p] = "free"]
      BY <1>9, <2>2 DEF FailUnlink
    <3>4. locks' \in LockTable
      BY <3>2, <3>3
    <3>5. held' = held /\ pc' = [pc EXCEPT ![p] = "unwinding"]
      BY <1>9, <2>2 DEF FailUnlink
    <3>6. TypeOK'
      BY <1>9, <3>4, <3>5 DEF FailUnlink, LockTable
    <3>7. LocksAgree' /\ LocksAreKnown'
      BY <1>9, <2>2, <3>3, <3>4, <3>5 DEF FailUnlink
    <3>8. BatchIsWhole' /\ MetadataIsOwn'
      BY <1>9, <3>5 DEF FailUnlink
    <3> QED
      BY <3>6, <3>7, <3>8
  <2> QED
    BY <2>1, <2>2
<1>10. ASSUME NEW p \in Procs, Unlock(p) PROVE LockInv'
  <2>1. TypeOK'
    <3>1. at[p] \in Resources
      BY <1>10 DEF Unlock
    <3>2. [locks EXCEPT ![at[p]][p] = "free"] \in LockTable
      BY <3>1, LockTyped
    <3>3. locks' \in LockTable
      BY <1>10, <3>2 DEF Unlock
    <3> QED
      BY <1>10, <3>3 DEF Unlock, LockTable
  <2>2. LocksAgree'
    BY <1>10 DEF Unlock
  <2>3. LocksAreKnown'
    BY <1>10 DEF Unlock
  <2>4. BatchIsWhole'
    BY <1>10 DEF Unlock
  <2>5. MetadataIsOwn'
    BY <1>10 DEF Unlock
  <2> QED
    BY <2>1, <2>2, <2>3, <2>4, <2>5
<1>11. ASSUME NEW p \in Procs, Finish(p) PROVE LockInv'
  BY <1>11 DEF Finish
<1>12. ASSUME NEW p \in Procs, NEW r \in Resources, Probe(p, r) PROVE LockInv'
  <2>1. TypeOK'
    <3>1. locks' \in LockTable
      BY <1>12, LockTyped DEF Probe, Lockable
    <3> QED
      BY <1>12, <3>1 DEF Probe, LockTable
  <2>2. LocksAgree'
    BY <1>12 DEF Probe, Lockable
  <2>3. LocksAreKnown'
    BY <1>12 DEF Probe, Lockable
  <2>4. BatchIsWhole'
    BY <1>12 DEF Probe, Lockable
  <2>5. MetadataIsOwn'
    BY <1>12 DEF Probe, Lockable
  <2> QED
    BY <2>1, <2>2, <2>3, <2>4, <2>5
<1>13. ASSUME NEW p \in Procs, ClearStale(p) PROVE LockInv'
  BY <1>13 DEF ClearStale
<1>14. ASSUME NEW p \in Procs, EndProbe(p) PROVE LockInv'
  <2>1. TypeOK'
    <3>1. at[p] \in Resources
      BY <1>14 DEF EndProbe
    <3>2. [locks EXCEPT ![at[p]][p] = "free"] \in LockTable
      BY <3>1, LockTyped
    <3>3. locks' \in LockTable
      BY <1>14, <3>2 DEF EndProbe
    <3> QED
      BY <1>14, <3>3 DEF EndProbe, LockTable
  <2>2. LocksAgree'
    BY <1>14 DEF EndProbe
  <2>3. LocksAreKnown'
    BY <1>14 DEF EndProbe
  <2>4. BatchIsWhole'
    BY <1>14 DEF EndProbe
  <2>5. MetadataIsOwn'
    BY <1>14 DEF EndProbe
  <2> QED
    BY <2>1, <2>2, <2>3, <2>4, <2>5
<1>15. ASSUME NEW p \in Procs, Crash(p) PROVE LockInv'
  <2>1. TypeOK'
    <3>1. locks' \in LockTable
      BY <1>15, AllFreeTyped DEF Crash
    <3>2. /\ held' \in [Procs -> SUBSET Resources]
          /\ \A q \in Procs : held'[q] \subseteq wanted'[q]
      BY <1>15 DEF Crash
    <3>3. pc' \in [Procs -> Places] /\ at' \in [Procs -> Resources \union {Nowhere}]
      BY <1>15 DEF Crash
    <3>4. UNCHANGED <<meta, mode, wanted, fate>> /\ luck' \in BOOLEAN
      BY <1>15 DEF Crash
    <3> QED
      BY <3>1, <3>2, <3>3, <3>4 DEF LockTable
  <2>2. LocksAgree'
    BY <1>15 DEF Crash, AllFree
  <2>3. LocksAreKnown'
    BY <1>15 DEF Crash, AllFree
  <2>4. BatchIsWhole'
    BY <1>15 DEF Crash, AllFree
  <2>5. MetadataIsOwn'
    BY <1>15 DEF Crash, AllFree
  <2> QED
    BY <2>1, <2>2, <2>3, <2>4, <2>5
<1>16. CASE UNCHANGED vars
  BY <1>16 DEF vars
<1> QED
  BY <1>1, <1>2, <1>3, <1>4, <1>5, <1>6, <1>7, <1>8, <1>9, <1>10, <1>11, <1>12,
     <1>13, <1>14, <1>15, <1>16 DEF Next, Acquire, Release, Inspect

\* The part of the invariant about the locks holds at every moment.
LEMMA LocksHold == Spec => []LockInv
BY InitLock, NextLock, PTL DEF Spec

-----------------------------------------------------------------------------
(* The contest: who asked and who lost.                                      *)

LEMMA InitContest == Init => ContestInv
BY DEF Init, ContestInv, FatesKnown, TakenInOrder, InOrder, LosersAreBehind

\* How a request ended is known from the place of its process, after every step.
LEMMA FatesStay == LockInv /\ FatesKnown /\ [Next]_vars => FatesKnown'
<1> SUFFICES ASSUME LockInv, FatesKnown, [Next]_vars PROVE FatesKnown'
  OBVIOUS
<1> USE DEF LockInv, TypeOK, Places, FatesKnown, Go, Pick
<1>1. ASSUME NEW p \in Procs, Acquire(p) PROVE FatesKnown'
  <2>1. ASSUME NEW r \in Resources, TryLock(p, r) \/ FindBusy(p, r) PROVE FatesKnown'
    BY <2>1 DEF TryLock, FindBusy
  <2>2. ASSUME WriteMetadata(p) PROVE FatesKnown'
    BY <2>2 DEF WriteMetadata
  <2>3. ASSUME FailMetadata(p) PROVE FatesKnown'
    BY <2>3 DEF FailMetadata
  <2> QED
    BY <1>1, <2>1, <2>2, <2>3 DEF Acquire
<1>2. ASSUME NEW p \in Procs, Release(p) PROVE FatesKnown'
  <2>1. ASSUME NEW r \in Resources, ReadMetadata(p, r) PROVE FatesKnown'
    BY <2>1 DEF ReadMetadata
  <2>2. ASSUME EndWork(p) \/ Unlink(p) \/ Unlock(p) \/ Finish(p) PROVE FatesKnown'
    BY <2>2 DEF EndWork, Unlink, Unlock, Finish
  <2>3. ASSUME FailUnlink(p) PROVE FatesKnown'
    BY <2>3 DEF FailUnlink
  <2> QED
    BY <1>2, <2>1, <2>2, <2>3 DEF Release
<1>3. ASSUME NEW p \in Procs, Inspect(p) \/ Crash(p) PROVE FatesKnown'
  BY <1>3 DEF Inspect, Probe, ClearStale, EndProbe, Crash
<1>4. ASSUME NEW p \in Procs, NEW resources \in SUBSET Resources, Request(p, resources)
      PROVE  FatesKnown'
  BY <1>4 DEF Request
<1>5. CASE UNCHANGED vars
  BY <1>5 DEF vars
<1> QED
  BY <1>1, <1>2, <1>3, <1>4, <1>5 DEF Next

\* A fingerprint is a number: stated where the arithmetic needs it.
LEMMA Numbered == \A r \in Resources : r \in Nat
BY Zenon

LEMMA NextIsLater == \A a, b \in Nat : a <= b /\ b # a => a < b
OBVIOUS

\* Where a process is in its batch is what it was, or no matter any more.
OrderUntouched(q) ==
    pc'[q] \in {"acquiring", "writing"} =>
        /\ pc'[q] = pc[q] /\ at'[q] = at[q]
        /\ held'[q] = held[q] /\ wanted'[q] = wanted[q]

LEMMA UntouchedStays ==
    ASSUME NEW q \in Procs, InOrder(q), OrderUntouched(q)
    PROVE  InOrder(q)'
<1>1. CASE pc'[q] \in {"acquiring", "writing"}
  <2>1. pc'[q] = pc[q] /\ at'[q] = at[q] /\ held'[q] = held[q] /\ Missing(q)' = Missing(q)
    BY <1>1 DEF OrderUntouched, Missing
  <2> QED
    BY <2>1 DEF InOrder, NextInOrder
<1>2. CASE pc'[q] \notin {"acquiring", "writing"}
  BY <1>2 DEF InOrder
<1> QED
  BY <1>1, <1>2

\* The lock just taken is the next in order.
LEMMA LockedIsNext ==
    ASSUME NEW p \in Procs, NEW r \in Resources, InOrder(p), NextInOrder(p, r),
           pc[p] = "acquiring", UNCHANGED <<wanted, held>>, at'[p] = r
    PROVE  InOrder(p)'
<1>1. Missing(p)' = Missing(p) /\ held'[p] = held[p]
  BY DEF Missing
<1>2. at'[p] \in Missing(p)' /\ \A q \in Missing(p)' : at'[p] <= q
  BY <1>1, Zenon DEF NextInOrder
<1>3. \A h \in held'[p], m \in Missing(p)' : h < m
  BY <1>1, Zenon DEF InOrder
<1> QED
  BY <1>2, <1>3, Zenon DEF InOrder, NextInOrder

\* The locks of a batch are taken in order, after every step.
LEMMA OrderStays == LockInv /\ TakenInOrder /\ [Next]_vars => TakenInOrder'
<1> SUFFICES ASSUME LockInv, TakenInOrder, [Next]_vars PROVE TakenInOrder'
  OBVIOUS
<1> USE DEF LockInv, TypeOK, Places, LocksAreKnown, BatchIsWhole, Go, Pick
<1>0. ASSUME \A q \in Procs : OrderUntouched(q) PROVE TakenInOrder'
  BY <1>0, UntouchedStays DEF TakenInOrder
<1>1. ASSUME NEW p \in Procs, Acquire(p) PROVE TakenInOrder'
  <2>1. ASSUME NEW r \in Resources, TryLock(p, r) PROVE TakenInOrder'
    <3>1. /\ pc[p] = "acquiring" /\ NextInOrder(p, r) /\ UNCHANGED <<wanted, held>>
          /\ pc' = [pc EXCEPT ![p] = "writing"] /\ at' = [at EXCEPT ![p] = r]
      BY <2>1 DEF TryLock
    <3>2. at'[p] = r
      BY <3>1
    <3>3. InOrder(p)'
      BY <3>1, <3>2, LockedIsNext DEF TakenInOrder
    <3>4. \A q \in Procs : q # p => OrderUntouched(q)
      BY <3>1 DEF OrderUntouched
    <3> QED
      BY <3>3, <3>4, UntouchedStays DEF TakenInOrder
  <2>2. ASSUME NEW r \in Resources, FindBusy(p, r) PROVE TakenInOrder'
    BY <1>0, <2>2 DEF FindBusy, OrderUntouched
  <2>3. ASSUME WriteMetadata(p) PROVE TakenInOrder'
    <3>1. /\ pc[p] = "writing" /\ at[p] \in Resources /\ at[p] \in Missing(p)
          /\ InOrder(p) /\ NextInOrder(p, at[p])
      BY <2>3 DEF WriteMetadata, TakenInOrder, InOrder, NextInOrder
    <3>2. /\ held' = [held EXCEPT ![p] = @ \union {at[p]}] /\ UNCHANGED wanted
          /\ pc'[p] # "writing"
      BY <2>3 DEF WriteMetadata
    <3>3. ASSUME NEW h \in held'[p], NEW m \in Missing(p)' PROVE h < m
      <4>1. m \in Missing(p) /\ m # at[p] /\ (h \in held[p] \/ h = at[p])
        BY <3>2 DEF Missing
      <4>2. m \in Nat /\ at[p] \in Nat
        BY <3>1, <4>1, Numbered DEF Missing
      <4>3. at[p] <= m
        BY <3>1, <4>1 DEF NextInOrder
      <4>4. at[p] < m
        BY <4>1, <4>2, <4>3, NextIsLater
      <4>5. h \in held[p] => h < m
        BY <3>1, <4>1 DEF InOrder
      <4> QED
        BY <4>1, <4>4, <4>5
    <3>4. InOrder(p)'
      BY <3>2, <3>3 DEF InOrder
    <3>5. \A q \in Procs : q # p => OrderUntouched(q)
      BY <2>3 DEF WriteMetadata, OrderUntouched
    <3> QED
      BY <3>4, <3>5, UntouchedStays DEF TakenInOrder
  <2>4. ASSUME FailMetadata(p) PROVE TakenInOrder'
    BY <1>0, <2>4 DEF FailMetadata, OrderUntouched
  <2> QED
    BY <1>1, <2>1, <2>2, <2>3, <2>4 DEF Acquire
<1>2. ASSUME NEW p \in Procs, Release(p) PROVE TakenInOrder'
  <2>1. ASSUME NEW r \in Resources, ReadMetadata(p, r) PROVE TakenInOrder'
    BY <1>0, <2>1 DEF ReadMetadata, OrderUntouched
  <2>2. ASSUME EndWork(p) \/ Unlink(p) \/ Unlock(p) \/ Finish(p) PROVE TakenInOrder'
    BY <1>0, <2>2 DEF EndWork, Unlink, Unlock, Finish, OrderUntouched
  <2>3. ASSUME FailUnlink(p) PROVE TakenInOrder'
    <3>1. \A q \in Procs : OrderUntouched(q)
      BY <2>3 DEF FailUnlink, OrderUntouched
    <3> QED
      BY <1>0, <3>1
  <2> QED
    BY <1>2, <2>1, <2>2, <2>3 DEF Release
<1>3. ASSUME NEW p \in Procs, Inspect(p) \/ Crash(p) PROVE TakenInOrder'
  BY <1>0, <1>3 DEF Inspect, Probe, ClearStale, EndProbe, Crash, OrderUntouched
<1>4. ASSUME NEW p \in Procs, NEW resources \in SUBSET Resources, Request(p, resources)
      PROVE  TakenInOrder'
  <2>1. held'[p] = {} /\ pc'[p] = "acquiring"
    BY <1>4 DEF Request
  <2>2. InOrder(p)'
    BY <2>1 DEF InOrder
  <2>3. \A q \in Procs : q # p => OrderUntouched(q)
    BY <1>4 DEF Request, OrderUntouched
  <2> QED
    BY <2>2, <2>3, UntouchedStays DEF TakenInOrder
<1>5. CASE UNCHANGED vars
  BY <1>0, <1>5 DEF vars, OrderUntouched
<1> QED
  BY <1>1, <1>2, <1>3, <1>4, <1>5 DEF Next

\* A step that is no refusal leaves the contest as it was: nobody drops out of it,
\* nobody loses what they have reached, and no loser gets a lock.
ContestGoesOn ==
    /\ luck' => luck
    /\ \A q \in Procs :
          /\ fate'[q] = "lost" => fate[q] = "lost"
          /\ InContest(q) => InContest(q)'
          /\ InContest(q) => Reached(q) \subseteq Reached(q)'
          /\ fate[q] = "lost" =>
                \A r \in Resources : locks'[r][q] # "free" => locks[r][q] # "free"

LEMMA GoingOnIsEnough == LosersAreBehind /\ ContestGoesOn => LosersAreBehind'
BY DEF LosersAreBehind, ContestGoesOn

\* Who finds a resource busy is behind somebody: the one who has it, or the one
\* that a loser who has it is behind.
LEMMA RefusalIsBehind ==
    ASSUME LockInv, ContestInv, NEW p \in Procs, NEW r \in Resources,
           FindBusy(p, r), luck'
    PROVE  LosersAreBehind'
<1> USE DEF LockInv, ContestInv
<1>1. /\ pc[p] = "acquiring" /\ fate[p] = "open" /\ at[p] = Nowhere
      /\ luck = TRUE /\ ~Lockable(r, mode[p])
  BY DEF FindBusy, FatesKnown, LocksAreKnown, TypeOK
<1>2. /\ fate' = [fate EXCEPT ![p] = "lost"] /\ pc' = [pc EXCEPT ![p] = "unwinding"]
      /\ UNCHANGED <<locks, wanted, held, at>>
  BY DEF FindBusy, Go
<1>3. r \in Missing(p) /\ \A h \in held[p] : h < r
  BY <1>1 DEF FindBusy, NextInOrder, TakenInOrder, InOrder
<1>4. \A s \in Resources : locks[s][p] # "free" => s \in held[p]
  BY <1>1 DEF LocksAreKnown
<1>5. PICK q1 \in Procs : locks[r][q1] # "free"
  BY <1>1 DEF Lockable
<1>6. q1 # p
  BY <1>3, <1>4, <1>5 DEF Missing
<1>7. /\ r \in Nat /\ \A s \in Resources : s \in Nat
      /\ \A q \in Procs : held[q] \subseteq Resources /\ wanted[q] \subseteq Resources
                         /\ held[q] \subseteq wanted[q]
  BY Numbered DEF TypeOK
<1>8. \A q \in Procs : Reached(q) \subseteq Resources
  BY <1>7 DEF Reached, TypeOK
<1>13. Reached(p) = held[p]
  BY <1>1 DEF Reached
<1>9. PICK q2 \in Procs : InContest(q2) /\ q2 # p /\ \E s \in Reached(q2) : r <= s
  <2>1. CASE fate[q1] # "lost"
    <3>1. r \in held[q1] \/ r = at[q1]
      BY <1>5 DEF LocksAreKnown
    <3>2. pc[q1] # "idle"
      BY <3>1 DEF LocksAreKnown
    <3>3. r \in Reached(q1)
      <4>1. CASE fate[q1] # "won"
        BY <3>1, <4>1 DEF Reached
      <4>2. CASE fate[q1] = "won" /\ r \in held[q1]
        BY <1>7, <4>2 DEF Reached
      <4>3. CASE fate[q1] = "won" /\ r = at[q1]
        BY <1>1, <4>3 DEF Reached, BatchIsWhole, FatesKnown
      <4> QED
        BY <3>1, <4>1, <4>2, <4>3
    <3>4. InContest(q1) /\ r \in Reached(q1) /\ r <= r
      BY <1>7, <2>1, <3>2, <3>3 DEF InContest
    <3> QED
      BY <1>6, <3>4
  <2>2. CASE fate[q1] = "lost"
    <3>1. PICK q \in Procs : InContest(q) /\ \E s \in Reached(q) : r < s
      BY <1>1, <1>5, <2>2 DEF LosersAreBehind
    <3>2. PICK s \in Reached(q) : r < s
      BY <3>1
    <3>3. s \in Nat
      BY <1>7, <1>8
    <3>4. r <= s /\ ~(s < r)
      BY <1>7, <3>2, <3>3
    <3>5. q # p
      BY <1>3, <1>13, <3>4
    <3> QED
      BY <3>1, <3>4, <3>5
  <2> QED
    BY <2>1, <2>2
<1>10. \A q \in Procs : q # p => /\ InContest(q)' = InContest(q)
                                /\ Reached(q)' = Reached(q)
                                /\ fate'[q] = fate[q]
  BY <1>2 DEF InContest, Reached, TypeOK
<1>11. \A q \in Procs, t \in Resources :
          fate'[q] = "lost" /\ locks[t][q] # "free" =>
            \E w \in Procs : InContest(w)' /\ \E s \in Reached(w)' : t < s
  <2> SUFFICES ASSUME NEW q \in Procs, NEW t \in Resources,
                      fate'[q] = "lost", locks[t][q] # "free"
               PROVE  \E w \in Procs : InContest(w)' /\ \E s \in Reached(w)' : t < s
    OBVIOUS
  <2>1. t < r \/ \E w \in Procs : w # p /\ InContest(w) /\ \E s \in Reached(w) : t < s
    <3>1. CASE q = p
      BY <1>3, <1>4, <3>1
    <3>2. CASE q # p
      <4>1. PICK w \in Procs : InContest(w) /\ \E s \in Reached(w) : t < s
        BY <1>1, <1>10, <3>2 DEF LosersAreBehind
      <4>2. CASE w # p
        BY <4>1, <4>2
      <4>3. CASE w = p
        <5>1. PICK s \in held[p] : t < s
          BY <1>13, <4>1, <4>3
        <5>2. t \in Nat /\ s \in Nat /\ s < r
          BY <1>3, <1>7
        <5>3. t < r
          BY <1>7, <5>1, <5>2
        <5> QED
          BY <5>3
      <4> QED
        BY <4>2, <4>3
    <3> QED
      BY <3>1, <3>2
  <2>2. CASE t < r
    <3>1. PICK s \in Reached(q2) : r <= s
      BY <1>9
    <3>2. t < s
      <4>1. t \in Nat /\ s \in Nat
        BY <1>7, <1>8
      <4> QED
        BY <1>7, <2>2, <3>1, <4>1
    <3> QED
      BY <1>9, <1>10, <3>1, <3>2
  <2>3. CASE \E w \in Procs : w # p /\ InContest(w) /\ \E s \in Reached(w) : t < s
    BY <1>10, <2>3
  <2> QED
    BY <2>1, <2>2, <2>3
<1>12. \E q \in Procs : InContest(q)'
  BY <1>9, <1>10
<1> QED
  BY <1>2, <1>11, <1>12 DEF LosersAreBehind

\* The quiet steps of a release touch no lock and bring nobody back to the start.
LEMMA QuietRelease ==
    ASSUME TypeOK, NEW p \in Procs, EndWork(p) \/ Unlink(p) \/ Finish(p)
    PROVE  /\ UNCHANGED <<locks, wanted, held, at, fate, luck>>
           /\ \A q \in Procs : pc[q] # "idle" => pc'[q] # "idle"
<1>1. UNCHANGED <<locks, wanted, held, at, fate, luck>>
  BY DEF EndWork, Unlink, Finish
<1>2. PICK place \in Places : place # "idle" /\ pc' = [pc EXCEPT ![p] = place]
  BY DEF EndWork, Unlink, Finish, Go, Places
<1> QED
  BY <1>1, <1>2 DEF TypeOK

\* Nobody who lost is alone: every other step lets the contest go on, or ends the
\* luck.
LEMMA LosersStayBehind == LockInv /\ ContestInv /\ [Next]_vars => LosersAreBehind'
<1> SUFFICES ASSUME LockInv, ContestInv, [Next]_vars, luck' PROVE LosersAreBehind'
  BY DEF LosersAreBehind
<1> USE DEF LockInv, TypeOK, Places, ContestInv, FatesKnown, LocksAreKnown,
            ContestGoesOn, InContest, Go, Pick
<1>1. ASSUME NEW p \in Procs, NEW resources \in SUBSET Resources, Request(p, resources)
      PROVE  LosersAreBehind'
  <2>1. ContestGoesOn
    BY <1>1 DEF Request, Reached
  <2> QED
    BY <2>1, GoingOnIsEnough
<1>2. ASSUME NEW p \in Procs, NEW r \in Resources, TryLock(p, r) PROVE LosersAreBehind'
  <2>1. fate[p] = "open" /\ at[p] = Nowhere
    BY <1>2 DEF TryLock
  <2>2. \A q \in Procs, t \in Resources : q # p => locks'[t][q] = locks[t][q]
    BY <1>2 DEF TryLock, Lock
  <2>3. ContestGoesOn
    BY <1>2, <2>1, <2>2 DEF TryLock, Reached
  <2> QED
    BY <2>3, GoingOnIsEnough
<1>3. ASSUME NEW p \in Procs, NEW r \in Resources, FindBusy(p, r) PROVE LosersAreBehind'
  BY <1>3, RefusalIsBehind
<1>4. ASSUME NEW p \in Procs, WriteMetadata(p) PROVE LosersAreBehind'
  <2>1. fate[p] = "open" /\ at[p] \in Resources /\ at[p] \in wanted[p]
    BY <1>4 DEF WriteMetadata, BatchIsWhole
  <2>2. Reached(p) \subseteq Reached(p)'
    BY <1>4, <2>1 DEF WriteMetadata, Reached, Missing
  <2>3. ContestGoesOn
    BY <1>4, <2>1, <2>2 DEF WriteMetadata, Reached
  <2> QED
    BY <2>3, GoingOnIsEnough
<1>5. ASSUME NEW p \in Procs, FailMetadata(p) \/ FailUnlink(p) \/ Crash(p) \/ Inspect(p)
      PROVE  LosersAreBehind'
  BY <1>5 DEF FailMetadata, FailUnlink, Crash, Inspect, Probe, ClearStale, EndProbe
<1>6. ASSUME NEW p \in Procs, EndWork(p) \/ Unlink(p) \/ Finish(p) PROVE LosersAreBehind'
  <2>1. /\ UNCHANGED <<locks, wanted, held, at, fate, luck>>
        /\ \A q \in Procs : pc[q] # "idle" => pc'[q] # "idle"
    BY <1>6, QuietRelease
  <2>2. \A q \in Procs : Reached(q)' = Reached(q)
    BY <2>1 DEF Reached
  <2>3. ContestGoesOn
    BY <2>1, <2>2
  <2> QED
    BY <2>3, GoingOnIsEnough
<1>7. ASSUME NEW p \in Procs, NEW r \in Resources, ReadMetadata(p, r) PROVE LosersAreBehind'
  <2>1. ContestGoesOn
    BY <1>7 DEF ReadMetadata, Reached
  <2> QED
    BY <2>1, GoingOnIsEnough
<1>8. ASSUME NEW p \in Procs, Unlock(p) PROVE LosersAreBehind'
  <2>1. \A q \in Procs, t \in Resources : locks'[t][q] # "free" => locks[t][q] # "free"
    BY <1>8 DEF Unlock, Lock
  <2>2. ContestGoesOn
    BY <1>8, <2>1 DEF Unlock, Reached
  <2> QED
    BY <2>2, GoingOnIsEnough
<1>9. CASE UNCHANGED vars
  <2>1. ContestGoesOn
    BY <1>9 DEF vars, Reached
  <2> QED
    BY <2>1, GoingOnIsEnough
<1> QED
  BY <1>1, <1>2, <1>3, <1>4, <1>5, <1>6, <1>7, <1>8, <1>9 DEF Next, Acquire, Release

\* The invariant holds at every moment.
THEOREM LeaseInvariantHolds == Spec => []LeaseInv
<1>1. Init => LeaseInv
  BY InitLock, InitContest DEF LeaseInv
<1>2. LeaseInv /\ [Next]_vars => LeaseInv'
  BY NextLock, FatesStay, OrderStays, LosersStayBehind DEF LeaseInv, ContestInv
<1> QED
  BY <1>1, <1>2, PTL DEF Spec

\* A contest has a winner, for any number of processes and any numbered set of
\* resources: batches are taken in one order, so behind every refusal there is
\* somebody further on who has not been refused (acquire_many sorts).
THEOREM ContestHasWinner == Spec => []SomeoneWins
<1>1. LeaseInv => SomeoneWins
  BY DEF LeaseInv, ContestInv, LosersAreBehind, InContest, SomeoneWins
<1> QED
  BY <1>1, LeaseInvariantHolds, PTL

\* The lease variables keep their types, and nothing is collected that was not
\* asked for.
THEOREM LeaseTypeCorrect == Spec => []TypeOK
<1>1. LockInv => TypeOK
  BY DEF LockInv
<1> QED
  BY <1>1, LocksHold, PTL

\* Two processes that drive one instrument at a time both share it, for any number
\* of processes and resources (acquire_many, FileLock.acquire).
THEOREM ExclusiveWork == Spec => []WorkIsExclusive
<1>1. LockInv => WorkIsExclusive
  <2> SUFFICES ASSUME LockInv, NEW p \in Procs, NEW q \in Procs,
                      p # q, pc[p] = "working", pc[q] = "working",
                      NEW r \in wanted[p] \intersect wanted[q]
               PROVE  mode[p] = "shared" /\ mode[q] = "shared"
    BY DEF WorkIsExclusive
  <2>1. r \in Resources /\ r \in held[p] /\ r \in held[q]
    BY DEF LockInv, TypeOK, BatchIsWhole
  <2>2. locks[r][p] = mode[p] /\ locks[r][q] = mode[q]
    BY <2>1 DEF LockInv, LocksAreKnown
  <2>3. mode[p] \in {"shared", "exclusive"} /\ mode[q] \in {"shared", "exclusive"}
    BY DEF LockInv, TypeOK
  <2> QED
    BY <2>1, <2>2, <2>3 DEF LockInv, LocksAgree
<1> QED
  BY <1>1, LocksHold, PTL

\* The sidecar metadata of a resource names the exclusive session that works on it,
\* whatever other processes do (clear_stale_metadata, _remove_own_metadata).
THEOREM HolderNamed == Spec => []MetadataNamesHolder
<1>1. LockInv => MetadataNamesHolder
  BY DEF LockInv, BatchIsWhole, MetadataIsOwn, MetadataNamesHolder
<1> QED
  BY <1>1, LocksHold, PTL

\* A request that is over keeps no kernel lock (the unwinding of acquire_many).
THEOREM NoLockKept == Spec => []NothingIsKept
<1>1. LockInv => NothingIsKept
  BY DEF LockInv, TypeOK, LocksAreKnown, NothingIsKept
<1> QED
  BY <1>1, LocksHold, PTL

-----------------------------------------------------------------------------
(* The leases implement LeaseTable.                                          *)

LEMMA InitPromise == Init => Promise!Init
BY DEF Init, Promise!Init, Batch

\* Nothing a session can see changes unless a batch is completed or taken back.
LEMMA BatchStays ==
    ASSUME \A q \in Procs : /\ pc'[q] = "working" <=> pc[q] = "working"
                            /\ pc[q] = "working" => wanted'[q] = wanted[q]
    PROVE  Batch' = Batch
<1>1. \A q \in Procs : (IF pc'[q] = "working" THEN wanted'[q] ELSE {})
                        = IF pc[q] = "working" THEN wanted[q] ELSE {}
  <2> TAKE q \in Procs
  <2>1. CASE pc[q] = "working"
    BY <2>1
  <2>2. CASE pc[q] # "working"
    BY <2>2
  <2> QED
    BY <2>1, <2>2
<1> QED
  BY <1>1, Zenon DEF Batch

LEMMA BatchIsReturned ==
    ASSUME NEW p \in Procs, pc'[p] # "working", wanted' = wanted,
           \A q \in Procs : q # p => pc'[q] = pc[q]
    PROVE  Promise!Return(p)
<1>1. \A q \in Procs : Batch'[q] = IF q = p THEN {} ELSE Batch[q]
  BY DEF Batch
<1> QED
  BY <1>1 DEF Batch, Promise!Return

\* The last metadata write of a batch gives out the whole of it, and what is out
\* agrees because the kernel's locks do.
LEMMA BatchIsGranted ==
    ASSUME LockInv, LockInv', WorkIsExclusive', NEW p \in Procs,
           WriteMetadata(p), Missing(p) = {at[p]}
    PROVE  Promise!Grant(p, wanted[p])
<1>1. /\ pc[p] = "writing" /\ pc' = [pc EXCEPT ![p] = "working"]
      /\ UNCHANGED <<wanted, mode>>
  BY DEF WriteMetadata, Go
<1>2. pc'[p] = "working" /\ \A q \in Procs : q # p => pc'[q] = pc[q]
  BY <1>1 DEF LockInv, TypeOK
<1>3. Batch[p] = {} /\ \A q \in Procs : Batch'[q] = IF q = p THEN wanted[p] ELSE Batch[q]
  BY <1>1, <1>2 DEF Batch
<1>4. ASSUME NEW q \in Procs \ {p}, Batch[q] \intersect wanted[p] # {}
      PROVE  mode[p] = "shared" /\ mode[q] = "shared"
  <2>1. pc'[q] = "working" /\ wanted'[p] \intersect wanted'[q] # {}
    BY <1>1, <1>2, <1>4 DEF Batch
  <2> QED
    BY <1>1, <1>2, <2>1 DEF WorkIsExclusive
<1> QED
  BY <1>3, <1>4 DEF Batch, Promise!Grant, Promise!Agrees

\* Every step of a process is a step of the table: one case per action that a
\* session can see, and one for the others.
LEMMA StepKeepsPromise ==
    LockInv /\ LockInv' /\ WorkIsExclusive' /\ MetadataNamesHolder' /\ [Next]_vars
      => Promise!Next
<1> SUFFICES ASSUME LockInv, LockInv', WorkIsExclusive', MetadataNamesHolder', [Next]_vars
             PROVE  Promise!Next
  OBVIOUS
<1>1. mode' = mode
  BY DEF Next, Request, Acquire, TryLock, FindBusy, WriteMetadata, FailMetadata, Release,
         EndWork, ReadMetadata, Unlink, FailUnlink, Unlock, Finish, Inspect, Probe,
         ClearStale, EndProbe, Crash, vars
<1>2. Promise!NotesHold'
  <2>1. \A p \in Procs : Batch'[p] = IF pc'[p] = "working" THEN wanted'[p] ELSE {}
    BY DEF Batch
  <2> QED
    BY <2>1 DEF MetadataNamesHolder, Promise!NotesHold
<1>3. SUFFICES \/ \E p \in Procs, resources \in SUBSET Resources : Promise!Grant(p, resources)
               \/ \E p \in Procs : Promise!Return(p)
               \/ Promise!Note
  BY <1>1, <1>2 DEF Promise!Next
<1> USE DEF TypeOK, LockInv, Go
<1>4. ASSUME NEW p \in Procs, WriteMetadata(p)
      PROVE  Promise!Note \/ \E resources \in SUBSET Resources : Promise!Grant(p, resources)
  <2>1. CASE Missing(p) = {at[p]}
    BY <1>4, <2>1, BatchIsGranted
  <2>2. CASE Missing(p) # {at[p]}
    <3>1. pc[p] = "writing" /\ pc' = [pc EXCEPT ![p] = "acquiring"] /\ wanted' = wanted
      BY <1>4, <2>2 DEF WriteMetadata
    <3> QED
      BY <3>1, BatchStays DEF Promise!Note
  <2> QED
    BY <2>1, <2>2
<1>5. ASSUME NEW p \in Procs, EndWork(p) \/ Crash(p) PROVE Promise!Return(p)
  <2>1. wanted' = wanted /\ pc'[p] # "working" /\ \A q \in Procs : q # p => pc'[q] = pc[q]
    BY <1>5 DEF EndWork, Crash
  <2> QED
    BY <2>1, BatchIsReturned
<1>6. ASSUME NEW p \in Procs, NEW resources \in SUBSET Resources, Request(p, resources)
      PROVE  Promise!Note
  BY <1>6, BatchStays DEF Request, Promise!Note
<1>7. ASSUME NEW p \in Procs, NEW r \in Resources,
             TryLock(p, r) \/ FindBusy(p, r) \/ ReadMetadata(p, r) \/ Probe(p, r)
      PROVE  Promise!Note
  <2>1. PICK place \in Places \ {"working"} :
           pc[p] # "working" /\ pc' = [pc EXCEPT ![p] = place] /\ wanted' = wanted
    BY <1>7 DEF TryLock, FindBusy, ReadMetadata, Probe, Places
  <2> QED
    BY <2>1, BatchStays DEF Promise!Note
<1>8. ASSUME NEW p \in Procs,
             \/ FailMetadata(p) \/ Unlink(p) \/ FailUnlink(p) \/ Unlock(p) \/ Finish(p)
             \/ EndProbe(p)
      PROVE  Promise!Note
  <2>1. PICK place \in Places \ {"working"} :
           pc[p] # "working" /\ pc' = [pc EXCEPT ![p] = place] /\ wanted' = wanted
    BY <1>8 DEF FailMetadata, Unlink, FailUnlink, Unlock, Finish, EndProbe, Places
  <2> QED
    BY <2>1, BatchStays DEF Promise!Note
<1>9. ASSUME (\E p \in Procs : ClearStale(p)) \/ UNCHANGED vars PROVE Promise!Note
  BY <1>9, BatchStays DEF ClearStale, vars, Promise!Note
<1> QED
  BY <1>4, <1>5, <1>6, <1>7, <1>8, <1>9 DEF Next, Acquire, Release, Inspect

\* The locks, the metadata and the unwinding implement the table of batches: a batch
\* is granted whole to at most one exclusive session and taken back whole, and the
\* notes name whoever holds it, for any number of processes and resources.
THEOREM LeasesAreBatches == Spec => PromiseKept
<1>1. LockInv /\ LockInv' /\ WorkIsExclusive' /\ MetadataNamesHolder' /\ [Next]_vars
        => [Promise!Next]_(Promise!vars)
  BY StepKeepsPromise
<1> QED
  BY <1>1, InitPromise, LocksHold, ExclusiveWork, HolderNamed, PTL
     DEF Spec, PromiseKept, Promise!Spec

=============================================================================
