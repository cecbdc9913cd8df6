-------------------------- MODULE TagServer_proofs --------------------------
(* Proofs that the safety properties of TagServer hold for every value of  *)
(* its constants.                                                          *)
EXTENDS TagServer, TLAPS

(* What the operators of the mutex do. *)
LEMMA MutexOps ==
  ASSUME NEW m \in RWMutexes(Clients), NEW c \in Clients
  PROVE  /\ RLock(m, c) \in RWMutexes(Clients)
         /\ RLock(m, c).writer = m.writer
         /\ m.writer = "none" => /\ RLock(m, c).active = m.active \cup {c}
                                 /\ RLock(m, c).blocked = m.blocked
         /\ m.writer # "none" => /\ RLock(m, c).active = m.active
                                 /\ RLock(m, c).blocked = m.blocked \cup {c}
         /\ RUnlock(m, c) \in RWMutexes(Clients)
         /\ RUnlock(m, c).writer = m.writer
         /\ RUnlock(m, c).active = m.active \ {c}
         /\ RUnlock(m, c).blocked = m.blocked
<1>1. CASE m.writer = "none"  BY <1>1 DEF RWMutexes, RLock, RUnlock
<1>2. CASE m.writer # "none"  BY <1>2 DEF RWMutexes, RLock, RUnlock
<1> QED BY <1>1, <1>2

LEMMA WriterOps ==
  ASSUME NEW m \in RWMutexes(Clients)
  PROVE  /\ AnnounceLock(m) \in RWMutexes(Clients)
         /\ AnnounceLock(m).writer = "waiting"
         /\ AnnounceLock(m).active = m.active
         /\ AnnounceLock(m).blocked = m.blocked
         /\ Hold(m) \in RWMutexes(Clients)
         /\ Hold(m).writer = "held"
         /\ Hold(m).active = m.active
         /\ Hold(m).blocked = m.blocked
         /\ Unlock(m) \in RWMutexes(Clients)
         /\ Unlock(m).writer = "none"
         /\ Unlock(m).active = m.blocked
         /\ Unlock(m).blocked = {}
BY DEF RWMutexes, AnnounceLock, Hold, Unlock

LEMMA NoIndexTyped == NoIndex \in Index
BY ConstantsAssumption DEF NoIndex, Index

(* A publication writes one index, whatever time its sentinel gets. *)
LEMMA PublishWrites ==
  ASSUME TypeOK, NEW t \in Tags, Publish(t)
  PROVE  \E m \in 1..(published + 1) :
           disk' = [disk EXCEPT ![t] = [gen |-> published + 1, mtime |-> m]]
<1>1. CASE Relinking
  BY <1>1 DEF Publish
<1>2. CASE ~Relinking
  <2>1. published + 1 \in 1..(published + 1)
    BY ConstantsAssumption DEF TypeOK
  <2> QED BY <1>2, <2>1 DEF Publish
<1> QED BY <1>1, <1>2

(* What each part of the invariant depends on.                             *)
LEMMA GenerationsFrame ==
  ASSUME GenerationsOrdered, UNCHANGED <<disk, published, handler, seen, registered>>
  PROVE  GenerationsOrdered'
BY DEF GenerationsOrdered, OrderedAt, Loaded

LEMMA UpdaterFrame ==
  ASSUME UpdaterOK, UNCHANGED <<disk, published, handler, lock, upc, cur, fresh>>
  PROVE  UpdaterOK'
BY DEF UpdaterOK, Loaded

LEMMA ReadersFrame ==
  ASSUME ReadersAccounted, UNCHANGED <<lock, pc, req>>
  PROVE  ReadersAccounted'
BY DEF ReadersAccounted, ReaderAccounted, InLock

LEMMA WriterFrame ==
  ASSUME WriterAccounted, UNCHANGED <<lock, upc, cur>>
  PROVE  WriterAccounted'
BY DEF WriterAccounted

LEMMA ClientsFrame ==
  ASSUME ClientsOK, UNCHANGED <<handler, lock, pc, req, got, seen, floor>>
  PROVE  ClientsOK'
BY DEF ClientsOK, ClientOK, Loaded

-----------------------------------------------------------------------------
(* Each action keeps the invariant.                                        *)

LEMMA PublishKeeps ==
  ASSUME TypeOK, GenerationsOrdered, UpdaterOK, ReadersAccounted, WriterAccounted,
         ClientsOK,
         NEW t \in Tags,
         Publish(t)
  PROVE  ServerInv'
<1>1. TypeOK'
  <2>1. PICK m \in 1..(published + 1) :
          disk' = [disk EXCEPT ![t] = [gen |-> published + 1, mtime |-> m]]
    BY PublishWrites
  <2>2. published < MaxPublish /\ published' = published + 1
    BY DEF Publish
  <2>3. [gen |-> published + 1, mtime |-> m] \in Index
    BY <2>1, <2>2, ConstantsAssumption DEF TypeOK, Index
  <2>4. disk' \in [Tags -> Index]
    BY <2>1, <2>3 DEF TypeOK
  <2> QED BY <2>2, <2>4, ConstantsAssumption
          DEF TypeOK, Publish, diskVars, tagVars, updVars, cliVars, limits
<1>2. GenerationsOrdered'
  <2> SUFFICES ASSUME NEW u \in Tags PROVE OrderedAt(u)'
    BY DEF GenerationsOrdered
  <2>1. PICK m \in 1..(published + 1) :
          disk' = [disk EXCEPT ![t] = [gen |-> published + 1, mtime |-> m]]
    BY PublishWrites
  <2>2. /\ published \in Nat /\ published' = published + 1
        /\ handler[u].gen \in Nat /\ disk[u].gen \in Nat /\ seen[u] \in Nat
    BY DEF Publish, TypeOK, Index
  <2>3. UNCHANGED <<handler, seen, registered>>
    BY DEF Publish, tagVars, cliVars
  <2>4. OrderedAt(u)
    BY DEF GenerationsOrdered
  <2>5. CASE u = t
    <3>1. disk'[u] = [gen |-> published + 1, mtime |-> m]
      BY <2>1, <2>5 DEF TypeOK
    <3> QED BY <2>2, <2>3, <2>4, <3>1 DEF OrderedAt, Loaded, NoIndex
  <2>6. CASE u # t
    <3>1. disk'[u] = disk[u]
      BY <2>1, <2>6 DEF TypeOK
    <3> QED BY <2>2, <2>3, <2>4, <3>1 DEF OrderedAt, Loaded, NoIndex
  <2> QED BY <2>5, <2>6
<1>3. UpdaterOK'
  <2>1. PICK m \in 1..(published + 1) :
          disk' = [disk EXCEPT ![t] = [gen |-> published + 1, mtime |-> m]]
    BY PublishWrites
  <2>2. /\ published \in Nat /\ published' = published + 1 /\ fresh.gen \in Nat
        /\ disk'[cur].gen = IF cur = t THEN published + 1 ELSE disk[cur].gen
        /\ UNCHANGED <<handler, upc, cur, fresh, lock>>
    BY <2>1 DEF Publish, TypeOK, Index, tagVars, updVars
  <2> QED BY <2>2 DEF UpdaterOK, Loaded
<1>4. ReadersAccounted'
  BY ReadersFrame DEF Publish, cliVars
<1>5. WriterAccounted'
  BY WriterFrame DEF Publish, updVars
<1>6. ClientsOK'
  <2>1. UNCHANGED <<pc, req, got, floor, seen, handler, lock>>
    BY DEF Publish, tagVars, cliVars
  <2> QED BY <2>1 DEF ClientsOK, ClientOK, Loaded
<1> QED BY <1>1, <1>2, <1>3, <1>4, <1>5, <1>6 DEF ServerInv

LEMMA RemoveKeeps ==
  ASSUME TypeOK, GenerationsOrdered, UpdaterOK, ReadersAccounted, WriterAccounted,
         ClientsOK,
         NEW t \in Tags,
         Remove(t)
  PROVE  ServerInv'
<1>1. TypeOK'
  <2>1. disk' \in [Tags -> Index]
    BY NoIndexTyped DEF Remove, TypeOK
  <2> QED BY <2>1 DEF TypeOK, Remove, diskVars, tagVars, updVars, cliVars, limits
<1>2. GenerationsOrdered'
  BY DEF Remove, GenerationsOrdered, OrderedAt, Loaded, TypeOK, NoIndex, tagVars,
     cliVars
<1>3. UpdaterOK'
  BY DEF Remove, UpdaterOK, Loaded, NoIndex, tagVars, updVars
<1>4. ReadersAccounted'
  BY ReadersFrame DEF Remove, cliVars
<1>5. WriterAccounted'
  BY WriterFrame DEF Remove, updVars
<1>6. ClientsOK'
  BY ClientsFrame DEF Remove, tagVars, cliVars
<1> QED BY <1>1, <1>2, <1>3, <1>4, <1>5, <1>6 DEF ServerInv

LEMMA ReadDirKeeps ==
  ASSUME TypeOK, GenerationsOrdered, UpdaterOK, ReadersAccounted, WriterAccounted,
         ClientsOK,
         ReadDir
  PROVE  ServerInv'
<1>1. TypeOK'
  <2>1. todo' \in SUBSET Tags /\ faults' \in 0..MaxFaults /\ upc' = "scan"
    BY ConstantsAssumption DEF ReadDir, OnDisk, Fault, TypeOK
  <2> QED BY <2>1 DEF TypeOK, ReadDir, diskVars, tagVars, updVars, cliVars, limits
<1>2. GenerationsOrdered'
  BY GenerationsFrame DEF ReadDir, diskVars, tagVars, cliVars
<1>3. UpdaterOK'
  BY DEF ReadDir, UpdaterOK
<1>4. ReadersAccounted'
  BY ReadersFrame DEF ReadDir, cliVars
<1>5. WriterAccounted'
  BY DEF ReadDir, WriterAccounted
<1>6. ClientsOK'
  BY ClientsFrame DEF ReadDir, tagVars, cliVars
<1> QED BY <1>1, <1>2, <1>3, <1>4, <1>5, <1>6 DEF ServerInv

LEMMA StatNewerKeeps ==
  ASSUME TypeOK, GenerationsOrdered, UpdaterOK, ReadersAccounted, WriterAccounted,
         ClientsOK,
         NEW t \in Tags,
         StatNewer(t)
  PROVE  ServerInv'
<1>1. TypeOK'
  BY DEF StatNewer, TypeOK, Index, diskVars, tagVars, cliVars, limits
<1>2. GenerationsOrdered'
  BY GenerationsFrame DEF StatNewer, diskVars, tagVars, cliVars
<1>3. UpdaterOK'
  BY DEF StatNewer, UpdaterOK
<1>4. ReadersAccounted'
  BY ReadersFrame DEF StatNewer, cliVars
<1>5. WriterAccounted'
  BY DEF StatNewer, WriterAccounted
<1>6. ClientsOK'
  BY ClientsFrame DEF StatNewer, tagVars, cliVars
<1> QED BY <1>1, <1>2, <1>3, <1>4, <1>5, <1>6 DEF ServerInv

LEMMA StatSkipKeeps ==
  ASSUME TypeOK, GenerationsOrdered, UpdaterOK, ReadersAccounted, WriterAccounted,
         ClientsOK,
         NEW t \in Tags,
         StatSkip(t)
  PROVE  ServerInv'
<1>1. TypeOK'
  BY DEF StatSkip, TypeOK, diskVars, tagVars, cliVars, limits
<1>2. GenerationsOrdered'
  BY GenerationsFrame DEF StatSkip, diskVars, tagVars, cliVars
<1>3. UpdaterOK'
  BY UpdaterFrame DEF StatSkip, diskVars, tagVars
<1>4. ReadersAccounted'
  BY ReadersFrame DEF StatSkip, cliVars
<1>5. WriterAccounted'
  BY WriterFrame DEF StatSkip
<1>6. ClientsOK'
  BY ClientsFrame DEF StatSkip, tagVars, cliVars
<1> QED BY <1>1, <1>2, <1>3, <1>4, <1>5, <1>6 DEF ServerInv

LEMMA LoadFailsKeeps ==
  ASSUME TypeOK, GenerationsOrdered, UpdaterOK, ReadersAccounted, WriterAccounted,
         ClientsOK,
         LoadFails
  PROVE  ServerInv'
<1>1. TypeOK'
  <2>1. faults' \in 0..MaxFaults /\ upc' = "scan"
    BY ConstantsAssumption DEF LoadFails, Fault, TypeOK
  <2> QED BY <2>1 DEF TypeOK, LoadFails, diskVars, tagVars, updVars, cliVars, limits
<1>2. GenerationsOrdered'
  BY GenerationsFrame DEF LoadFails, diskVars, tagVars, cliVars
<1>3. UpdaterOK'
  BY DEF LoadFails, UpdaterOK
<1>4. ReadersAccounted'
  BY ReadersFrame DEF LoadFails, cliVars
<1>5. WriterAccounted'
  BY DEF LoadFails, WriterAccounted
<1>6. ClientsOK'
  BY ClientsFrame DEF LoadFails, tagVars, cliVars
<1> QED BY <1>1, <1>2, <1>3, <1>4, <1>5, <1>6 DEF ServerInv

LEMMA LoadFirstKeeps ==
  ASSUME TypeOK, GenerationsOrdered, UpdaterOK, ReadersAccounted, WriterAccounted,
         ClientsOK,
         LoadFirst
  PROVE  ServerInv'
<1>1. TypeOK'
  BY DEF LoadFirst, TypeOK, diskVars, cliVars, limits
<1>2. GenerationsOrdered'
  <2> SUFFICES ASSUME NEW u \in Tags PROVE OrderedAt(u)'
    BY DEF GenerationsOrdered
  <2>1. /\ cur \in Tags /\ disk[cur] # NoIndex
        /\ handler' = [handler EXCEPT ![cur] = disk[cur]]
        /\ UNCHANGED <<disk, published, seen, registered>>
    BY DEF LoadFirst, TypeOK, diskVars, cliVars
  <2>2. handler'[u] = IF u = cur THEN disk[cur] ELSE handler[u]
    BY <2>1 DEF TypeOK
  <2>3. OrderedAt(u)
    BY DEF GenerationsOrdered
  <2>4. disk[u].gen \in Nat
    BY DEF TypeOK, Index
  <2> QED BY <2>1, <2>2, <2>3, <2>4 DEF OrderedAt, Loaded
<1>3. UpdaterOK'
  BY DEF LoadFirst, UpdaterOK
<1>4. ReadersAccounted'
  BY ReadersFrame DEF LoadFirst, cliVars
<1>5. WriterAccounted'
  BY DEF LoadFirst, WriterAccounted
<1>6. ClientsOK'
  BY DEF LoadFirst, ClientsOK, ClientOK, Loaded, NoIndex, cliVars
<1> QED BY <1>1, <1>2, <1>3, <1>4, <1>5, <1>6 DEF ServerInv

LEMMA LoadAgainKeeps ==
  ASSUME TypeOK, GenerationsOrdered, UpdaterOK, ReadersAccounted, WriterAccounted,
         ClientsOK,
         LoadAgain
  PROVE  ServerInv'
<1>1. TypeOK'
  <2>1. cur \in Tags /\ lock[cur] \in RWMutexes(Clients) /\ fresh' = disk[cur]
    BY DEF LoadAgain, TypeOK
  <2>2. lock' \in [Tags -> RWMutexes(Clients)]
    BY <2>1, WriterOps DEF LoadAgain, TypeOK
  <2>3. fresh' \in Index
    BY <2>1 DEF TypeOK
  <2> QED BY <2>1, <2>2, <2>3 DEF TypeOK, LoadAgain, diskVars, tagVars, updVars, cliVars, limits
<1>2. GenerationsOrdered'
  BY GenerationsFrame DEF LoadAgain, diskVars, tagVars, cliVars
<1>3. UpdaterOK'
  BY DEF LoadAgain, AnnounceLock, UpdaterOK, GenerationsOrdered, OrderedAt,
     TypeOK, Index, diskVars, tagVars
<1>4. ReadersAccounted'
  <2> SUFFICES ASSUME NEW u \in Tags, NEW d \in Clients PROVE ReaderAccounted(u, d)'
    BY DEF ReadersAccounted
  <2>1. cur \in Tags /\ lock[cur] \in RWMutexes(Clients)
    BY DEF LoadAgain, TypeOK
  <2>2. lock'[u] = IF u = cur THEN AnnounceLock(lock[cur]) ELSE lock[u]
    BY <2>1 DEF LoadAgain, TypeOK
  <2>3. lock'[u].active = lock[u].active /\ lock'[u].blocked = lock[u].blocked
    BY <2>1, <2>2, WriterOps
  <2>4. UNCHANGED <<pc, req>> /\ ReaderAccounted(u, d)
    BY DEF LoadAgain, cliVars, ReadersAccounted
  <2> QED BY <2>3, <2>4 DEF ReaderAccounted, InLock
<1>5. WriterAccounted'
  BY DEF LoadAgain, AnnounceLock, WriterAccounted, TypeOK
<1>6. ClientsOK'
  <2> SUFFICES ASSUME NEW d \in Clients PROVE ClientOK(d)'
    BY DEF ClientsOK
  <2>1. cur \in Tags /\ lock[cur] \in RWMutexes(Clients)
    BY DEF LoadAgain, TypeOK
  <2>2. \A u \in Tags : lock'[u] = IF u = cur THEN AnnounceLock(lock[cur]) ELSE lock[u]
    BY <2>1 DEF LoadAgain, TypeOK
  <2>3. \A u \in Tags : lock'[u].active = lock[u].active
    BY <2>1, <2>2, WriterOps
  <2>4. UNCHANGED <<pc, req, got, floor, seen, handler>> /\ ClientOK(d)
    BY DEF LoadAgain, cliVars, tagVars, ClientsOK
  <2> QED BY <2>3, <2>4 DEF ClientOK, Loaded
<1> QED BY <1>1, <1>2, <1>3, <1>4, <1>5, <1>6 DEF ServerInv

LEMMA AcquireLockKeeps ==
  ASSUME TypeOK, GenerationsOrdered, UpdaterOK, ReadersAccounted, WriterAccounted,
         ClientsOK,
         AcquireLock
  PROVE  ServerInv'
<1>1. TypeOK'
  <2>1. cur \in Tags /\ lock[cur] \in RWMutexes(Clients)
    BY DEF AcquireLock, TypeOK
  <2>2. lock' \in [Tags -> RWMutexes(Clients)]
    BY <2>1, WriterOps DEF AcquireLock, TypeOK
  <2> QED BY <2>1, <2>2 DEF TypeOK, AcquireLock, diskVars, tagVars, updVars, cliVars, limits
<1>2. GenerationsOrdered'
  BY GenerationsFrame DEF AcquireLock, diskVars, tagVars, cliVars
<1>3. UpdaterOK'
  BY DEF AcquireLock, CanHold, Hold, UpdaterOK, TypeOK, diskVars, tagVars
<1>4. ReadersAccounted'
  <2> SUFFICES ASSUME NEW u \in Tags, NEW d \in Clients PROVE ReaderAccounted(u, d)'
    BY DEF ReadersAccounted
  <2>1. cur \in Tags /\ lock[cur] \in RWMutexes(Clients)
    BY DEF AcquireLock, TypeOK
  <2>2. lock'[u] = IF u = cur THEN Hold(lock[cur]) ELSE lock[u]
    BY <2>1 DEF AcquireLock, TypeOK
  <2>3. lock'[u].active = lock[u].active /\ lock'[u].blocked = lock[u].blocked
    BY <2>1, <2>2, WriterOps
  <2>4. UNCHANGED <<pc, req>> /\ ReaderAccounted(u, d)
    BY DEF AcquireLock, cliVars, ReadersAccounted
  <2> QED BY <2>3, <2>4 DEF ReaderAccounted, InLock
<1>5. WriterAccounted'
  BY DEF AcquireLock, Hold, WriterAccounted
<1>6. ClientsOK'
  BY DEF AcquireLock, Hold, ClientsOK, ClientOK, tagVars, cliVars
<1> QED BY <1>1, <1>2, <1>3, <1>4, <1>5, <1>6 DEF ServerInv

LEMMA SwapKeeps ==
  ASSUME TypeOK, GenerationsOrdered, UpdaterOK, ReadersAccounted, WriterAccounted,
         ClientsOK,
         Swap
  PROVE  ServerInv'
<1>1. TypeOK'
  BY DEF Swap, TypeOK, diskVars, cliVars, limits
<1>2. GenerationsOrdered'
  <2> SUFFICES ASSUME NEW u \in Tags PROVE OrderedAt(u)'
    BY DEF GenerationsOrdered
  <2>1. /\ cur \in Tags
        /\ handler' = [handler EXCEPT ![cur] = fresh]
        /\ UNCHANGED <<disk, published, seen, registered>>
    BY DEF Swap, TypeOK, diskVars, tagVars, cliVars
  <2>2. handler'[u] = IF u = cur THEN fresh ELSE handler[u]
    BY <2>1 DEF TypeOK
  <2>3. OrderedAt(u) /\ OrderedAt(cur)
    BY <2>1 DEF GenerationsOrdered
  <2>4. /\ Loaded(fresh) /\ fresh # NoIndex /\ Loaded(handler[cur])
        /\ handler[cur].gen <= fresh.gen /\ fresh.gen <= published
        /\ Loaded(disk[cur]) => fresh.gen <= disk[cur].gen
    BY DEF Swap, UpdaterOK
  <2>5. /\ fresh.gen \in Nat /\ handler[cur].gen \in Nat /\ disk[cur].gen \in Nat
        /\ seen[cur] \in Nat
    BY <2>1 DEF TypeOK, Index
  <2> QED BY <2>1, <2>2, <2>3, <2>4, <2>5 DEF OrderedAt, Loaded
<1>3. UpdaterOK'
  BY DEF Swap, UpdaterOK, TypeOK, Index, diskVars
<1>4. ReadersAccounted'
  BY ReadersFrame DEF Swap, cliVars
<1>5. WriterAccounted'
  BY DEF Swap, WriterAccounted
<1>6. ClientsOK'
  BY DEF Swap, ClientsOK, ClientOK, UpdaterOK, cliVars
<1> QED BY <1>1, <1>2, <1>3, <1>4, <1>5, <1>6 DEF ServerInv

LEMMA ReleaseLockKeeps ==
  ASSUME TypeOK, GenerationsOrdered, UpdaterOK, ReadersAccounted, WriterAccounted,
         ClientsOK,
         ReleaseLock
  PROVE  ServerInv'
<1>1. TypeOK'
  BY DEF ReleaseLock, Unlock, TypeOK, RWMutexes, diskVars, cliVars, limits
<1>2. GenerationsOrdered'
  BY GenerationsFrame DEF ReleaseLock, diskVars, cliVars
<1>3. UpdaterOK'
  BY DEF ReleaseLock, UpdaterOK
<1>4. ReadersAccounted'
  <2> SUFFICES ASSUME NEW u \in Tags, NEW d \in Clients PROVE ReaderAccounted(u, d)'
    BY DEF ReadersAccounted
  <2>1. cur \in Tags /\ lock[cur] \in RWMutexes(Clients) /\ lock[cur].active = {}
    BY DEF ReleaseLock, TypeOK, UpdaterOK
  <2>2. lock'[u] = IF u = cur THEN Unlock(lock[cur]) ELSE lock[u]
    BY <2>1 DEF ReleaseLock, TypeOK
  <2>3. UNCHANGED <<pc, req>> /\ ReaderAccounted(u, d)
    BY DEF ReleaseLock, cliVars, ReadersAccounted
  <2>4. CASE u = cur
    <3>1. lock'[u].active = lock[u].blocked /\ lock'[u].blocked = {}
      BY <2>1, <2>2, <2>4, WriterOps
    <3> QED BY <2>1, <2>3, <2>4, <3>1 DEF ReaderAccounted, InLock
  <2>5. CASE u # cur
    BY <2>2, <2>3, <2>5 DEF ReaderAccounted, InLock
  <2> QED BY <2>4, <2>5
<1>5. WriterAccounted'
  BY DEF ReleaseLock, Unlock, WriterAccounted, TypeOK
<1>6. ClientsOK'
  BY DEF ReleaseLock, ClientsOK, ClientOK, UpdaterOK, cliVars
<1> QED BY <1>1, <1>2, <1>3, <1>4, <1>5, <1>6 DEF ServerInv

LEMMA NextTagSetKeeps ==
  ASSUME TypeOK, GenerationsOrdered, UpdaterOK, ReadersAccounted, WriterAccounted,
         ClientsOK,
         NextTagSet
  PROVE  ServerInv'
<1>1. TypeOK'
  BY DEF NextTagSet, TypeOK, diskVars, tagVars, cliVars, limits
<1>2. GenerationsOrdered'
  BY GenerationsFrame DEF NextTagSet, diskVars, tagVars, cliVars
<1>3. UpdaterOK'
  BY DEF NextTagSet, UpdaterOK
<1>4. ReadersAccounted'
  BY ReadersFrame DEF NextTagSet, cliVars
<1>5. WriterAccounted'
  BY DEF NextTagSet, WriterAccounted
<1>6. ClientsOK'
  BY ClientsFrame DEF NextTagSet, tagVars, cliVars
<1> QED BY <1>1, <1>2, <1>3, <1>4, <1>5, <1>6 DEF ServerInv

LEMMA ScanDoneKeeps ==
  ASSUME TypeOK, GenerationsOrdered, UpdaterOK, ReadersAccounted, WriterAccounted,
         ClientsOK,
         ScanDone
  PROVE  ServerInv'
<1>1. TypeOK'
  BY DEF ScanDone, TypeOK, diskVars, tagVars, cliVars, limits
<1>2. GenerationsOrdered'
  BY GenerationsFrame DEF ScanDone, diskVars, tagVars, cliVars
<1>3. UpdaterOK'
  BY DEF ScanDone, UpdaterOK
<1>4. ReadersAccounted'
  BY ReadersFrame DEF ScanDone, cliVars
<1>5. WriterAccounted'
  BY DEF ScanDone, WriterAccounted
<1>6. ClientsOK'
  BY ClientsFrame DEF ScanDone, tagVars, cliVars
<1> QED BY <1>1, <1>2, <1>3, <1>4, <1>5, <1>6 DEF ServerInv

LEMMA AddHandlerKeeps ==
  ASSUME TypeOK, GenerationsOrdered, UpdaterOK, ReadersAccounted, WriterAccounted,
         ClientsOK,
         NEW t \in Tags,
         AddHandler(t)
  PROVE  ServerInv'
<1>1. TypeOK'
  BY DEF AddHandler, TypeOK, diskVars, updVars, cliVars, limits
<1>2. GenerationsOrdered'
  BY DEF AddHandler, GenerationsOrdered, OrderedAt, diskVars, cliVars
<1>3. UpdaterOK'
  BY UpdaterFrame DEF AddHandler, diskVars, updVars
<1>4. ReadersAccounted'
  BY ReadersFrame DEF AddHandler, cliVars
<1>5. WriterAccounted'
  BY WriterFrame DEF AddHandler, updVars
<1>6. ClientsOK'
  BY ClientsFrame DEF AddHandler, cliVars
<1> QED BY <1>1, <1>2, <1>3, <1>4, <1>5, <1>6 DEF ServerInv

LEMMA SleepKeeps ==
  ASSUME TypeOK, GenerationsOrdered, UpdaterOK, ReadersAccounted, WriterAccounted,
         ClientsOK,
         Sleep
  PROVE  ServerInv'
<1>1. TypeOK'
  BY DEF Sleep, TypeOK, diskVars, tagVars, cliVars, limits
<1>2. GenerationsOrdered'
  BY GenerationsFrame DEF Sleep, diskVars, tagVars, cliVars
<1>3. UpdaterOK'
  BY DEF Sleep, UpdaterOK
<1>4. ReadersAccounted'
  BY ReadersFrame DEF Sleep, cliVars
<1>5. WriterAccounted'
  BY DEF Sleep, WriterAccounted
<1>6. ClientsOK'
  BY ClientsFrame DEF Sleep, tagVars, cliVars
<1> QED BY <1>1, <1>2, <1>3, <1>4, <1>5, <1>6 DEF ServerInv

LEMMA SearchKeeps ==
  ASSUME TypeOK, GenerationsOrdered, UpdaterOK, ReadersAccounted, WriterAccounted,
         ClientsOK,
         NEW c \in Clients,
         NEW t \in Tags,
         NEW n \in Prefixes,
         Search(c, t, n)
  PROVE  ServerInv'
<1>1. TypeOK'
  <2>1. /\ req' = [req EXCEPT ![c] = [kind |-> "search", tag |-> t, prefix |-> n]]
        /\ lock' = [lock EXCEPT ![t] = RLock(lock[t], c)]
        /\ pc[c] = "idle" /\ pc' = [pc EXCEPT ![c] = "rlock"]
        /\ floor' = [floor EXCEPT ![c] = seen[t]]
        /\ lock[t] \in RWMutexes(Clients)
        /\ UNCHANGED <<handler, upc, cur, fresh, disk, published, got, seen, registered>>
    BY DEF Search, TypeOK, updVars, diskVars, tagVars
  <2>2. lock' \in [Tags -> RWMutexes(Clients)]
    BY <2>1, MutexOps DEF TypeOK
  <2>3. req' \in [Clients -> Requests]
    <3>1. [kind |-> "search", tag |-> t, prefix |-> n] \in Requests
      BY DEF Requests
    <3> QED BY <2>1, <3>1 DEF TypeOK
  <2>4. pc' \in [Clients -> {"idle", "rlock", "scanned", "page", "dead"}]
        /\ floor' \in [Clients -> 0..MaxPublish]
    BY <2>1 DEF TypeOK
  <2> QED BY <2>2, <2>3, <2>4 DEF TypeOK, Search, diskVars, tagVars, updVars, cliVars, limits
<1>2. GenerationsOrdered'
  BY GenerationsFrame DEF Search, diskVars, tagVars
<1>3. UpdaterOK'
  <2>1. /\ req' = [req EXCEPT ![c] = [kind |-> "search", tag |-> t, prefix |-> n]]
        /\ lock' = [lock EXCEPT ![t] = RLock(lock[t], c)]
        /\ pc[c] = "idle" /\ pc' = [pc EXCEPT ![c] = "rlock"]
        /\ floor' = [floor EXCEPT ![c] = seen[t]]
        /\ lock[t] \in RWMutexes(Clients)
        /\ UNCHANGED <<handler, upc, cur, fresh, disk, published, got, seen, registered>>
    BY DEF Search, TypeOK, updVars, diskVars, tagVars
  <2>2. ASSUME cur \in Tags
        PROVE  /\ lock'[cur].writer = lock[cur].writer
               /\ lock[cur].writer # "none" => lock'[cur].active = lock[cur].active
    <3>1. lock'[cur] = IF cur = t THEN RLock(lock[t], c) ELSE lock[cur]
      BY <2>1, <2>2 DEF TypeOK
    <3> QED BY <2>1, <3>1, MutexOps
  <2>3. upc \in {"lock", "swap", "unlock"} => cur \in Tags
    BY DEF TypeOK
  <2> QED BY <2>1, <2>2, <2>3 DEF UpdaterOK, Loaded
<1>4. ReadersAccounted'
  <2> SUFFICES ASSUME NEW u \in Tags, NEW d \in Clients PROVE ReaderAccounted(u, d)'
    BY DEF ReadersAccounted
  <2>1. /\ req' = [req EXCEPT ![c] = [kind |-> "search", tag |-> t, prefix |-> n]]
        /\ lock' = [lock EXCEPT ![t] = RLock(lock[t], c)]
        /\ pc[c] = "idle" /\ pc' = [pc EXCEPT ![c] = "rlock"]
        /\ floor' = [floor EXCEPT ![c] = seen[t]]
        /\ lock[t] \in RWMutexes(Clients)
        /\ UNCHANGED <<handler, upc, cur, fresh, disk, published, got, seen, registered>>
    BY DEF Search, TypeOK, updVars, diskVars, tagVars
  <2>2. /\ lock'[u] = IF u = t THEN RLock(lock[t], c) ELSE lock[u]
        /\ req'[d] = IF d = c THEN [kind |-> "search", tag |-> t, prefix |-> n] ELSE req[d]
        /\ pc'[d] = IF d = c THEN "rlock" ELSE pc[d]
    BY <2>1 DEF TypeOK
  <2>3. req[c].kind # "search" /\ ReaderAccounted(u, d)
    BY <2>1 DEF ClientsOK, ClientOK, ReadersAccounted
  <2>4. CASE u = t
    <3>1. CASE lock[t].writer = "none"
      <4>1. lock'[u].active = lock[u].active \cup {c} /\ lock'[u].blocked = lock[u].blocked
        <5>1. RLock(lock[t], c).active = lock[t].active \cup {c}
              /\ RLock(lock[t], c).blocked = lock[t].blocked
          BY <2>1, <3>1, MutexOps
        <5> QED BY <2>2, <2>4, <5>1, Zenon
      <4> QED BY <2>2, <2>3, <2>4, <4>1 DEF ReaderAccounted, InLock
    <3>2. CASE lock[t].writer # "none"
      <4>1. lock'[u].active = lock[u].active /\ lock'[u].blocked = lock[u].blocked \cup {c}
        <5>1. RLock(lock[t], c).active = lock[t].active
              /\ RLock(lock[t], c).blocked = lock[t].blocked \cup {c}
          BY <2>1, <3>2, MutexOps
        <5> QED BY <2>2, <2>4, <5>1, Zenon
      <4> QED BY <2>2, <2>3, <2>4, <4>1 DEF ReaderAccounted, InLock
    <3> QED BY <3>1, <3>2
  <2>5. CASE u # t
    BY <2>2, <2>3, <2>5 DEF ReaderAccounted, InLock
  <2> QED BY <2>4, <2>5
<1>5. WriterAccounted'
  <2>1. /\ req' = [req EXCEPT ![c] = [kind |-> "search", tag |-> t, prefix |-> n]]
        /\ lock' = [lock EXCEPT ![t] = RLock(lock[t], c)]
        /\ pc[c] = "idle" /\ pc' = [pc EXCEPT ![c] = "rlock"]
        /\ floor' = [floor EXCEPT ![c] = seen[t]]
        /\ lock[t] \in RWMutexes(Clients)
        /\ UNCHANGED <<handler, upc, cur, fresh, disk, published, got, seen, registered>>
    BY DEF Search, TypeOK, updVars, diskVars, tagVars
  <2>2. ASSUME NEW u \in Tags
        PROVE  /\ lock'[u].writer = lock[u].writer
               /\ lock[u].writer = "none" => lock'[u].blocked = lock[u].blocked
    <3>1. lock'[u] = IF u = t THEN RLock(lock[t], c) ELSE lock[u]
      BY <2>1 DEF TypeOK
    <3> QED BY <2>1, <3>1, MutexOps
  <2> QED BY <2>1, <2>2 DEF WriterAccounted
<1>6. ClientsOK'
  <2> SUFFICES ASSUME NEW d \in Clients PROVE ClientOK(d)'
    BY DEF ClientsOK
  <2>1. /\ req' = [req EXCEPT ![c] = [kind |-> "search", tag |-> t, prefix |-> n]]
        /\ lock' = [lock EXCEPT ![t] = RLock(lock[t], c)]
        /\ pc[c] = "idle" /\ pc' = [pc EXCEPT ![c] = "rlock"]
        /\ floor' = [floor EXCEPT ![c] = seen[t]]
        /\ lock[t] \in RWMutexes(Clients)
        /\ UNCHANGED <<handler, upc, cur, fresh, disk, published, got, seen, registered>>
    BY DEF Search, TypeOK, updVars, diskVars, tagVars
  <2>2. /\ req'[d] = IF d = c THEN [kind |-> "search", tag |-> t, prefix |-> n] ELSE req[d]
        /\ pc'[d] = IF d = c THEN "rlock" ELSE pc[d]
        /\ floor'[d] = IF d = c THEN seen[t] ELSE floor[d]
    BY <2>1 DEF TypeOK
  <2>3. ASSUME NEW u \in Tags, d \in lock[u].active PROVE d \in lock'[u].active
    <3>1. lock'[u] = IF u = t THEN RLock(lock[t], c) ELSE lock[u]
      BY <2>1 DEF TypeOK
    <3>2. lock[t].active \subseteq RLock(lock[t], c).active
      <4>1. CASE lock[t].writer = "none"
        <5>1. RLock(lock[t], c).active = lock[t].active \cup {c}
          BY <2>1, <4>1, MutexOps
        <5> QED BY <5>1
      <4>2. CASE lock[t].writer # "none"
        <5>1. RLock(lock[t], c).active = lock[t].active
          BY <2>1, <4>2, MutexOps
        <5> QED BY <5>1
      <4> QED BY <4>1, <4>2
    <3> QED BY <2>3, <3>1, <3>2
  <2>4. Loaded(handler[t]) /\ seen[t] \in Nat
    BY DEF Search, GenerationsOrdered, OrderedAt, TypeOK
  <2>5. ClientOK(d)
    BY DEF ClientsOK
  <2>6. CASE d = c
    <3>1. got[d] = 0
      BY <2>1, <2>5, <2>6 DEF ClientOK
    <3> QED BY <2>1, <2>2, <2>4, <2>6, <3>1 DEF ClientOK, Loaded
  <2>7. CASE d # c
    BY <2>1, <2>2, <2>3, <2>5, <2>7 DEF ClientOK, Loaded
  <2> QED BY <2>6, <2>7
<1> QED BY <1>1, <1>2, <1>3, <1>4, <1>5, <1>6 DEF ServerInv

LEMMA ScanKeeps ==
  ASSUME TypeOK, GenerationsOrdered, UpdaterOK, ReadersAccounted, WriterAccounted,
         ClientsOK,
         NEW c \in Clients,
         Scan(c)
  PROVE  ServerInv'
<1>1. TypeOK'
  BY DEF Scan, HasReadLock, ClientsOK, ClientOK, TypeOK, Index, diskVars, tagVars,
     updVars, limits
<1>2. GenerationsOrdered'
  BY GenerationsFrame DEF Scan, diskVars, tagVars
<1>3. UpdaterOK'
  BY UpdaterFrame DEF Scan, diskVars, tagVars, updVars
<1>4. ReadersAccounted'
  BY DEF Scan, HasReadLock, ReadersAccounted, ReaderAccounted, InLock
<1>5. WriterAccounted'
  BY WriterFrame DEF Scan, updVars
<1>6. ClientsOK'
  <2> SUFFICES ASSUME NEW d \in Clients PROVE ClientOK(d)'
    BY DEF ClientsOK
  <2>1. /\ pc[c] = "rlock" /\ c \in lock[req[c].tag].active
        /\ pc' = [pc EXCEPT ![c] = "scanned"]
        /\ got' = [got EXCEPT ![c] = handler[req[c].tag].gen]
        /\ UNCHANGED <<req, floor, seen, handler, lock>>
    BY DEF Scan, HasReadLock, tagVars
  <2>2. /\ pc'[d] = IF d = c THEN "scanned" ELSE pc[d]
        /\ got'[d] = IF d = c THEN handler[req[c].tag].gen ELSE got[d]
    BY <2>1 DEF TypeOK
  <2>3. ClientOK(c) /\ ClientOK(d)
    BY DEF ClientsOK
  <2>4. CASE d = c
    <3> DEFINE u == req[c].tag
    <3>1. u \in Tags /\ Loaded(handler[u]) /\ floor[c] <= seen[u] /\ req[c].kind = "search"
      BY <2>1, <2>3 DEF ClientOK
    <3>2. seen[u] <= handler[u].gen /\ seen[u] \in Nat /\ handler[u].gen \in Nat
          /\ floor[c] \in Nat
      BY <3>1 DEF GenerationsOrdered, OrderedAt, TypeOK, Index
    <3>3. floor[c] <= handler[u].gen /\ handler[u].gen <= handler[u].gen
      BY <3>1, <3>2
    <3> QED BY <2>1, <2>2, <2>4, <3>1, <3>3 DEF ClientOK, Loaded
  <2>5. CASE d # c
    BY <2>1, <2>2, <2>3, <2>5 DEF ClientOK, Loaded
  <2> QED BY <2>4, <2>5
<1> QED BY <1>1, <1>2, <1>3, <1>4, <1>5, <1>6 DEF ServerInv

LEMMA PanicKeeps ==
  ASSUME TypeOK, GenerationsOrdered, UpdaterOK, ReadersAccounted, WriterAccounted,
         ClientsOK,
         NEW c \in Clients,
         Panic(c)
  PROVE  ServerInv'
<1>1. TypeOK'
  BY DEF Panic, TypeOK, diskVars, tagVars, updVars, limits
<1>2. GenerationsOrdered'
  BY GenerationsFrame DEF Panic, diskVars, tagVars
<1>3. UpdaterOK'
  BY UpdaterFrame DEF Panic, diskVars, tagVars, updVars
<1>4. ReadersAccounted'
  BY DEF Panic, HasReadLock, ReadersAccounted, ReaderAccounted, InLock
<1>5. WriterAccounted'
  BY WriterFrame DEF Panic, updVars
<1>6. ClientsOK'
  <2> SUFFICES ASSUME NEW d \in Clients PROVE ClientOK(d)'
    BY DEF ClientsOK
  <2>1. /\ pc[c] = "rlock" /\ c \in lock[req[c].tag].active
        /\ pc' = [pc EXCEPT ![c] = "dead"]
        /\ UNCHANGED <<req, got, floor, seen, handler, lock>>
    BY DEF Panic, HasReadLock, tagVars
  <2>2. pc'[d] = IF d = c THEN "dead" ELSE pc[d]
    BY <2>1 DEF TypeOK
  <2>3. ClientOK(d)
    BY DEF ClientsOK
  <2> QED BY <2>1, <2>2, <2>3 DEF ClientOK, Loaded
<1> QED BY <1>1, <1>2, <1>3, <1>4, <1>5, <1>6 DEF ServerInv

LEMMA AnswerKeeps ==
  ASSUME TypeOK, GenerationsOrdered, UpdaterOK, ReadersAccounted, WriterAccounted,
         ClientsOK,
         NEW c \in Clients,
         Answer(c)
  PROVE  ServerInv'
<1>1. TypeOK'
  <2>1. /\ pc[c] = "scanned" /\ ClientOK(c)
        /\ lock' = [lock EXCEPT ![req[c].tag] = RUnlock(lock[req[c].tag], c)]
        /\ seen' = [seen EXCEPT ![req[c].tag] = Larger(seen[req[c].tag], got[c])]
        /\ pc' = [pc EXCEPT ![c] = "idle"] /\ req' = [req EXCEPT ![c] = NoRequest]
        /\ got' = [got EXCEPT ![c] = 0] /\ floor' = [floor EXCEPT ![c] = 0]
        /\ UNCHANGED <<handler, upc, cur, fresh, disk, published, registered>>
    BY DEF Answer, ClientsOK, updVars, diskVars, tagVars
  <2> DEFINE a == req[c].tag
  <2>2. /\ a \in Tags /\ req[c].kind = "search" /\ lock[a] \in RWMutexes(Clients)
        /\ got[c] \in 0..MaxPublish /\ seen[a] \in 0..MaxPublish
        /\ got[c] <= handler[a].gen /\ Loaded(handler[a])
    BY <2>1 DEF ClientOK, TypeOK
  <2>3. lock' \in [Tags -> RWMutexes(Clients)]
    BY <2>1, <2>2, MutexOps DEF TypeOK
  <2>4. Larger(seen[a], got[c]) \in 0..MaxPublish
    BY <2>2 DEF Larger
  <2>5. seen' \in [Tags -> 0..MaxPublish]
    BY <2>1, <2>4 DEF TypeOK
  <2>6. NoRequest \in Requests
    BY DEF NoRequest, Requests
  <2>7. /\ pc' \in [Clients -> {"idle", "rlock", "scanned", "page", "dead"}]
        /\ got' \in [Clients -> 0..MaxPublish] /\ floor' \in [Clients -> 0..MaxPublish]
        /\ req' \in [Clients -> Requests]
    BY <2>1, <2>6, ConstantsAssumption DEF TypeOK
  <2> QED BY <2>3, <2>5, <2>7 DEF TypeOK, Answer, diskVars, tagVars, updVars, cliVars, limits
<1>2. GenerationsOrdered'
  <2> SUFFICES ASSUME NEW u \in Tags PROVE OrderedAt(u)'
    BY DEF GenerationsOrdered
  <2>1. /\ pc[c] = "scanned" /\ ClientOK(c)
        /\ lock' = [lock EXCEPT ![req[c].tag] = RUnlock(lock[req[c].tag], c)]
        /\ seen' = [seen EXCEPT ![req[c].tag] = Larger(seen[req[c].tag], got[c])]
        /\ pc' = [pc EXCEPT ![c] = "idle"] /\ req' = [req EXCEPT ![c] = NoRequest]
        /\ got' = [got EXCEPT ![c] = 0] /\ floor' = [floor EXCEPT ![c] = 0]
        /\ UNCHANGED <<handler, upc, cur, fresh, disk, published, registered>>
    BY DEF Answer, ClientsOK, updVars, diskVars, tagVars
  <2> DEFINE a == req[c].tag
  <2>2. /\ a \in Tags /\ req[c].kind = "search" /\ lock[a] \in RWMutexes(Clients)
        /\ got[c] \in 0..MaxPublish /\ seen[a] \in 0..MaxPublish
        /\ got[c] <= handler[a].gen /\ Loaded(handler[a])
    BY <2>1 DEF ClientOK, TypeOK
  <2>3. OrderedAt(u)
    BY DEF GenerationsOrdered
  <2>4. CASE u = a
    <3>1. seen'[u] = Larger(seen[u], got[c])
      BY <2>1, <2>2, <2>4 DEF TypeOK
    <3>2. handler[u].gen \in Nat /\ disk[u].gen \in Nat /\ published \in Nat
      BY DEF TypeOK, Index
    <3>3. seen'[u] <= handler[u].gen
      BY <2>2, <2>3, <2>4, <3>1, <3>2 DEF OrderedAt, Larger
    <3>4. seen'[u] \in Nat
      BY <2>2, <2>4, <3>1 DEF Larger
    <3> QED BY <2>1, <2>2, <2>3, <2>4, <3>2, <3>3, <3>4 DEF OrderedAt, Loaded
  <2>5. CASE u # a
    <3>1. seen'[u] = seen[u]
      BY <2>1, <2>2, <2>5 DEF TypeOK
    <3> QED BY <2>1, <2>3, <3>1 DEF OrderedAt, Loaded
  <2> QED BY <2>4, <2>5
<1>3. UpdaterOK'
  <2>1. /\ pc[c] = "scanned" /\ ClientOK(c)
        /\ lock' = [lock EXCEPT ![req[c].tag] = RUnlock(lock[req[c].tag], c)]
        /\ seen' = [seen EXCEPT ![req[c].tag] = Larger(seen[req[c].tag], got[c])]
        /\ pc' = [pc EXCEPT ![c] = "idle"] /\ req' = [req EXCEPT ![c] = NoRequest]
        /\ got' = [got EXCEPT ![c] = 0] /\ floor' = [floor EXCEPT ![c] = 0]
        /\ UNCHANGED <<handler, upc, cur, fresh, disk, published, registered>>
    BY DEF Answer, ClientsOK, updVars, diskVars, tagVars
  <2> DEFINE a == req[c].tag
  <2>2. /\ a \in Tags /\ req[c].kind = "search" /\ lock[a] \in RWMutexes(Clients)
        /\ got[c] \in 0..MaxPublish /\ seen[a] \in 0..MaxPublish
        /\ got[c] <= handler[a].gen /\ Loaded(handler[a])
    BY <2>1 DEF ClientOK, TypeOK
  <2>3. ASSUME cur \in Tags
        PROVE  /\ lock'[cur].writer = lock[cur].writer
               /\ lock'[cur].active \subseteq lock[cur].active
    <3>1. lock'[cur] = IF cur = a THEN RUnlock(lock[a], c) ELSE lock[cur]
      BY <2>1, <2>2, <2>3 DEF TypeOK
    <3> QED BY <2>2, <3>1, MutexOps
  <2>4. upc \in {"lock", "swap", "unlock"} => cur \in Tags
    BY DEF TypeOK
  <2> QED BY <2>1, <2>3, <2>4 DEF UpdaterOK, Loaded
<1>4. ReadersAccounted'
  <2> SUFFICES ASSUME NEW u \in Tags, NEW d \in Clients PROVE ReaderAccounted(u, d)'
    BY DEF ReadersAccounted
  <2>1. /\ pc[c] = "scanned" /\ ClientOK(c)
        /\ lock' = [lock EXCEPT ![req[c].tag] = RUnlock(lock[req[c].tag], c)]
        /\ seen' = [seen EXCEPT ![req[c].tag] = Larger(seen[req[c].tag], got[c])]
        /\ pc' = [pc EXCEPT ![c] = "idle"] /\ req' = [req EXCEPT ![c] = NoRequest]
        /\ got' = [got EXCEPT ![c] = 0] /\ floor' = [floor EXCEPT ![c] = 0]
        /\ UNCHANGED <<handler, upc, cur, fresh, disk, published, registered>>
    BY DEF Answer, ClientsOK, updVars, diskVars, tagVars
  <2> DEFINE a == req[c].tag
  <2>2. /\ a \in Tags /\ req[c].kind = "search" /\ lock[a] \in RWMutexes(Clients)
        /\ got[c] \in 0..MaxPublish /\ seen[a] \in 0..MaxPublish
        /\ got[c] <= handler[a].gen /\ Loaded(handler[a])
    BY <2>1 DEF ClientOK, TypeOK
  <2>3. /\ lock'[u] = IF u = a THEN RUnlock(lock[a], c) ELSE lock[u]
        /\ req'[d] = IF d = c THEN NoRequest ELSE req[d]
        /\ pc'[d] = IF d = c THEN "idle" ELSE pc[d]
    BY <2>1, <2>2 DEF TypeOK
  <2>4. ReaderAccounted(u, d) /\ ReaderAccounted(a, c)
    BY <2>2 DEF ReadersAccounted
  <2>5. CASE u = a
    <3>1. lock'[u].active = lock[u].active \ {c} /\ lock'[u].blocked = lock[u].blocked
      <4>1. RUnlock(lock[a], c).active = lock[a].active \ {c}
            /\ RUnlock(lock[a], c).blocked = lock[a].blocked
        BY <2>2, MutexOps
      <4> QED BY <2>3, <2>5, <4>1, Zenon
    <3> QED BY <2>1, <2>2, <2>3, <2>4, <2>5, <3>1 DEF ReaderAccounted, InLock, NoRequest
  <2>6. CASE u # a
    BY <2>2, <2>3, <2>4, <2>6 DEF ReaderAccounted, InLock, NoRequest
  <2> QED BY <2>5, <2>6
<1>5. WriterAccounted'
  BY DEF Answer, RUnlock, WriterAccounted, updVars
<1>6. ClientsOK'
  <2> SUFFICES ASSUME NEW d \in Clients PROVE ClientOK(d)'
    BY DEF ClientsOK
  <2>1. /\ pc[c] = "scanned" /\ ClientOK(c)
        /\ lock' = [lock EXCEPT ![req[c].tag] = RUnlock(lock[req[c].tag], c)]
        /\ seen' = [seen EXCEPT ![req[c].tag] = Larger(seen[req[c].tag], got[c])]
        /\ pc' = [pc EXCEPT ![c] = "idle"] /\ req' = [req EXCEPT ![c] = NoRequest]
        /\ got' = [got EXCEPT ![c] = 0] /\ floor' = [floor EXCEPT ![c] = 0]
        /\ UNCHANGED <<handler, upc, cur, fresh, disk, published, registered>>
    BY DEF Answer, ClientsOK, updVars, diskVars, tagVars
  <2> DEFINE a == req[c].tag
  <2>2. /\ a \in Tags /\ req[c].kind = "search" /\ lock[a] \in RWMutexes(Clients)
        /\ got[c] \in 0..MaxPublish /\ seen[a] \in 0..MaxPublish
        /\ got[c] <= handler[a].gen /\ Loaded(handler[a])
    BY <2>1 DEF ClientOK, TypeOK
  <2>3. /\ req'[d] = IF d = c THEN NoRequest ELSE req[d]
        /\ pc'[d] = IF d = c THEN "idle" ELSE pc[d]
        /\ got'[d] = IF d = c THEN 0 ELSE got[d]
        /\ floor'[d] = IF d = c THEN 0 ELSE floor[d]
    BY <2>1 DEF TypeOK
  <2>4. CASE d = c
    BY <2>3, <2>4 DEF ClientOK, NoRequest
  <2>5. CASE d # c
    <3>1. ClientOK(d)
      BY DEF ClientsOK
    <3>2. ASSUME NEW u \in Tags PROVE /\ d \in lock[u].active => d \in lock'[u].active
                                      /\ floor[d] <= seen[u] => floor[d] <= seen'[u]
      <4>1. /\ lock'[u] = IF u = a THEN RUnlock(lock[a], c) ELSE lock[u]
            /\ seen'[u] = IF u = a THEN Larger(seen[a], got[c]) ELSE seen[u]
        BY <2>1, <2>2 DEF TypeOK
      <4>2. d \in lock[u].active => d \in lock'[u].active
        <5>1. RUnlock(lock[a], c).active = lock[a].active \ {c}
          BY <2>2, MutexOps
        <5> QED BY <2>5, <4>1, <5>1
      <4>3. floor[d] \in Nat /\ seen[u] \in Nat
        BY DEF TypeOK
      <4>4. floor[d] <= seen[u] => floor[d] <= seen'[u]
        BY <2>2, <4>1, <4>3 DEF Larger
      <4> QED BY <4>2, <4>4
    <3> QED BY <2>1, <2>3, <2>5, <3>1, <3>2 DEF ClientOK, Loaded
  <2> QED BY <2>4, <2>5
<1> QED BY <1>1, <1>2, <1>3, <1>4, <1>5, <1>6 DEF ServerInv

LEMMA HandlePageKeeps ==
  ASSUME TypeOK, GenerationsOrdered, UpdaterOK, ReadersAccounted, WriterAccounted,
         ClientsOK,
         NEW c \in Clients,
         NEW t \in Tags,
         HandlePage(c, t)
  PROVE  ServerInv'
<1>1. TypeOK'
  BY DEF HandlePage, TypeOK, Index, Requests, diskVars, tagVars, updVars, limits
<1>2. GenerationsOrdered'
  BY GenerationsFrame DEF HandlePage, diskVars, tagVars
<1>3. UpdaterOK'
  BY UpdaterFrame DEF HandlePage, diskVars, tagVars, updVars
<1>4. ReadersAccounted'
  <2> SUFFICES ASSUME NEW u \in Tags, NEW d \in Clients PROVE ReaderAccounted(u, d)'
    BY DEF ReadersAccounted
  <2>1. /\ req'[d] = IF d = c THEN [kind |-> "page", tag |-> t, prefix |-> 0] ELSE req[d]
        /\ pc'[d] = IF d = c THEN "page" ELSE pc[d]
        /\ pc[c] = "idle" /\ lock' = lock
    BY DEF HandlePage, TypeOK
  <2>2. req[c].kind # "search" /\ ReaderAccounted(u, d)
    BY <2>1 DEF ClientsOK, ClientOK, ReadersAccounted
  <2> QED BY <2>1, <2>2 DEF ReaderAccounted, InLock
<1>5. WriterAccounted'
  BY WriterFrame DEF HandlePage, updVars
<1>6. ClientsOK'
  BY DEF HandlePage, ClientsOK, ClientOK, GenerationsOrdered, OrderedAt, TypeOK,
     tagVars
<1> QED BY <1>1, <1>2, <1>3, <1>4, <1>5, <1>6 DEF ServerInv

LEMMA PageSentKeeps ==
  ASSUME TypeOK, GenerationsOrdered, UpdaterOK, ReadersAccounted, WriterAccounted,
         ClientsOK,
         NEW c \in Clients,
         PageSent(c)
  PROVE  ServerInv'
<1>1. TypeOK'
  <2>1. NoRequest \in Requests
    BY DEF NoRequest, Requests
  <2>2. /\ pc' \in [Clients -> {"idle", "rlock", "scanned", "page", "dead"}]
        /\ got' \in [Clients -> 0..MaxPublish] /\ floor' \in [Clients -> 0..MaxPublish]
        /\ req' \in [Clients -> Requests]
    BY <2>1, ConstantsAssumption DEF TypeOK, PageSent
  <2> QED BY <2>2 DEF TypeOK, PageSent, diskVars, tagVars, updVars, cliVars, limits
<1>2. GenerationsOrdered'
  BY GenerationsFrame DEF PageSent, diskVars, tagVars
<1>3. UpdaterOK'
  BY UpdaterFrame DEF PageSent, diskVars, tagVars, updVars
<1>4. ReadersAccounted'
  <2> SUFFICES ASSUME NEW u \in Tags, NEW d \in Clients PROVE ReaderAccounted(u, d)'
    BY DEF ReadersAccounted
  <2>1. /\ req'[d] = IF d = c THEN NoRequest ELSE req[d]
        /\ pc'[d] = IF d = c THEN "idle" ELSE pc[d]
        /\ pc[c] = "page" /\ lock' = lock
    BY DEF PageSent, TypeOK
  <2>2. req[c].kind # "search" /\ ReaderAccounted(u, d)
    BY <2>1 DEF ClientsOK, ClientOK, ReadersAccounted
  <2> QED BY <2>1, <2>2 DEF ReaderAccounted, InLock, NoRequest
<1>5. WriterAccounted'
  BY WriterFrame DEF PageSent, updVars
<1>6. ClientsOK'
  BY DEF PageSent, ClientsOK, ClientOK, TypeOK, NoRequest, tagVars
<1> QED BY <1>1, <1>2, <1>3, <1>4, <1>5, <1>6 DEF ServerInv

LEMMA RestartKeeps ==
  ASSUME TypeOK, GenerationsOrdered, UpdaterOK, ReadersAccounted, WriterAccounted,
         ClientsOK,
         Restart
  PROVE  ServerInv'
<1>1. TypeOK'
  BY ConstantsAssumption DEF Restart, All, AllClients, FreeMutex, TypeOK, Index,
     NoIndex, Requests, NoRequest, RWMutexes, diskVars
<1>2. GenerationsOrdered'
  <2> SUFFICES ASSUME NEW u \in Tags PROVE OrderedAt(u)'
    BY DEF GenerationsOrdered
  <2>1. /\ handler'[u] = NoIndex /\ registered'[u] = FALSE
        /\ UNCHANGED <<disk, published, seen>>
    BY DEF Restart, All, diskVars
  <2>2. OrderedAt(u) /\ disk[u].gen \in Nat /\ published \in Nat
    BY DEF GenerationsOrdered, TypeOK, Index
  <2> QED BY <2>1, <2>2 DEF OrderedAt, Loaded, NoIndex
<1>3. UpdaterOK'
  BY DEF Restart, UpdaterOK
<1>4. ReadersAccounted'
  BY DEF Restart, All, AllClients, FreeMutex, ReadersAccounted, ReaderAccounted,
     InLock, NoRequest
<1>5. WriterAccounted'
  BY DEF Restart, All, FreeMutex, WriterAccounted
<1>6. ClientsOK'
  BY DEF Restart, AllClients, ClientsOK, ClientOK, NoRequest
<1> QED BY <1>1, <1>2, <1>3, <1>4, <1>5, <1>6 DEF ServerInv

-----------------------------------------------------------------------------
(* The invariant holds initially and is kept by every step.                *)

LEMMA InitOK == Init => ServerInv
<1> SUFFICES ASSUME Init PROVE ServerInv
  OBVIOUS
<1>1. FreeMutex \in RWMutexes(Clients) /\ NoRequest \in Requests
  BY DEF FreeMutex, RWMutexes, NoRequest, Requests
<1>2. TypeOK
  BY <1>1, NoIndexTyped, ConstantsAssumption DEF Init, TypeOK, All, AllClients
<1>3. GenerationsOrdered
  BY DEF Init, All, GenerationsOrdered, OrderedAt, Loaded, NoIndex
<1>4. UpdaterOK
  BY DEF Init, UpdaterOK
<1>5. ReadersAccounted /\ WriterAccounted
  BY DEF Init, All, AllClients, ReadersAccounted, ReaderAccounted, WriterAccounted,
         InLock, FreeMutex, NoRequest
<1>6. ClientsOK
  BY DEF Init, AllClients, ClientsOK, ClientOK, NoRequest
<1> QED BY <1>2, <1>3, <1>4, <1>5, <1>6 DEF ServerInv

LEMMA StepOK == ServerInv /\ [Next]_vars => ServerInv'
<1> SUFFICES ASSUME ServerInv, [Next]_vars PROVE ServerInv'
  OBVIOUS
<1> USE DEF ServerInv
<1>1. ASSUME NEW t \in Tags, Publish(t) \/ Remove(t) PROVE ServerInv'
  BY <1>1, PublishKeeps, RemoveKeeps
<1>2. CASE Updater
  <2>1. ASSUME NEW t \in Tags, StatNewer(t) \/ StatSkip(t) \/ AddHandler(t)
        PROVE  ServerInv'
    BY <2>1, StatNewerKeeps, StatSkipKeeps, AddHandlerKeeps
  <2>2. CASE ReadDir \/ LoadFails \/ LoadFirst \/ LoadAgain
    BY <2>2, ReadDirKeeps, LoadFailsKeeps, LoadFirstKeeps, LoadAgainKeeps
  <2>3. CASE AcquireLock \/ Swap \/ ReleaseLock \/ NextTagSet \/ ScanDone \/ Sleep
    BY <2>3, AcquireLockKeeps, SwapKeeps, ReleaseLockKeeps, NextTagSetKeeps,
       ScanDoneKeeps, SleepKeeps
  <2> QED BY <1>2, <2>1, <2>2, <2>3 DEF Updater
<1>3. ASSUME NEW c \in Clients, Request(c) PROVE ServerInv'
  <2>1. ASSUME NEW t \in Tags, HandlePage(c, t) PROVE ServerInv'
    BY <2>1, HandlePageKeeps
  <2>2. ASSUME NEW t \in Tags, NEW n \in Prefixes, Search(c, t, n) PROVE ServerInv'
    BY <2>2, SearchKeeps
  <2>3. CASE Scan(c) \/ Panic(c) \/ Answer(c) \/ PageSent(c)
    BY <2>3, ScanKeeps, PanicKeeps, AnswerKeeps, PageSentKeeps
  <2> QED BY <1>3, <2>1, <2>2, <2>3 DEF Request
<1>4. CASE Restart
  BY <1>4, RestartKeeps
<1>5. CASE UNCHANGED vars
  BY <1>5 DEF vars, diskVars, tagVars, updVars, cliVars, limits, TypeOK,
     GenerationsOrdered, OrderedAt, UpdaterOK, ReadersAccounted, ReaderAccounted, InLock,
     WriterAccounted, ClientsOK, ClientOK, Loaded
<1> QED BY <1>1, <1>2, <1>3, <1>4, <1>5 DEF Next

(* The invariant of the server, for any tags, any clients, any number of   *)
(* publications, faults and restarts.                                      *)
THEOREM ServerInvariant == Spec => []ServerInv
<1> QED BY InitOK, StepOK, PTL DEF Spec

(* Every variable keeps the type TypeOK gives it.                          *)
THEOREM TypeCorrect == Spec => []TypeOK
<1>1. ServerInv => TypeOK
  BY DEF ServerInv
<1> QED BY <1>1, ServerInvariant, PTL

(* The read locks of the tags are held by the goroutines that search, or   *)
(* panicked there, and the write lock by the reload of the tag.            *)
THEOREM LocksAreAccounted == Spec => []LocksAccounted
<1>1. ServerInv => LocksAccounted
  BY DEF ServerInv, LocksAccounted
<1> QED BY <1>1, ServerInvariant, PTL

(* No search answers from an older publication than its tag had already    *)
(* answered from when the request arrived.                                 *)
THEOREM SearchesNeverOlder == Spec => []SearchNeverOlder
<1>1. ServerInv => SearchNeverOlder
  <2> SUFFICES ASSUME ServerInv, NEW c \in Clients, pc[c] = "scanned"
               PROVE  got[c] >= floor[c]
    BY DEF SearchNeverOlder
  <2>1. floor[c] <= got[c] /\ floor[c] \in Nat /\ got[c] \in Nat
    BY DEF ServerInv, ClientsOK, ClientOK, TypeOK
  <2> QED BY <2>1
<1> QED BY <1>1, ServerInvariant, PTL

-----------------------------------------------------------------------------
(* The steps that change a handler.                                        *)

LEMMA HandlerChanges ==
  ASSUME ServerInv, [Next]_vars, NEW t \in Tags,
         handler[t] # NoIndex, handler'[t] # handler[t], restarts' = restarts
  PROVE  upc = "swap" /\ cur = t
<1>1. CASE Swap
  BY <1>1 DEF Swap, ServerInv, TypeOK
<1>2. CASE LoadFirst
  BY <1>2 DEF LoadFirst, ServerInv, TypeOK
<1>3. CASE Restart
  <2>1. restarts \in Nat /\ restarts' = restarts + 1
    BY <1>3 DEF Restart, ServerInv, TypeOK
  <2> QED BY <2>1
<1>4. CASE Updater /\ ~Swap /\ ~LoadFirst
  BY <1>4 DEF Updater, ReadDir, StatNewer, StatSkip, AddHandler, LoadFails, LoadAgain,
     AcquireLock, ReleaseLock, NextTagSet, ScanDone, Sleep, tagVars
<1>5. ASSUME NEW c \in Clients, Request(c) PROVE FALSE
  BY <1>5 DEF Request, HandlePage, Search, Scan, Panic, Answer, PageSent, tagVars
<1>6. ASSUME NEW u \in Tags, Publish(u) \/ Remove(u) PROVE FALSE
  BY <1>6 DEF Publish, Remove, tagVars
<1>7. CASE UNCHANGED vars
  BY <1>7 DEF vars, tagVars
<1> QED BY <1>1, <1>2, <1>3, <1>4, <1>5, <1>6, <1>7 DEF Next

(* The handler of a tag is replaced while no search of the tag is under    *)
(* way.                                                                    *)
THEOREM SwapsAlone == Spec => SwapAlone
<1> DEFINE A == \A t \in Tags :
      handler[t] # NoIndex /\ handler'[t] # handler[t] /\ restarts' = restarts
        => \A c \in Clients : ~Searching(c, t)
<1>1. ServerInv /\ [Next]_vars => [A]_vars
  <2> SUFFICES ASSUME ServerInv, [Next]_vars, NEW t \in Tags, NEW c \in Clients,
                      handler[t] # NoIndex, handler'[t] # handler[t],
                      restarts' = restarts
               PROVE  ~Searching(c, t)
    OBVIOUS
  <2>1. upc = "swap" /\ cur = t
    BY HandlerChanges
  <2>2. lock[t].active = {}
    BY <2>1 DEF ServerInv, UpdaterOK
  <2> QED BY <2>2 DEF ServerInv, ClientsOK, ClientOK, Searching, HasReadLock
<1> QED BY <1>1, ServerInvariant, PTL DEF Spec, SwapAlone

-----------------------------------------------------------------------------
(* The server implements TagStore: a step of the server is one of the      *)
(* store's, or changes nothing the store shows.                            *)

LEMMA StoreInit == Init => Store!Init
BY DEF Init, Store!Init, All, AllClients, NoIndex, NoRequest

LEMMA StoreStutter ==
  ASSUME UNCHANGED <<published, handler, req, got>>
  PROVE  UNCHANGED Store!vars
BY DEF Store!vars

LEMMA PublishMaps ==
  ASSUME NEW t \in Tags, Publish(t)
  PROVE  Store!Publish
BY DEF Publish, Store!Publish, tagVars, cliVars

LEMMA ServeMaps ==
  ASSUME ServerInv, LoadFirst \/ Swap
  PROVE  cur \in Tags /\ Store!Serve(cur)
<1> DEFINE new == IF upc = "load" THEN disk[cur] ELSE fresh
<1>1. /\ cur \in Tags
      /\ handler' = [handler EXCEPT ![cur] = new]
      /\ UNCHANGED <<published, req, got>>
  BY DEF LoadFirst, Swap, diskVars, cliVars, ServerInv, TypeOK
<1>2. /\ new.gen \in handler[cur].gen..published /\ new.gen # 0
  <2>1. handler[cur].gen \in Nat /\ disk[cur].gen \in Nat /\ fresh.gen \in Nat
        /\ published \in Nat
    BY <1>1 DEF ServerInv, TypeOK, Index
  <2>2. CASE LoadFirst
    BY <1>1, <2>1, <2>2 DEF LoadFirst, ServerInv, GenerationsOrdered, OrderedAt, Loaded
  <2>3. CASE Swap
    BY <1>1, <2>1, <2>3 DEF Swap, ServerInv, UpdaterOK, Loaded
  <2> QED BY <2>2, <2>3
<1>3. [t \in Tags |-> handler'[t].gen]
        = [[t \in Tags |-> handler[t].gen] EXCEPT ![cur] = new.gen]
  BY <1>1 DEF ServerInv, TypeOK
<1>4. Store!Serve(cur)
  BY <1>1, <1>2, <1>3 DEF Store!Serve
<1> QED BY <1>1, <1>4

LEMMA SearchMaps ==
  ASSUME ServerInv, NEW c \in Clients, NEW t \in Tags, NEW n \in Prefixes,
         Search(c, t, n)
  PROVE  Store!Ask(c, t)
<1>1. /\ req[c].kind # "search" /\ got[c] = 0
      /\ req' = [req EXCEPT ![c] = [kind |-> "search", tag |-> t, prefix |-> n]]
      /\ UNCHANGED <<published, handler, got>>
  BY DEF Search, diskVars, tagVars, ServerInv, ClientsOK, ClientOK
<1>2. handler[t].gen # 0
  BY DEF Search, ServerInv, GenerationsOrdered, OrderedAt, Loaded
<1>3. [d \in Clients |-> IF req'[d].kind = "search" THEN req'[d].tag ELSE NoTag]
        = [[d \in Clients |-> IF req[d].kind = "search" THEN req[d].tag ELSE NoTag]
             EXCEPT ![c] = t]
  BY <1>1 DEF ServerInv, TypeOK
<1>4. [d \in Clients |-> IF req'[d].kind = "search" THEN got[d] ELSE 0]
        = [d \in Clients |-> IF req[d].kind = "search" THEN got[d] ELSE 0]
  BY <1>1 DEF ServerInv, TypeOK
<1> QED BY <1>1, <1>2, <1>3, <1>4 DEF Store!Ask

LEMMA ScanMaps ==
  ASSUME ServerInv, NEW c \in Clients, Scan(c)
  PROVE  Store!Read(c)
<1>1. /\ req[c].kind = "search" /\ req[c].tag \in Tags /\ got[c] = 0
      /\ got' = [got EXCEPT ![c] = handler[req[c].tag].gen]
      /\ UNCHANGED <<published, handler, req>>
  BY DEF Scan, HasReadLock, diskVars, tagVars, ServerInv, ClientsOK, ClientOK
<1>2. [d \in Clients |-> IF req[d].kind = "search" THEN got'[d] ELSE 0]
        = [[d \in Clients |-> IF req[d].kind = "search" THEN got[d] ELSE 0]
             EXCEPT ![c] = handler[req[c].tag].gen]
  BY <1>1 DEF ServerInv, TypeOK
<1> QED BY <1>1, <1>2 DEF Store!Read

LEMMA AnswerMaps ==
  ASSUME ServerInv, NEW c \in Clients, Answer(c)
  PROVE  Store!Reply(c)
<1>1. /\ req[c].kind = "search" /\ got[c] # 0
      /\ req' = [req EXCEPT ![c] = NoRequest] /\ got' = [got EXCEPT ![c] = 0]
      /\ UNCHANGED <<published, handler>>
  BY DEF Answer, diskVars, tagVars, ServerInv, ClientsOK, ClientOK
<1>2. [d \in Clients |-> IF req'[d].kind = "search" THEN req'[d].tag ELSE NoTag]
        = [[d \in Clients |-> IF req[d].kind = "search" THEN req[d].tag ELSE NoTag]
             EXCEPT ![c] = NoTag]
  BY <1>1 DEF ServerInv, TypeOK, NoRequest
<1>3. [d \in Clients |-> IF req'[d].kind = "search" THEN got'[d] ELSE 0]
        = [[d \in Clients |-> IF req[d].kind = "search" THEN got[d] ELSE 0]
             EXCEPT ![c] = 0]
  BY <1>1 DEF ServerInv, TypeOK, NoRequest
<1> QED BY <1>1, <1>2, <1>3 DEF Store!Reply

LEMMA PageMaps ==
  ASSUME ServerInv, NEW c \in Clients, PageSent(c) \/ \E t \in Tags : HandlePage(c, t)
  PROVE  UNCHANGED Store!vars
<1>1. /\ req[c].kind # "search" /\ UNCHANGED <<published, handler>>
      /\ \E r : r.kind # "search" /\ req' = [req EXCEPT ![c] = r]
      /\ \E g : got' = [got EXCEPT ![c] = g]
  BY DEF PageSent, HandlePage, NoRequest, diskVars, tagVars, ServerInv, ClientsOK, ClientOK
<1>2. [d \in Clients |-> IF req'[d].kind = "search" THEN req'[d].tag ELSE NoTag]
        = [d \in Clients |-> IF req[d].kind = "search" THEN req[d].tag ELSE NoTag]
  BY <1>1 DEF ServerInv, TypeOK
<1>3. [d \in Clients |-> IF req'[d].kind = "search" THEN got'[d] ELSE 0]
        = [d \in Clients |-> IF req[d].kind = "search" THEN got[d] ELSE 0]
  BY <1>1 DEF ServerInv, TypeOK
<1> QED BY <1>1, <1>2, <1>3 DEF Store!vars

LEMMA RestartMaps ==
  ASSUME Restart
  PROVE  Store!Restart
BY DEF Restart, Store!Restart, All, AllClients, NoIndex, NoRequest, diskVars

(* Searching clients see a TagStore: one publication per tag at a time,    *)
(* only ever newer, each search one atomic read of it.                     *)
THEOREM ServerImplementsStore == Spec => ImplementsStore
<1>1. ASSUME ServerInv, [Next]_vars PROVE [Store!Next]_(Store!vars)
  <2>1. ASSUME NEW t \in Tags, Publish(t) PROVE Store!Next
    BY <2>1, PublishMaps DEF Store!Next
  <2>2. ASSUME NEW t \in Tags, Remove(t) PROVE UNCHANGED Store!vars
    BY <2>2, StoreStutter DEF Remove, tagVars, cliVars
  <2>3. CASE LoadFirst \/ Swap
    <3>1. cur \in Tags /\ Store!Serve(cur)
      BY <1>1, <2>3, ServeMaps
    <3> QED BY <3>1 DEF Store!Next, Store!Serve
  <2>4. CASE Updater /\ ~LoadFirst /\ ~Swap
    BY <2>4, StoreStutter DEF Updater, ReadDir, StatNewer, StatSkip, AddHandler, LoadFails,
       LoadAgain, AcquireLock, ReleaseLock, NextTagSet, ScanDone, Sleep,
       diskVars, tagVars, cliVars
  <2>5. ASSUME NEW c \in Clients, Request(c) PROVE [Store!Next]_(Store!vars)
    <3>1. ASSUME NEW t \in Tags, NEW n \in Prefixes, Search(c, t, n) PROVE Store!Next
      BY <1>1, <3>1, SearchMaps DEF Store!Next
    <3>2. CASE Scan(c)
      BY <1>1, <3>2, ScanMaps DEF Store!Next
    <3>3. CASE Answer(c)
      BY <1>1, <3>3, AnswerMaps DEF Store!Next
    <3>4. CASE PageSent(c) \/ \E t \in Tags : HandlePage(c, t)
      BY <1>1, <3>4, PageMaps
    <3>5. CASE Panic(c)
      BY <3>5, StoreStutter DEF Panic, diskVars, tagVars
    <3> QED BY <2>5, <3>1, <3>2, <3>3, <3>4, <3>5 DEF Request
  <2>6. CASE Restart
    BY <2>6, RestartMaps DEF Store!Next
  <2>7. CASE UNCHANGED vars
    BY <2>7, StoreStutter DEF vars, diskVars, tagVars, cliVars
  <2> QED BY <1>1, <2>1, <2>2, <2>3, <2>4, <2>5, <2>6, <2>7 DEF Next
<1> QED BY <1>1, StoreInit, ServerInvariant, PTL DEF Spec, ImplementsStore, Store!Spec

-----------------------------------------------------------------------------
(* When links only move forward, the time recorded for a tag is never      *)
(* ahead of the index that is served.                                      *)

LEMMA TimesStep ==
  ASSUME ~Relinking, ServerInv, TimesOrdered, [Next]_vars
  PROVE  TimesOrdered'
<1> DEFINE At(t) == /\ disk[t].mtime = disk[t].gen /\ handler[t].mtime = handler[t].gen
                    /\ changed[t] <= handler[t].gen
<1>1. /\ \A t \in Tags : disk[t].gen \in Nat /\ handler[t].gen \in Nat /\ changed[t] \in Nat
      /\ published \in Nat /\ info \in Nat /\ fresh.gen \in Nat
      /\ upc \in {"load", "lock", "swap", "unlock"} => cur \in Tags
      /\ \A t \in Tags : At(t)
      /\ DOMAIN disk = Tags /\ DOMAIN handler = Tags /\ DOMAIN changed = Tags
      /\ disk = [t \in Tags |-> disk[t]] /\ handler = [t \in Tags |-> handler[t]]
      /\ changed = [t \in Tags |-> changed[t]]
  BY DEF ServerInv, TypeOK, Index, TimesOrdered
<1>2. ASSUME NEW t \in Tags, Publish(t) PROVE TimesOrdered'
  <2>1. /\ published' = published + 1
        /\ disk' = [disk EXCEPT ![t] = [gen |-> published + 1, mtime |-> published + 1]]
        /\ UNCHANGED <<handler, changed, upc, cur, info, fresh>>
    BY <1>2 DEF Publish, tagVars, updVars
  <2>2. ASSUME NEW u \in Tags
        PROVE  /\ disk'[u].mtime = disk'[u].gen
               /\ disk'[u].gen = IF u = t THEN published + 1 ELSE disk[u].gen
    BY <1>1, <2>1, <2>2
  <2> QED BY <1>1, <2>1, <2>2 DEF TimesOrdered, Loaded
<1>3. ASSUME NEW t \in Tags, Remove(t) PROVE TimesOrdered'
  <2>1. disk' = [disk EXCEPT ![t] = NoIndex]
        /\ UNCHANGED <<published, handler, changed, upc, cur, info, fresh>>
    BY <1>3 DEF Remove, tagVars, updVars
  <2>2. ASSUME NEW u \in Tags
        PROVE  /\ disk'[u].mtime = disk'[u].gen
               /\ disk'[u].gen = IF u = t THEN 0 ELSE disk[u].gen
    BY <1>1, <2>1, <2>2 DEF NoIndex
  <2> QED BY <1>1, <2>1, <2>2 DEF TimesOrdered, Loaded
<1>4. ASSUME NEW t \in Tags, StatNewer(t) PROVE TimesOrdered'
  <2>1. disk[t].gen <= published
    BY DEF ServerInv, GenerationsOrdered, OrderedAt
  <2> QED BY <1>1, <1>4, <2>1 DEF StatNewer, TimesOrdered, diskVars, tagVars
<1>5. CASE LoadFirst
  <2>1. /\ cur \in Tags /\ disk[cur] # NoIndex /\ upc = "load" /\ upc' = "scan"
        /\ handler' = [handler EXCEPT ![cur] = disk[cur]]
        /\ changed' = [changed EXCEPT ![cur] = info]
        /\ UNCHANGED <<disk, published, cur, info, fresh>>
    BY <1>1, <1>5 DEF LoadFirst, diskVars
  <2>2. info <= disk[cur].gen
    BY <2>1 DEF ServerInv, GenerationsOrdered, OrderedAt, TimesOrdered
  <2>3. ASSUME NEW u \in Tags
        PROVE  /\ handler'[u] = IF u = cur THEN disk[cur] ELSE handler[u]
               /\ changed'[u] = IF u = cur THEN info ELSE changed[u]
    BY <1>1, <2>1, <2>3
  <2> QED BY <1>1, <2>1, <2>2, <2>3 DEF TimesOrdered
<1>6. CASE LoadAgain
  <2>1. /\ cur \in Tags /\ disk[cur] # NoIndex /\ upc = "load" /\ upc' = "lock"
        /\ fresh' = disk[cur]
        /\ UNCHANGED <<disk, published, handler, changed, cur, info>>
    BY <1>1, <1>6 DEF LoadAgain, diskVars, tagVars
  <2>2. info <= disk[cur].gen
    BY <2>1 DEF ServerInv, GenerationsOrdered, OrderedAt, TimesOrdered
  <2> QED BY <1>1, <2>1, <2>2 DEF TimesOrdered
<1>7. CASE Swap
  <2>1. /\ cur \in Tags /\ upc = "swap" /\ upc' = "unlock"
        /\ handler' = [handler EXCEPT ![cur] = fresh]
        /\ UNCHANGED <<disk, published, changed, cur, info, fresh>>
    BY <1>1, <1>7 DEF Swap, diskVars
  <2>2. handler[cur].gen <= fresh.gen /\ info <= fresh.gen /\ fresh.mtime = fresh.gen
    BY <2>1 DEF ServerInv, UpdaterOK, TimesOrdered
  <2>3. ASSUME NEW u \in Tags
        PROVE  handler'[u] = IF u = cur THEN fresh ELSE handler[u]
    BY <1>1, <2>1, <2>3
  <2>4. changed[cur] <= fresh.gen
    BY <1>1, <2>1, <2>2
  <2> QED BY <1>1, <2>1, <2>2, <2>3, <2>4 DEF TimesOrdered
<1>8. CASE ReleaseLock
  <2>1. /\ cur \in Tags /\ upc = "unlock" /\ upc' = "scan"
        /\ changed' = [changed EXCEPT ![cur] = info]
        /\ UNCHANGED <<disk, published, handler, cur, info, fresh>>
    BY <1>1, <1>8 DEF ReleaseLock, diskVars
  <2>2. ASSUME NEW u \in Tags
        PROVE  changed'[u] = IF u = cur THEN info ELSE changed[u]
    BY <1>1, <2>1, <2>2
  <2> QED BY <1>1, <2>1, <2>2 DEF TimesOrdered
<1>9. CASE Restart
  BY <1>1, <1>9 DEF Restart, TimesOrdered, All, NoIndex, diskVars
<1>10. CASE AcquireLock
  BY <1>10 DEF AcquireLock, TimesOrdered, diskVars, tagVars
<1>11. CASE ReadDir \/ LoadFails \/ NextTagSet \/ ScanDone \/ Sleep
  BY <1>11 DEF ReadDir, LoadFails, NextTagSet, ScanDone, Sleep, TimesOrdered, diskVars,
     tagVars
<1>12. ASSUME NEW t \in Tags, StatSkip(t) \/ AddHandler(t) PROVE TimesOrdered'
  BY <1>12 DEF StatSkip, AddHandler, TimesOrdered, diskVars, tagVars, updVars
<1>13. ASSUME UNCHANGED <<diskVars, handler, changed, updVars>> PROVE TimesOrdered'
  BY <1>13 DEF TimesOrdered, Loaded, diskVars, updVars
<1>14. ASSUME NEW c \in Clients, Request(c) PROVE TimesOrdered'
  <2>1. UNCHANGED <<diskVars, handler, changed, updVars>>
    BY <1>14 DEF Request, HandlePage, Search, Scan, Panic, Answer, PageSent, tagVars
  <2> QED BY <1>13, <2>1
<1>15. CASE UNCHANGED vars
  BY <1>13, <1>15 DEF vars, tagVars
<1> QED BY <1>2, <1>3, <1>4, <1>5, <1>6, <1>7, <1>8, <1>9, <1>10, <1>11, <1>12, <1>14,
           <1>15 DEF Next, Updater

(* Unless a link is moved back to an index written earlier, the recorded   *)
(* time of a tag never runs ahead of the index it serves, so that a newer  *)
(* one on disk is always noticed.                                          *)
THEOREM ChangedIsNotAhead == ~Relinking => (Spec => []ChangedNotAhead)
<1>1. ASSUME ~Relinking PROVE Init => TimesOrdered
  BY DEF Init, All, NoIndex, TimesOrdered
<1>2. ASSUME ~Relinking PROVE ServerInv /\ TimesOrdered /\ [Next]_vars => TimesOrdered'
  BY <1>2, TimesStep
<1>3. ServerInv /\ TimesOrdered => ChangedNotAhead
  BY DEF TimesOrdered, ChangedNotAhead
<1>4. ASSUME ~Relinking PROVE Spec => []ChangedNotAhead
  BY <1>4, <1>1, <1>2, <1>3, ServerInvariant, PTL DEF Spec
<1> QED BY <1>4
=============================================================================
