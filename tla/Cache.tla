-------------------------------- MODULE Cache --------------------------------
(***************************************************************************)
(* A cache of images (Engine/Cache.h): threads get or create an entry,     *)
(* allocate its memory, use it and let it go; entries that nobody uses are *)
(* evicted, the least recently used first, and given to a thread that      *)
(* destroys them.                                                          *)
(*                                                                         *)
(* The program has three caches.  This is the node cache, whose entries    *)
(* are in RAM; in the viewer cache the entries are tiles of files, and     *)
(* what is new there is the allocation of tiles (TileFiles).  The caches   *)
(* share no state: a behaviour is of one or of the other (tiled).          *)
(*                                                                         *)
(* An entry takes one unit of memory.  A shared pointer is who holds it:   *)
(* an entry is unused when the table has the only one (use_count() == 1).  *)
(***************************************************************************)
EXTENDS TileFiles, Subsequences

CONSTANTS
    Users,          \* threads that render
    Deleter,        \* the DeleterThread
    Clearer,        \* the thread that clears the cache
    Requests,       \* what may be asked: a key and the params that go with it
    Capacity,       \* _maximumCacheSize; all of it may be in memory
    Entries,        \* what may be created: bounds the entries alive at once
    NoEntry,
    MaxTwice        \* bound on entries announced again

Threads == Users \cup {Deleter, Clearer}

ASSUME CacheAssumption ==
    /\ IsFiniteSet(Users) /\ Users # {} /\ Deleter # Clearer /\ Deleter \notin Users /\ Clearer \notin Users
    /\ IsFiniteSet(Requests) /\ Requests # {}
    /\ \A r \in Requests : DOMAIN r = {"key", "params"} /\ r.params \in Nat
    /\ IsFiniteSet(Entries) /\ NoEntry \notin Entries
    /\ Capacity \in Nat \ {0} /\ MaxTwice \in Nat

VARIABLES
    tiled,          \* _isTiled
    table,          \* _memoryCache: entries, the least recently used first
    request,        \* of each entry: its key and params
    data,           \* of each entry: "absent", "empty", "filled" or "freed"
    size,           \* _memoryCacheSize
    deleteQueue,    \* _entriesQueue of the deleter
    deleter,        \* "pop", or "wake" before notifyMemoryDeallocated()
    dying,          \* of each thread: the entries it runs the destructor of
    upc,            \* of each user: where it is
    want, held,     \* ... what it asks for, the entry it got
    kept,           \* ... getOrCreate(): the entries of the list "entries"
    seen,           \* ... createInternal(): memoryCacheSize
    clear,          \* clear(): "idle", or "locked" while it has _lock
    twice           \* history: times an allocated entry was announced again

userVars == <<upc, want, held, kept, seen>>
entryVars == <<request, data>>
memoryVars == <<table, entryVars, size, deleteQueue, deleter, dying, userVars, clear, twice>>
vars == <<tiled, tileVars, memoryVars>>

AnyRequest == CHOOSE r \in Requests : TRUE

(* createInternal(), under _getLock.                                       *)
CreateLabels == {"check", "evict", "wait", "asleep", "insert"}
UserLabels == {"idle", "look", "allocate", "announce", "hold", "removed"}
              \cup CreateLabels

MemoryTypeOK ==
    /\ table \in Seq(Entries) /\ IsInjective(table)
    /\ request \in [Entries -> Requests]
    /\ data \in [Entries -> {"absent", "empty", "filled", "freed"}]
    /\ size \in Nat
    /\ deleteQueue \in Seq(Entries) /\ IsInjective(deleteQueue)
    /\ deleter \in {"pop", "wake"}
    /\ dying \in [Threads -> SUBSET Entries]
    /\ upc \in [Users -> UserLabels] /\ want \in [Users -> Requests]
    /\ held \in [Users -> Entries \cup {NoEntry}] /\ kept \in [Users -> SUBSET Entries]
    /\ seen \in [Users -> Nat]
    /\ clear \in {"idle", "locked"}
    /\ twice \in 0..MaxTwice

TypeOK == tiled \in BOOLEAN /\ TilesTypeOK /\ MemoryTypeOK

Init ==
    /\ tiled \in BOOLEAN /\ TilesInit
    /\ table = <<>> /\ deleteQueue = <<>> /\ size = 0 /\ deleter = "pop"
    /\ request = [e \in Entries |-> AnyRequest]
    /\ data = [e \in Entries |-> "absent"]
    /\ dying = [t \in Threads |-> {}]
    /\ upc = [u \in Users |-> "idle"] /\ want = [u \in Users |-> AnyRequest]
    /\ held = [u \in Users |-> NoEntry] /\ kept = [u \in Users |-> {}]
    /\ seen = [u \in Users |-> 0]
    /\ clear = "idle" /\ twice = 0

---------------------------------------------------------------------------
(* Shared pointers.                                                        *)

HoldersOf(e) == {u \in Users : held[u] = e \/ e \in kept[u]}

(* LRUHashTable::evict() takes entries whose use_count() is 1.             *)
Unused_Always(e) == TRUE
Unused(e) == HoldersOf(e) = {}
UnusedEntries == Filter(table, {e \in Entries : Unused(e)})

(* The entries that evict() returns when it is called until the size from  *)
(* is at most NATRON_CACHE_LIMIT_PERCENT, or nothing is left to evict.     *)
Evicted(from) ==
    LET unused == UnusedEntries
        Left(n) == from - Cardinality({i \in 1..n : data[unused[i]] = "filled"})
        enough == {n \in 0..Len(unused) : 10 * Left(n) <= 9 * Capacity}
    IN SubSeq(unused, 1, Min(enough \cup {Len(unused)}))

Without(s, taken) == Filter(s, Entries \ Range(taken))

(* appendToQueue() inserts at the beginning; it starts the deleter or      *)
(* wakes it.                                                               *)
AppendToQueue(s) == deleteQueue' = s \o deleteQueue

(* The lookup of a key makes its entries the most recently used.           *)
HaveKey(keys) == {e \in Entries : request[e].key \in keys}
OfKey(k) == Filter(table, HaveKey({k}))
Relocated(k) == Without(table, OfKey(k)) \o OfKey(k)

LockIsFree == clear # "locked"
GetLocked_Never == FALSE
GetLocked == \E u \in Users : upc[u] \in CreateLabels \/ (upc[u] = "look" /\ dying[u] # {})

---------------------------------------------------------------------------
(* getOrCreate()                                                           *)

(* getInternal(): every entry of the key; then the first with these params.*)
Matching(r) == Filter(OfKey(r.key), {e \in Entries : request[e] = r})

(* The bound Entries: who creates an entry, alone, will find room for it.  *)
RoomForEntry == \E e \in Entries : data[e] = "absent"

GetOrCreate(u, r) ==
    /\ upc[u] = "idle" /\ dying[u] = {} /\ RoomForEntry
    /\ LockIsFree /\ ~GetLocked
    /\ table' = Relocated(r.key)
    /\ \/ /\ Matching(r) # <<>>
          /\ held' = [held EXCEPT ![u] = Matching(r)[1]]
          /\ upc' = [upc EXCEPT ![u] = "look"]
          /\ UNCHANGED <<want, kept>>
       \/ /\ Matching(r) = <<>>
          /\ want' = [want EXCEPT ![u] = r]
          /\ kept' = [kept EXCEPT ![u] = Range(OfKey(r.key))]
          /\ upc' = [upc EXCEPT ![u] = "check"]
          /\ UNCHANGED held
    /\ UNCHANGED <<entryVars, size, deleteQueue, deleter, dying, seen, clear, twice>>

(* checkCacheFreeMemoryIsGoodEnough(): while the system is short of        *)
(* memory, evict an entry of the node cache and destroy it here.           *)
EvictForSystem(u) ==
    /\ upc[u] = "check" /\ dying[u] = {} /\ LockIsFree
    /\ UnusedEntries # <<>>
    /\ LET e == UnusedEntries[1] IN
       /\ table' = Without(table, <<e>>)
       /\ dying' = [dying EXCEPT ![u] = {e}]
    /\ UNCHANGED <<entryVars, size, deleteQueue, deleter, userVars, clear, twice>>

(* The size is read here, and used once _lock is taken.                    *)
SystemHasMemory(u) ==
    /\ upc[u] = "check" /\ dying[u] = {}
    /\ seen' = [seen EXCEPT ![u] = size]
    /\ upc' = [upc EXCEPT ![u] = "evict"]
    /\ UNCHANGED <<table, entryVars, size, deleteQueue, deleter, dying, want, held,
                   kept, clear, twice>>

EvictInMemory(u) ==
    /\ upc[u] = "evict" /\ LockIsFree
    /\ LET evicted == Evicted(seen[u]) IN
       /\ table' = Without(table, evicted)
       /\ AppendToQueue(evicted)
    /\ seen' = [seen EXCEPT ![u] = 0]
    /\ upc' = [upc EXCEPT ![u] = "wait"]
    /\ UNCHANGED <<entryVars, size, deleter, dying, want, held, kept, clear, twice>>

(* Wait for the deleter while the memory is full and it has work.          *)
WaitForMemory(u) ==
    /\ upc[u] = "wait"
    /\ upc' = [upc EXCEPT ![u] = IF size >= Capacity /\ deleteQueue # <<>>
                                 THEN "asleep" ELSE "insert"]
    /\ UNCHANGED <<table, entryVars, size, deleteQueue, deleter, dying, want, held,
                   kept, seen, clear, twice>>

(* The new entry is sealed in the table, without its memory; the list      *)
(* "entries" goes.                                                         *)
Insert(u) ==
    /\ upc[u] = "insert" /\ LockIsFree
    /\ \E e \in Entries :
       /\ data[e] = "absent"
       /\ request' = [request EXCEPT ![e] = want[u]]
       /\ data' = [data EXCEPT ![e] = "empty"]
       /\ table' = Append(Relocated(want[u].key), e)
       /\ held' = [held EXCEPT ![u] = e]
    /\ kept' = [kept EXCEPT ![u] = {}]
    /\ dying' = [dying EXCEPT ![u] =
                    {x \in kept[u] : HoldersOf(x) = {u}
                                     /\ x \notin Range(table) \cup Range(deleteQueue)}]
    /\ want' = [want EXCEPT ![u] = AnyRequest]
    /\ upc' = [upc EXCEPT ![u] = "look"]
    /\ UNCHANGED <<size, deleteQueue, deleter, seen, clear, twice>>

---------------------------------------------------------------------------
(* The use of an entry.                                                    *)

Goto(u, label) ==
    /\ upc' = [upc EXCEPT ![u] = label]
    /\ UNCHANGED <<want, held, kept, seen>>

(* allocateMemory(): the look is under a lock that is released before the  *)
(* allocation.                                                             *)
Look(u) ==
    /\ upc[u] = "look" /\ dying[u] = {}
    /\ \/ data[held[u]] = "filled" /\ Goto(u, "hold")
       \/ /\ data[held[u]] = "empty"
          /\ twice + Cardinality({v \in Users : upc[v] = "allocate"}) <= MaxTwice
          /\ Goto(u, "allocate")
    /\ UNCHANGED <<table, entryVars, size, deleteQueue, deleter, dying, clear, twice>>

(* allocateRAM() does nothing if there is a buffer already.                *)
Allocate(u) ==
    /\ upc[u] = "allocate"
    /\ data' = [data EXCEPT ![held[u]] = "filled"]
    /\ twice' = IF data[held[u]] = "filled" THEN twice + 1 ELSE twice
    /\ Goto(u, "announce")
    /\ UNCHANGED <<table, request, size, deleteQueue, deleter, dying, clear>>

(* notifyEntryAllocated()                                                  *)
Announce(u) ==
    /\ upc[u] = "announce"
    /\ size' = size + 1
    /\ Goto(u, "hold")
    /\ UNCHANGED <<table, entryVars, deleteQueue, deleter, dying, clear, twice>>

(* removeEntry(): the first entry with the same key, used or not.          *)
RemoveEntry(u) ==
    /\ upc[u] = "hold" /\ LockIsFree
    /\ LET k == request[held[u]].key
           removed == IF OfKey(k) = <<>> THEN <<>> ELSE <<OfKey(k)[1]>> IN
       /\ table' = Without(Relocated(k), removed)
       /\ AppendToQueue(removed)
    /\ Goto(u, "removed")
    /\ UNCHANGED <<entryVars, size, deleter, dying, clear, twice>>

(* The last pointer to an entry destroys it.                               *)
Release(u) ==
    /\ upc[u] \in {"hold", "removed"}
    /\ LET e == held[u] IN
       dying' = [dying EXCEPT ![u] =
                    IF e \in Range(table) \cup Range(deleteQueue) \/ HoldersOf(e) # {u}
                    THEN {} ELSE {e}]
    /\ held' = [held EXCEPT ![u] = NoEntry]
    /\ upc' = [upc EXCEPT ![u] = "idle"]
    /\ UNCHANGED <<table, entryVars, size, deleteQueue, deleter, want, kept, seen,
                   clear, twice>>

(* removeEntry(hash): every entry of the key.                              *)
RemoveHash(k) ==
    /\ LockIsFree /\ OfKey(k) # <<>>
    /\ table' = Without(table, OfKey(k))
    /\ AppendToQueue(OfKey(k))
    /\ UNCHANGED <<entryVars, size, deleter, dying, userVars, clear, twice>>

(* removeAllEntriesForPluginPrivate(): the keys of a plug-in go, and the   *)
(* table is built again from those that stay in the order of the hash      *)
(* table: key by key, the entries of each in the order they had.           *)
RemoveForPlugin(keys) ==
    LET removed == Filter(table, HaveKey(keys))
        left == Filter(table, Entries \ HaveKey(keys))
        Key(e) == request[e].key
    IN /\ LockIsFree /\ removed # <<>>
       /\ \E t \in [DOMAIN left -> Range(left)] :
            /\ IsInjective(t)
            /\ \A i, j \in DOMAIN t : i < j /\ Key(t[i]) = Key(t[j]) =>
                  /\ \A n \in i .. j : Key(t[n]) = Key(t[i])
                  /\ \E m, n \in DOMAIN table :
                        m < n /\ table[m] = t[i] /\ table[n] = t[j]
            /\ table' = t
       /\ AppendToQueue(removed)
       /\ UNCHANGED <<entryVars, size, deleter, dying, userVars, clear, twice>>

---------------------------------------------------------------------------
(* The destructor of an entry: deallocate() and notifyEntryDestroyed().    *)
(* The entry was allocated: who creates one allocates it before it goes.   *)

Deallocate(t, e) ==
    /\ e \in dying[t] /\ \A x \in dying[t] : data[x] # "freed"
    /\ data[e] = "filled"
    /\ data' = [data EXCEPT ![e] = "freed"]
    /\ UNCHANGED <<table, request, size, deleteQueue, deleter, dying, userVars, clear, twice>>

NotifyDestroyed(t, e) ==
    /\ e \in dying[t] /\ data[e] = "freed"
    /\ size' = IF size = 0 THEN 0 ELSE size - 1
    /\ data' = [data EXCEPT ![e] = "absent"]
    /\ request' = [request EXCEPT ![e] = AnyRequest]
    /\ dying' = [dying EXCEPT ![t] = @ \ {e}]
    /\ UNCHANGED <<table, deleteQueue, deleter, userVars, clear, twice>>

Destroy(t) == \E e \in Entries : Deallocate(t, e) \/ NotifyDestroyed(t, e)

---------------------------------------------------------------------------
(* The deleter thread: it takes an entry and destroys it unless somebody   *)
(* else holds it, then wakes who waits for memory.                         *)

AfterPop_Freed(e) == IF Unused(e) THEN "wake" ELSE "pop"
AfterPop(e) == "wake"

DeleterPop ==
    /\ deleter = "pop" /\ deleteQueue # <<>>
    /\ LET e == Head(deleteQueue) IN
       /\ dying' = [dying EXCEPT ![Deleter] = IF Unused(e) THEN {e} ELSE {}]
       /\ deleter' = AfterPop(e)
    /\ deleteQueue' = Tail(deleteQueue)
    /\ UNCHANGED <<table, entryVars, size, userVars, clear, twice>>

DeleterWake ==
    /\ deleter = "wake" /\ dying[Deleter] = {}
    /\ deleter' = "pop"
    /\ upc' = [u \in Users |-> IF upc[u] = "asleep" THEN "wait" ELSE upc[u]]
    /\ UNCHANGED <<table, entryVars, size, deleteQueue, dying, want, held, kept, seen,
                   clear, twice>>

(* clear(): every entry that nobody uses is destroyed, under _lock.        *)
ClearLock ==
    /\ clear = "idle"
    /\ clear' = "locked"
    /\ UNCHANGED <<table, entryVars, size, deleteQueue, deleter, dying, userVars, twice>>

ClearOne ==
    LET e == UnusedEntries[1] IN
    /\ clear = "locked" /\ dying[Clearer] = {} /\ UnusedEntries # <<>>
    /\ table' = Without(table, <<e>>)
    /\ dying' = [dying EXCEPT ![Clearer] = {e}]
    /\ UNCHANGED <<entryVars, size, deleteQueue, deleter, userVars, clear, twice>>

ClearEnd ==
    /\ clear = "locked" /\ dying[Clearer] = {} /\ UnusedEntries = <<>>
    /\ clear' = "idle"
    /\ UNCHANGED <<table, entryVars, size, deleteQueue, deleter, dying, userVars,
                   twice>>

---------------------------------------------------------------------------
UserStep(u) ==
    \/ \E r \in Requests : GetOrCreate(u, r)
    \/ EvictForSystem(u) \/ SystemHasMemory(u) \/ EvictInMemory(u) \/ WaitForMemory(u)
    \/ Insert(u) \/ Look(u) \/ Allocate(u) \/ Announce(u) \/ RemoveEntry(u) \/ Release(u)

MemoryNext ==
    \/ \E u \in Users : UserStep(u)
    \/ \E r \in Requests : RemoveHash(r.key) \/ RemoveForPlugin({r.key})
    \/ DeleterPop \/ DeleterWake \/ ClearLock \/ ClearOne \/ ClearEnd
    \/ \E t \in Threads : Destroy(t)

Next ==
    \/ ~tiled /\ MemoryNext /\ UNCHANGED <<tiled, tileVars>>
    \/ tiled /\ TilesNext /\ UNCHANGED <<tiled, memoryVars>>

Spec == Init /\ [][Next]_vars

---------------------------------------------------------------------------
(* "This way the cache can keep track of the real memory footprint": the   *)
(* size is what is allocated, but for entries whose allocation or          *)
(* destruction is about to be announced, and for those announced twice.    *)
SizeIsFootprint ==
    size + Cardinality({u \in Users : upc[u] = "announce"})
        = Cardinality({e \in Entries : data[e] \in {"filled", "freed"}}) + twice

AccountingInv == TypeOK /\ SizeIsFootprint /\ TilesMatchEntries

(* _getLock: "Be atomic, so it cannot be created by another thread in the  *)
(* meantime": no two entries of the table answer the same request.         *)
NoTwins ==
    \A i, j \in DOMAIN table : request[table[i]] = request[table[j]] => i = j

(* "It is not freed as long as the cachedFrame shared_ptr has a used_count *)
(* greater than 1": the memory of an entry in use stays, and what is in    *)
(* the table is neither being destroyed nor waiting for it.                *)
UsedEntriesStay ==
    /\ \A u \in Users :
          /\ upc[u] \in {"hold", "removed"} => data[held[u]] = "filled"
          /\ held[u] # NoEntry => \A t \in Threads : held[u] \notin dying[t]
    /\ \A e \in Range(table) : /\ e \notin Range(deleteQueue)
                               /\ \A t \in Threads : e \notin dying[t]

(* createInternal() waits for memory only while somebody will wake it: the *)
(* deleter has entries left, or is about to say that it destroyed one.     *)
WaitsForTheDeleter ==
    \A u \in Users : upc[u] = "asleep" => deleteQueue # <<>> \/ deleter = "wake"
=============================================================================
