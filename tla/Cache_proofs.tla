---------------------------- MODULE Cache_proofs ----------------------------
(* The cache keeps account of its memory, never has two entries for one    *)
(* request, and keeps the entries in use: for any users, requests,         *)
(* entries and capacity.                                                   *)
EXTENDS Cache, Subsequences_proofs

USE CacheAssumption

-----------------------------------------------------------------------------
(* The lists                                                               *)

(* UnusedEntries: what evict() may take.                                   *)
LEMMA UnusedList ==
  ASSUME MemoryTypeOK
  PROVE  /\ UnusedEntries \in Seq(Entries) /\ IsInjective(UnusedEntries)
         /\ Range(UnusedEntries) = {e \in Range(table) : HoldersOf(e) = {}}
         /\ UnusedEntries # <<>> => /\ UnusedEntries[1] \in Range(table)
                                    /\ HoldersOf(UnusedEntries[1]) = {}
<1> DEFINE S == {e \in Entries : Unused(e)}
<1>1. table \in Seq(Entries) /\ IsInjective(table)
  BY DEF MemoryTypeOK
<1>2. Range(table) \cap S = {e \in Range(table) : HoldersOf(e) = {}}
  BY <1>1, RangeOfSeq DEF Unused
<1> HIDE DEF S
<1>3. /\ Filter(table, S) \in Seq(Entries) /\ IsInjective(Filter(table, S))
      /\ Range(Filter(table, S)) = Range(table) \cap S
  BY <1>1, FilterProperties
<1>4. Filter(table, S) # <<>> => Filter(table, S)[1] \in Range(table) \cap S
  BY <1>1, FilterEmpty
<1>. QED
  BY <1>2, <1>3, <1>4 DEF UnusedEntries, S

(* The entries of a key.                                                   *)
LEMMA KeyList ==
  ASSUME MemoryTypeOK, NEW k
  PROVE  /\ OfKey(k) \in Seq(Entries) /\ IsInjective(OfKey(k))
         /\ Range(OfKey(k)) = {e \in Range(table) : request[e].key = k}
<1>1. table \in Seq(Entries) /\ IsInjective(table)
  BY DEF MemoryTypeOK
<1>2. Range(table) \cap HaveKey({k}) = {e \in Range(table) : request[e].key = k}
  BY <1>1, RangeOfSeq DEF HaveKey
<1>3. /\ Filter(table, HaveKey({k})) \in Seq(Entries)
      /\ IsInjective(Filter(table, HaveKey({k})))
      /\ Range(Filter(table, HaveKey({k}))) = Range(table) \cap HaveKey({k})
  BY <1>1, FilterProperties
<1>. QED
  BY <1>2, <1>3 DEF OfKey

(* A list without some entries.                                            *)
LEMMA WithoutList ==
  ASSUME NEW s \in Seq(Entries), IsInjective(s), NEW taken
  PROVE  /\ Without(s, taken) \in Seq(Entries) /\ IsInjective(Without(s, taken))
         /\ Range(Without(s, taken)) = Range(s) \ Range(taken)
<1> DEFINE S == Entries \ Range(taken)
<1>1. Range(s) \cap S = Range(s) \ Range(taken)
  BY RangeOfSeq
<1> HIDE DEF S
<1>2. /\ Filter(s, S) \in Seq(Entries) /\ IsInjective(Filter(s, S))
      /\ Range(Filter(s, S)) = Range(s) \cap S
  BY FilterProperties
<1>. QED
  BY <1>1, <1>2 DEF Without, S

(* A look-up reorders the table.                                           *)
LEMMA RelocatedList ==
  ASSUME MemoryTypeOK, NEW k
  PROVE  /\ Relocated(k) \in Seq(Entries) /\ IsInjective(Relocated(k))
         /\ Range(Relocated(k)) = Range(table)
<1>1. table \in Seq(Entries) /\ IsInjective(table)
  BY DEF MemoryTypeOK
<1> DEFINE s == Without(table, OfKey(k))
<1>2. /\ s \in Seq(Entries) /\ IsInjective(s)
      /\ Range(s) = Range(table) \ Range(OfKey(k))
  BY <1>1, WithoutList
<1>3. /\ OfKey(k) \in Seq(Entries) /\ IsInjective(OfKey(k))
      /\ Range(OfKey(k)) \subseteq Range(table)
  BY KeyList
<1> HIDE DEF s
<1>4. /\ s \o OfKey(k) \in Seq(Entries)
      /\ Range(s \o OfKey(k)) = Range(s) \cup Range(OfKey(k))
  BY <1>2, <1>3, ConcatOfLists
<1>5. IsInjective(s \o OfKey(k))
  <2>1. Range(s) \cap Range(OfKey(k)) = {}
    BY <1>2
  <2>. QED
    BY <1>2, <1>3, <2>1, ConcatOfLists
<1>6. Range(s) \cup Range(OfKey(k)) = Range(table)
  BY <1>2, <1>3
<1>. QED
  BY <1>4, <1>5, <1>6 DEF Relocated, s

(* What a request finds.                                                   *)
LEMMA MatchingList ==
  ASSUME MemoryTypeOK, NEW r
  PROVE  /\ Matching(r) # <<>> => Matching(r)[1] \in Range(table)
         /\ Matching(r) = <<>> => \A e \in Range(table) : request[e] # r
<1> DEFINE S == {e \in Entries : request[e] = r}
           s == OfKey(r.key)
<1>1. s \in Seq(Entries) /\ Range(s) = {e \in Range(table) : request[e].key = r.key}
  BY KeyList
<1>2. Range(table) \subseteq Entries
  BY RangeOfSeq DEF MemoryTypeOK
<1> HIDE DEF s, S
<1>3. /\ Filter(s, S) = <<>> <=> Range(s) \cap S = {}
      /\ Filter(s, S) # <<>> => Filter(s, S)[1] \in Range(s) \cap S
  BY <1>1, FilterEmpty
<1>4. Matching(r) = Filter(s, S)
  BY DEF Matching, s, S
<1>5. ASSUME Matching(r) = <<>>, NEW e \in Range(table), request[e] = r PROVE FALSE
  <2>1. e \in Range(s) /\ e \in S
    BY <1>1, <1>2, <1>5 DEF S
  <2>. QED
    BY <1>3, <1>4, <1>5, <2>1
<1>. QED
  BY <1>1, <1>3, <1>4, <1>5

(* evict() takes the first entries that are unused.                        *)
LEMMA EvictedList ==
  ASSUME MemoryTypeOK, NEW from
  PROVE  /\ Evicted(from) \in Seq(Entries) /\ IsInjective(Evicted(from))
         /\ Range(Evicted(from)) \subseteq Range(table)
<1> DEFINE unused == UnusedEntries
           Left(n) == from - Cardinality({i \in 1..n : data[unused[i]] = "filled"})
           enough == {n \in 0..Len(unused) : 10 * Left(n) <= 9 * Capacity}
           all == enough \cup {Len(unused)}
           n == Min(all)
<1>1. /\ unused \in Seq(Entries) /\ IsInjective(unused)
      /\ Range(unused) \subseteq Range(table) /\ Len(unused) \in Nat
  BY UnusedList, LenProperties
<1>2. all \subseteq 0 .. Len(unused) /\ all # {}
  BY <1>1
<1>3. Evicted(from) = SubSeq(unused, 1, n)
  BY DEF Evicted
<1> HIDE DEF enough, unused, Left
<1>4. n \in all
  <2> HIDE DEF all
  <2>1. all \subseteq Nat /\ all # {}
    BY <1>1, <1>2
  <2>2. \E x \in all : \A y \in all : x <= y
    BY <2>1, LeastExists
  <2>. QED
    BY <2>2 DEF Min
<1> HIDE DEF all, n
<1>5. n \in 0 .. Len(unused)
  BY <1>2, <1>4
<1>. QED
  BY <1>1, <1>3, <1>5, PrefixOfList

(* A critical section that takes entries off the table and gives them to   *)
(* the deleter.                                                            *)
LEMMA MovedToDeleter ==
  ASSUME MemoryTypeOK, Range(table) \cap Range(deleteQueue) = {},
         NEW s \in Seq(Entries), IsInjective(s), Range(s) = Range(table),
         NEW taken \in Seq(Entries), IsInjective(taken), Range(taken) \subseteq Range(table),
         table' = Without(s, taken), AppendToQueue(taken)
  PROVE  /\ table' \in Seq(Entries) /\ IsInjective(table')
         /\ deleteQueue' \in Seq(Entries) /\ IsInjective(deleteQueue')
         /\ Range(table') = Range(table) \ Range(taken)
         /\ Range(deleteQueue') = Range(deleteQueue) \cup Range(taken)
<1>1. /\ table' \in Seq(Entries) /\ IsInjective(table')
      /\ Range(table') = Range(table) \ Range(taken)
  BY WithoutList
<1>2. deleteQueue \in Seq(Entries) /\ IsInjective(deleteQueue)
  BY DEF MemoryTypeOK
<1>3. deleteQueue' = taken \o deleteQueue
  BY DEF AppendToQueue
<1>4. /\ deleteQueue' \in Seq(Entries)
      /\ Range(deleteQueue') = Range(taken) \cup Range(deleteQueue)
  BY <1>2, <1>3, ConcatOfLists
<1>5. IsInjective(deleteQueue')
  <2>1. Range(taken) \cap Range(deleteQueue) = {}
    OBVIOUS
  <2>. QED
    BY <1>2, <1>3, <2>1, ConcatOfLists
<1>. QED
  BY <1>1, <1>4, <1>5

-----------------------------------------------------------------------------
(* The invariant                                                           *)

Listed == Range(table) \cup Range(deleteQueue)
HoldLabels == {"look", "allocate", "announce", "hold", "removed"}

(* An entry is in the table or the queue of the deleter, not in both; it   *)
(* has not been destroyed, nor has one that somebody holds; and one that   *)
(* somebody destroys is nowhere else.                                      *)
OwnersInv ==
    /\ Range(table) \cap Range(deleteQueue) = {}
    /\ \A e \in Listed : data[e] \in {"empty", "filled"}
    /\ \A u \in Users : /\ held[u] # NoEntry => data[held[u]] \in {"empty", "filled"}
                        /\ \A e \in kept[u] : data[e] \in {"empty", "filled"}
    /\ \A t \in Threads : \A e \in dying[t] :
          /\ data[e] \in {"filled", "freed"} /\ e \notin Listed
          /\ HoldersOf(e) = {}
          /\ \A s \in Threads : e \in dying[s] => s = t

(* A user holds an entry from the time getOrCreate() returns it, and it    *)
(* has memory once allocateMemory() is over.  An entry without memory is   *)
(* in the hands of one that allocates it.                                  *)
UsersInv ==
    /\ \A u \in Users :
          /\ held[u] # NoEntry <=> upc[u] \in HoldLabels
          /\ kept[u] # {} => upc[u] \in CreateLabels
          /\ upc[u] \in {"announce", "hold", "removed"} => data[held[u]] = "filled"
    /\ \A e \in Entries : data[e] = "empty" =>
          \E u \in Users : held[u] = e /\ upc[u] \in {"look", "allocate"}

(* One user at a time creates an entry, for a request the table has no     *)
(* entry for.                                                              *)
CreatorInv ==
    /\ \A u, v \in Users : upc[u] \in CreateLabels /\ upc[v] \in CreateLabels => u = v
    /\ \A u \in Users : upc[u] \in CreateLabels =>
          \A e \in Range(table) : request[e] # want[u]
    /\ \A d, e \in Range(table) : request[d] = request[e] => d = e

(* The entries somebody has allocated and will announce: one user each,    *)
(* but for those that are announced twice.  Those that allocate an entry   *)
(* that another allocates too will announce it twice.                      *)
At(label) == {u \in Users : upc[u] = label}
HeldAt(label) == {held[u] : u \in At(label)}
EmptyAllocated == {e \in HeldAt("allocate") : data[e] = "empty"}
Allocated == {e \in Entries : data[e] \in {"filled", "freed"}}
AnnounceInv ==
    /\ Cardinality(At("announce")) <= Cardinality(HeldAt("announce")) + twice
    /\ twice + Cardinality(At("allocate")) - Cardinality(EmptyAllocated) <= MaxTwice
    /\ SizeIsFootprint

MemoryInv == MemoryTypeOK /\ OwnersInv /\ UsersInv /\ CreatorInv /\ AnnounceInv

-----------------------------------------------------------------------------
(* The lists stay lists                                                    *)

ListsOK == /\ table \in Seq(Entries) /\ IsInjective(table)
           /\ deleteQueue \in Seq(Entries) /\ IsInjective(deleteQueue)
           /\ Range(table) \cap Range(deleteQueue) = {}

(* A step that gives entries of the table to the deleter.                  *)
LEMMA MoveKeepsLists ==
  ASSUME MemoryTypeOK, OwnersInv,
         NEW s \in Seq(Entries), IsInjective(s), Range(s) = Range(table),
         NEW taken \in Seq(Entries), IsInjective(taken), Range(taken) \subseteq Range(table),
         table' = Without(s, taken), AppendToQueue(taken)
  PROVE  /\ ListsOK' /\ Range(table') \subseteq Range(table)
         /\ Listed' = Listed /\ (deleteQueue # <<>> => deleteQueue' # <<>>)
<1>1. /\ table' \in Seq(Entries) /\ IsInjective(table')
      /\ deleteQueue' \in Seq(Entries) /\ IsInjective(deleteQueue')
      /\ Range(table') = Range(table) \ Range(taken)
      /\ Range(deleteQueue') = Range(deleteQueue) \cup Range(taken)
  BY MovedToDeleter DEF OwnersInv
<1>2. Range(table) \cap Range(deleteQueue) = {}
  BY DEF OwnersInv
<1>3. Range(table') \cap Range(deleteQueue') = {}
  BY <1>1, <1>2
<1>4. deleteQueue # <<>> => deleteQueue' # <<>>
  BY ConcatEqualIffEmpty DEF AppendToQueue, MemoryTypeOK
<1>. QED
  BY <1>1, <1>3, <1>4 DEF ListsOK, Listed

(* A step that takes one unused entry off the table.                       *)
LEMMA TakeKeepsLists ==
  ASSUME MemoryTypeOK, OwnersInv, UnusedEntries # <<>>,
         table' = Without(table, <<UnusedEntries[1]>>), deleteQueue' = deleteQueue
  PROVE  /\ ListsOK' /\ Range(table') = Range(table) \ {UnusedEntries[1]}
         /\ Listed' = Listed \ {UnusedEntries[1]}
<1> DEFINE e == UnusedEntries[1]
<1>1. table \in Seq(Entries) /\ IsInjective(table)
      /\ deleteQueue \in Seq(Entries) /\ IsInjective(deleteQueue)
  BY DEF MemoryTypeOK
<1>2. e \in Range(table)
  BY UnusedList
<1> HIDE DEF e
<1>3. Range(<<e>>) = {e}
  BY DEF Range
<1>4. /\ table' \in Seq(Entries) /\ IsInjective(table')
      /\ Range(table') = Range(table) \ {e}
  BY <1>1, <1>3, WithoutList DEF e
<1>5. Range(table) \cap Range(deleteQueue) = {}
  BY DEF OwnersInv
<1>. QED
  BY <1>1, <1>2, <1>4, <1>5 DEF ListsOK, Listed, e

(* A look-up changes the order only.                                       *)
LEMMA RelocateKeepsLists ==
  ASSUME MemoryTypeOK, OwnersInv, NEW k, table' = Relocated(k), deleteQueue' = deleteQueue
  PROVE  ListsOK' /\ Range(table') = Range(table) /\ Listed' = Listed
<1>1. deleteQueue \in Seq(Entries) /\ IsInjective(deleteQueue)
  BY DEF MemoryTypeOK
<1>2. table' \in Seq(Entries) /\ IsInjective(table') /\ Range(table') = Range(table)
  BY RelocatedList
<1>. QED
  BY <1>1, <1>2 DEF ListsOK, Listed, OwnersInv

(* createInternal() puts a new entry in the table.                         *)
LEMMA InsertKeepsLists ==
  ASSUME MemoryTypeOK, OwnersInv, NEW k, NEW e \in Entries, data[e] = "absent",
         table' = Append(Relocated(k), e), deleteQueue' = deleteQueue
  PROVE  ListsOK' /\ Range(table') = Range(table) \cup {e} /\ Listed' = Listed \cup {e}
<1>1. deleteQueue \in Seq(Entries) /\ IsInjective(deleteQueue)
  BY DEF MemoryTypeOK
<1>2. e \notin Range(table) /\ e \notin Range(deleteQueue)
  BY DEF OwnersInv, Listed
<1> DEFINE s == Relocated(k)
<1>3. s \in Seq(Entries) /\ IsInjective(s) /\ Range(s) = Range(table)
  BY RelocatedList
<1> HIDE DEF s
<1>4. /\ Append(s, e) \in Seq(Entries) /\ Range(Append(s, e)) = Range(s) \cup {e}
      /\ IsInjective(Append(s, e))
  BY <1>2, <1>3, AppendToList
<1>5. table' = Append(s, e)
  BY DEF s
<1>6. Range(table') = Range(table) \cup {e}
  BY <1>3, <1>4, <1>5
<1>7. Range(table) \cap Range(deleteQueue) = {}
  BY DEF OwnersInv
<1>8. Range(table') \cap Range(deleteQueue') = {}
  BY <1>2, <1>6, <1>7
<1>. QED
  BY <1>1, <1>4, <1>5, <1>6, <1>8 DEF ListsOK, Listed

(* The deleter takes the first entry of its queue.                         *)
LEMMA PopKeepsLists ==
  ASSUME MemoryTypeOK, OwnersInv, deleteQueue # <<>>,
         table' = table, deleteQueue' = Tail(deleteQueue)
  PROVE  /\ ListsOK' /\ Head(deleteQueue) \in Range(deleteQueue)
         /\ Range(table') = Range(table)
         /\ Listed' = Listed \ {Head(deleteQueue)}
<1>1. /\ table \in Seq(Entries) /\ IsInjective(table)
      /\ deleteQueue \in Seq(Entries) /\ IsInjective(deleteQueue)
  BY DEF MemoryTypeOK
<1>2. /\ Head(deleteQueue) \in Range(deleteQueue)
      /\ deleteQueue' \in Seq(Entries) /\ IsInjective(deleteQueue')
      /\ Range(deleteQueue') = Range(deleteQueue) \ {Head(deleteQueue)}
  BY <1>1, TailOfList
<1>3. Range(table) \cap Range(deleteQueue) = {}
  BY DEF OwnersInv
<1>. QED
  BY <1>1, <1>2, <1>3 DEF ListsOK, Listed

(* removeAllEntriesForPlugin() builds the table again from what stays.     *)
LEMMA RemoveForPluginKeepsLists ==
  ASSUME MemoryTypeOK, OwnersInv, NEW keys, RemoveForPlugin(keys)
  PROVE  /\ ListsOK' /\ Range(table') \subseteq Range(table) /\ Listed' \subseteq Listed
         /\ deleteQueue # <<>> => deleteQueue' # <<>>
<1> DEFINE removed == Filter(table, HaveKey(keys))
           left == Filter(table, Entries \ HaveKey(keys))
<1>1. /\ table \in Seq(Entries) /\ IsInjective(table)
      /\ deleteQueue \in Seq(Entries) /\ IsInjective(deleteQueue)
  BY DEF MemoryTypeOK
<1>2. /\ removed \in Seq(Entries) /\ IsInjective(removed)
      /\ Range(removed) = Range(table) \cap HaveKey(keys)
      /\ left \in Seq(Entries)
      /\ Range(left) = Range(table) \cap (Entries \ HaveKey(keys))
  BY <1>1, FilterProperties
<1>3. /\ IsInjective(table') /\ table' \in [DOMAIN left -> Range(left)]
      /\ deleteQueue' = removed \o deleteQueue
  BY DEF RemoveForPlugin, AppendToQueue
<1> HIDE DEF removed, left
<1>4. Range(left) \subseteq Entries /\ DOMAIN left = 1 .. Len(left) /\ Len(left) \in Nat
  BY <1>2, LenProperties, RangeOfSeq
<1>5. table' \in Seq(Entries)
  <2>1. table' \in [1 .. Len(left) -> Entries]
    BY <1>3, <1>4
  <2>. QED
    BY <1>4, <2>1, SeqDef
<1>6. Range(table') \subseteq Range(left)
  BY <1>3 DEF Range
<1>7. Range(table) \cap Range(deleteQueue) = {}
  BY DEF OwnersInv
<1>8. /\ deleteQueue' \in Seq(Entries)
      /\ Range(deleteQueue') = Range(removed) \cup Range(deleteQueue)
  BY <1>1, <1>2, <1>3, ConcatOfLists
<1>9. IsInjective(deleteQueue')
  <2>1. Range(removed) \cap Range(deleteQueue) = {}
    BY <1>2, <1>7
  <2>. QED
    BY <1>1, <1>2, <1>3, <2>1, ConcatOfLists
<1>10. Range(table') \cap Range(deleteQueue') = {}
  BY <1>2, <1>6, <1>7, <1>8
<1>11. deleteQueue # <<>> => deleteQueue' # <<>>
  BY <1>1, <1>2, <1>3, ConcatEqualIffEmpty
<1>. QED
  BY <1>2, <1>3, <1>5, <1>6, <1>8, <1>9, <1>10, <1>11 DEF ListsOK, Listed

(* What a step does to the lists: only a new entry enters them, and the    *)
(* queue becomes empty only when the deleter takes its last entry.         *)
ListsStep ==
    /\ ListsOK'
    /\ \A e \in Listed' : e \in Listed
          \/ (e \in Entries /\ data[e] = "absent" /\ data'[e] = "empty")
    /\ \A e \in Range(table') : e \in Range(table) \/ data[e] = "absent"
    /\ deleteQueue # <<>> => deleteQueue' # <<>> \/ deleter' = "wake"

(* Every step keeps the lists in order.                                    *)
LEMMA ListsKept ==
  ASSUME MemoryTypeOK, OwnersInv, MemoryNext
  PROVE  ListsStep
<1>1. ASSUME UNCHANGED <<table, deleteQueue>> PROVE ListsStep
  BY <1>1 DEF ListsStep, ListsOK, Listed, MemoryTypeOK, OwnersInv
<1>2. ASSUME NEW s \in Seq(Entries), IsInjective(s), Range(s) = Range(table),
             NEW taken \in Seq(Entries), IsInjective(taken), Range(taken) \subseteq Range(table),
             table' = Without(s, taken), AppendToQueue(taken)
      PROVE  ListsStep
  BY <1>2, MoveKeepsLists DEF ListsStep
<1>3. ASSUME UnusedEntries # <<>>, table' = Without(table, <<UnusedEntries[1]>>),
             deleteQueue' = deleteQueue
      PROVE  ListsStep
  BY <1>3, TakeKeepsLists DEF ListsStep
<1>4. table \in Seq(Entries) /\ IsInjective(table)
  BY DEF MemoryTypeOK
<1>5. ASSUME NEW u \in Users, UserStep(u) PROVE ListsStep
  <2>1. ASSUME NEW r \in Requests, GetOrCreate(u, r) PROVE ListsStep
    BY <2>1, RelocateKeepsLists DEF GetOrCreate, ListsStep
  <2>2. CASE EvictForSystem(u)
    BY <1>3, <2>2 DEF EvictForSystem
  <2>3. CASE EvictInMemory(u)
    <3> DEFINE s == Evicted(seen[u])
    <3>1. s \in Seq(Entries) /\ IsInjective(s) /\ Range(s) \subseteq Range(table)
      BY EvictedList
    <3>2. table' = Without(table, s) /\ AppendToQueue(s)
      BY <2>3 DEF EvictInMemory
    <3> HIDE DEF s
    <3>. QED
      BY <1>2, <1>4, <3>1, <3>2
  <2>4. CASE Insert(u)
    <3>1. PICK e \in Entries : /\ data[e] = "absent"
                               /\ data' = [data EXCEPT ![e] = "empty"]
                               /\ table' = Append(Relocated(want[u].key), e)
      BY <2>4 DEF Insert
    <3>2. deleteQueue' = deleteQueue
      BY <2>4 DEF Insert
    <3>3. ListsOK' /\ Listed' = Listed \cup {e} /\ Range(table') = Range(table) \cup {e}
      BY <3>1, <3>2, InsertKeepsLists
    <3>4. data'[e] = "empty"
      BY <3>1 DEF MemoryTypeOK
    <3>. QED
      BY <3>1, <3>2, <3>3, <3>4 DEF ListsStep
  <2>5. CASE RemoveEntry(u)
    <3> DEFINE k == request[held[u]].key
               s == Relocated(k)
               taken == IF OfKey(k) = <<>> THEN <<>> ELSE <<OfKey(k)[1]>>
    <3>1. s \in Seq(Entries) /\ IsInjective(s) /\ Range(s) = Range(table)
      BY RelocatedList
    <3>2. taken \in Seq(Entries) /\ IsInjective(taken) /\ Range(taken) \subseteq Range(table)
      <4>1. /\ OfKey(k) \in Seq(Entries) /\ Range(OfKey(k)) \subseteq Range(table)
        BY KeyList
      <4>2. CASE OfKey(k) = <<>>
        BY <4>2 DEF IsInjective, Range
      <4>3. CASE OfKey(k) # <<>>
        <5>1. OfKey(k)[1] \in Range(OfKey(k)) /\ OfKey(k)[1] \in Entries
          BY <4>1, <4>3, EmptySeq, LenProperties DEF Range
        <5> DEFINE x == OfKey(k)[1]
        <5>2. taken = <<x>> /\ x \in Range(table) /\ x \in Entries
          BY <4>1, <4>3, <5>1
        <5> HIDE DEF x, taken
        <5>. QED
          BY <5>2 DEF IsInjective, Range
      <4>. QED
        BY <4>2, <4>3
    <3>3. table' = Without(s, taken) /\ AppendToQueue(taken)
      BY <2>5 DEF RemoveEntry
    <3> HIDE DEF s, taken
    <3>. QED
      BY <1>2, <3>1, <3>2, <3>3
  <2>6. CASE SystemHasMemory(u) \/ WaitForMemory(u) \/ Look(u) \/ Allocate(u) \/ Announce(u) \/ Release(u)
    BY <1>1, <2>6 DEF SystemHasMemory, WaitForMemory, Look, Allocate, Announce, Release
  <2>. QED
    BY <1>5, <2>1, <2>2, <2>3, <2>4, <2>5, <2>6 DEF UserStep
<1>6. ASSUME NEW k, RemoveHash(k) PROVE ListsStep
  <2> DEFINE s == OfKey(k)
  <2>1. s \in Seq(Entries) /\ IsInjective(s) /\ Range(s) \subseteq Range(table)
    BY KeyList
  <2>2. table' = Without(table, s) /\ AppendToQueue(s)
    BY <1>6 DEF RemoveHash
  <2> HIDE DEF s
  <2>. QED
    BY <1>2, <1>4, <2>1, <2>2
<1>7. ASSUME NEW keys, RemoveForPlugin(keys) PROVE ListsStep
  BY <1>7, RemoveForPluginKeepsLists DEF ListsStep
<1>8. CASE DeleterPop
  BY <1>8, PopKeepsLists DEF DeleterPop, AfterPop, ListsStep
<1>9. CASE ClearOne
  BY <1>3, <1>9 DEF ClearOne
<1>10. CASE DeleterWake \/ ClearLock \/ ClearEnd
  BY <1>1, <1>10 DEF DeleterWake, ClearLock, ClearEnd
<1>11. ASSUME NEW t \in Threads, Destroy(t) PROVE ListsStep
  BY <1>1, <1>11 DEF Destroy, Deallocate, NotifyDestroyed
<1>. QED
  BY <1>5, <1>6, <1>7, <1>8, <1>9, <1>10, <1>11 DEF MemoryNext

-----------------------------------------------------------------------------
(* The types                                                               *)

(* The announcements and allocations are finitely many.                    *)
LEMMA FiniteCounts ==
  ASSUME MemoryTypeOK
  PROVE  /\ \A label : /\ IsFiniteSet(At(label)) /\ IsFiniteSet(HeldAt(label))
                       /\ Cardinality(At(label)) \in Nat /\ Cardinality(HeldAt(label)) \in Nat
         /\ IsFiniteSet(EmptyAllocated) /\ Cardinality(EmptyAllocated) \in Nat
         /\ IsFiniteSet(Allocated) /\ Cardinality(Allocated) \in Nat
<1>1. ASSUME NEW label PROVE IsFiniteSet(At(label)) /\ IsFiniteSet(HeldAt(label))
  <2>1. IsFiniteSet(At(label))
    <3>1. At(label) \subseteq Users
      BY DEF At
    <3>. QED
      BY <3>1, FS_Subset
  <2>2. HeldAt(label) \subseteq Entries \cup {NoEntry}
    BY DEF HeldAt, At, MemoryTypeOK
  <2>3. IsFiniteSet(Entries \cup {NoEntry})
    BY FS_AddElement
  <2>. QED
    BY <2>1, <2>2, <2>3, FS_Subset
<1>2. IsFiniteSet(EmptyAllocated)
  <2>1. EmptyAllocated \subseteq HeldAt("allocate")
    BY DEF EmptyAllocated
  <2>. QED
    BY <1>1, <2>1, FS_Subset
<1>3. IsFiniteSet(Allocated)
  <2>1. Allocated \subseteq Entries
    BY DEF Allocated
  <2>. QED
    BY <2>1, FS_Subset
<1>. QED
  BY <1>1, <1>2, <1>3, FS_CardinalityType

(* Who allocates an entry that has been allocated was counted when it was  *)
(* let in.                                                                 *)
LEMMA RoomForTwice ==
  ASSUME MemoryInv, NEW u \in Users, upc[u] = "allocate", data[held[u]] = "filled"
  PROVE  twice + 1 <= MaxTwice
<1> USE DEF MemoryInv
<1> DEFINE L == At("allocate")
           R == L \ {u}
           f == [v \in R |-> held[v]]
<1>1. /\ IsFiniteSet(L) /\ IsFiniteSet(EmptyAllocated)
      /\ Cardinality(L) \in Nat /\ Cardinality(EmptyAllocated) \in Nat
  BY FiniteCounts
<1>2. u \in L
  BY DEF At
<1>3. EmptyAllocated \subseteq Range(f)
  BY DEF EmptyAllocated, HeldAt, Range
<1>4. twice + Cardinality(L) - Cardinality(EmptyAllocated) <= MaxTwice
  BY DEF AnnounceInv
<1> HIDE DEF L
<1>5. IsFiniteSet(R) /\ Cardinality(R) = Cardinality(L) - 1
  BY <1>1, <1>2, FS_RemoveElement
<1>6. Cardinality(EmptyAllocated) <= Cardinality(R)
  <2>1. f \in [R -> Range(f)] /\ Range(f) = {f[v] : v \in R}
    BY DEF Range
  <2> HIDE DEF f, R
  <2>2. Range(f) \subseteq Range(f) /\ f \in Surjection(R, Range(f))
    BY <2>1, Zenon DEF Surjection, Range
  <2>3. IsFiniteSet(Range(f)) /\ Cardinality(Range(f)) <= Cardinality(R)
    BY <1>5, <2>2, FS_Surjection
  <2>4. Cardinality(EmptyAllocated) <= Cardinality(Range(f))
    BY <1>3, <2>3, FS_Subset
  <2>. QED
    BY <1>1, <1>5, <2>3, <2>4, FS_CardinalityType
<1>7. twice \in Nat /\ MaxTwice \in Nat
  BY DEF MemoryTypeOK
<1>. QED
  BY <1>1, <1>4, <1>5, <1>6, <1>7

(* Every step keeps the types.                                             *)
LEMMA TypesKept ==
  ASSUME MemoryInv, MemoryNext
  PROVE  MemoryTypeOK'
<1> USE DEF MemoryInv
<1> DEFINE Lists == table' \in Seq(Entries) /\ IsInjective(table')
                    /\ deleteQueue' \in Seq(Entries) /\ IsInjective(deleteQueue')
<1>1. Lists
  BY ListsKept DEF ListsStep, ListsOK
<1>2. AnyRequest \in Requests
  BY DEF AnyRequest
<1>3. Range(table) \subseteq Entries
  BY RangeOfSeq DEF MemoryTypeOK
<1> HIDE DEF Lists
<1> USE DEF userVars, entryVars, UserLabels, CreateLabels, Threads
<1>4. ASSUME NEW u \in Users, UserStep(u) PROVE MemoryTypeOK'
  <2>1. ASSUME NEW r \in Requests, GetOrCreate(u, r) PROVE MemoryTypeOK'
    <3>1. Matching(r) # <<>> => Matching(r)[1] \in Entries
      BY <1>3, MatchingList
    <3>2. Range(OfKey(r.key)) \subseteq Entries
      BY <1>3, KeyList
    <3>3. CASE Matching(r) # <<>> /\ held' = [held EXCEPT ![u] = Matching(r)[1]]
               /\ upc' = [upc EXCEPT ![u] = "look"] /\ UNCHANGED <<want, kept>>
      BY <1>1, <2>1, <3>1, <3>3 DEF GetOrCreate, MemoryTypeOK, Lists
    <3>4. CASE want' = [want EXCEPT ![u] = r] /\ upc' = [upc EXCEPT ![u] = "check"]
               /\ kept' = [kept EXCEPT ![u] = Range(OfKey(r.key))] /\ UNCHANGED held
      <4> DEFINE K == Range(OfKey(r.key))
      <4>1. K \subseteq Entries /\ kept' = [kept EXCEPT ![u] = K]
        BY <3>2, <3>4
      <4> HIDE DEF K
      <4>. QED
        BY <1>1, <2>1, <3>4, <4>1 DEF GetOrCreate, MemoryTypeOK, Lists
    <3>. QED
      BY <2>1, <3>3, <3>4 DEF GetOrCreate
  <2>2. CASE EvictForSystem(u)
    <3>1. UnusedEntries[1] \in Entries
      BY <1>3, <2>2, UnusedList DEF EvictForSystem
    <3>. QED
      BY <1>1, <2>2, <3>1 DEF EvictForSystem, MemoryTypeOK, Lists
  <2>3. CASE SystemHasMemory(u)
    BY <1>1, <2>3 DEF SystemHasMemory, MemoryTypeOK, Lists
  <2>4. CASE EvictInMemory(u)
    BY <1>1, <2>4 DEF EvictInMemory, MemoryTypeOK, Lists
  <2>5. CASE WaitForMemory(u)
    BY <1>1, <2>5 DEF WaitForMemory, MemoryTypeOK, Lists
  <2>6. CASE Insert(u)
    <3> DEFINE gone == {x \in kept[u] : HoldersOf(x) = {u}
                                        /\ x \notin Range(table) \cup Range(deleteQueue)}
    <3>1. gone \subseteq Entries /\ dying' = [dying EXCEPT ![u] = gone]
      BY <2>6 DEF Insert, MemoryTypeOK
    <3>2. PICK e \in Entries : /\ request' = [request EXCEPT ![e] = want[u]]
                               /\ data' = [data EXCEPT ![e] = "empty"]
                               /\ held' = [held EXCEPT ![u] = e]
      BY <2>6 DEF Insert
    <3>3. /\ UNCHANGED <<size, deleteQueue, deleter, seen, clear, twice>>
          /\ kept' = [kept EXCEPT ![u] = {}] /\ want' = [want EXCEPT ![u] = AnyRequest]
          /\ upc' = [upc EXCEPT ![u] = "look"]
      BY <2>6 DEF Insert
    <3> HIDE DEF gone
    <3>. QED
      BY <1>1, <1>2, <3>1, <3>2, <3>3 DEF MemoryTypeOK, Lists
  <2>7. CASE Look(u)
    BY <1>1, <2>7 DEF Look, Goto, MemoryTypeOK, Lists
  <2>8. CASE Allocate(u)
    <3>1. twice' \in 0 .. MaxTwice
      BY <2>8, RoomForTwice DEF Allocate, MemoryTypeOK
    <3>. QED
      BY <1>1, <2>8, <3>1 DEF Allocate, Goto, MemoryTypeOK, Lists
  <2>9. CASE Announce(u)
    BY <1>1, <2>9 DEF Announce, Goto, MemoryTypeOK, Lists
  <2>10. CASE RemoveEntry(u)
    BY <1>1, <2>10 DEF RemoveEntry, Goto, MemoryTypeOK, Lists
  <2>11. CASE Release(u)
    <3> DEFINE gone == IF held[u] \in Range(table) \cup Range(deleteQueue) \/ HoldersOf(held[u]) # {u}
                       THEN {} ELSE {held[u]}
    <3>1. held[u] \in Entries
      BY <2>11 DEF Release, UsersInv, HoldLabels, MemoryTypeOK
    <3>2. gone \subseteq Entries /\ dying' = [dying EXCEPT ![u] = gone]
      BY <2>11, <3>1 DEF Release
    <3>3. /\ held' = [held EXCEPT ![u] = NoEntry] /\ upc' = [upc EXCEPT ![u] = "idle"]
          /\ UNCHANGED <<table, entryVars, size, deleteQueue, deleter, want, kept, seen,
                         clear, twice>>
      BY <2>11 DEF Release
    <3> HIDE DEF gone
    <3>. QED
      BY <1>1, <3>2, <3>3 DEF MemoryTypeOK, Lists
  <2>. QED
    BY <1>4, <2>1, <2>2, <2>3, <2>4, <2>5, <2>6, <2>7, <2>8, <2>9, <2>10, <2>11 DEF UserStep
<1>5. ASSUME NEW k, RemoveHash(k) PROVE MemoryTypeOK'
  BY <1>1, <1>5 DEF RemoveHash, MemoryTypeOK, Lists
<1>6. ASSUME NEW keys, RemoveForPlugin(keys) PROVE MemoryTypeOK'
  <2>1. UNCHANGED <<entryVars, size, deleter, dying, userVars, clear, twice>>
    BY <1>6 DEF RemoveForPlugin
  <2>. QED
    BY <1>1, <2>1 DEF MemoryTypeOK, Lists
<1>7. CASE DeleterPop
  <2>1. Head(deleteQueue) \in Entries
    BY <1>7, PopKeepsLists, RangeOfSeq DEF DeleterPop, MemoryTypeOK
  <2>. QED
    BY <1>1, <1>7, <2>1 DEF DeleterPop, AfterPop, MemoryTypeOK, Lists
<1>8. CASE DeleterWake
  BY <1>1, <1>8 DEF DeleterWake, MemoryTypeOK, Lists
<1>9. CASE ClearLock \/ ClearEnd
  BY <1>1, <1>9 DEF ClearLock, ClearEnd, MemoryTypeOK, Lists
<1>10. CASE ClearOne
  <2>1. UnusedEntries[1] \in Entries
    BY <1>3, <1>10, UnusedList DEF ClearOne
  <2>. QED
    BY <1>1, <1>10, <2>1 DEF ClearOne, MemoryTypeOK, Lists
<1>11. ASSUME NEW t \in Threads, Destroy(t) PROVE MemoryTypeOK'
  <2>1. ASSUME NEW e \in Entries, Deallocate(t, e) PROVE MemoryTypeOK'
    BY <1>1, <2>1 DEF Deallocate, MemoryTypeOK, Lists
  <2>2. ASSUME NEW e \in Entries, NotifyDestroyed(t, e) PROVE MemoryTypeOK'
    BY <1>1, <1>2, <2>2 DEF NotifyDestroyed, MemoryTypeOK, Lists
  <2>. QED
    BY <1>11, <2>1, <2>2 DEF Destroy
<1>. QED
  BY <1>4, <1>5, <1>6, <1>7, <1>8, <1>9, <1>10, <1>11 DEF MemoryNext

-----------------------------------------------------------------------------
(* Who has an entry                                                        *)

(* A step that changes neither entries nor pointers.                       *)
LEMMA SamePointers ==
  ASSUME OwnersInv, ListsStep, UNCHANGED <<data, held, kept, dying>>
  PROVE  OwnersInv'
<1>1. Listed' \subseteq Listed
  BY DEF ListsStep
<1>2. \A e : HoldersOf(e)' = HoldersOf(e)
  BY DEF HoldersOf
<1>3. (Range(table) \cap Range(deleteQueue) = {})'
  BY DEF ListsStep, ListsOK
<1>4. (\A e \in Listed : data[e] \in {"empty", "filled"})'
  BY <1>1 DEF OwnersInv
<1>. QED
  BY <1>1, <1>2, <1>3, <1>4 DEF OwnersInv

(* Somebody is given entries that are in the table.                        *)
LEMMA PointersGiven ==
  ASSUME MemoryTypeOK, OwnersInv, ListsStep, NEW u \in Users, UNCHANGED <<data, dying>>,
         \/ kept' = kept /\ \E e \in Range(table) : held' = [held EXCEPT ![u] = e]
         \/ held' = held /\ \E K \in SUBSET Range(table) : kept' = [kept EXCEPT ![u] = K]
  PROVE  OwnersInv'
<1>1. Listed' \subseteq Listed
  BY DEF ListsStep
<1>2. \A e : e \notin Range(table) => HoldersOf(e)' \subseteq HoldersOf(e)
  BY DEF HoldersOf, MemoryTypeOK
<1>3. (Range(table) \cap Range(deleteQueue) = {})'
  BY DEF ListsStep, ListsOK
<1>4. (\A e \in Listed : data[e] \in {"empty", "filled"})'
  BY <1>1 DEF OwnersInv
<1>5. \A e \in Range(table) : data[e] \in {"empty", "filled"}
  BY DEF OwnersInv, Listed
<1>6. (\A v \in Users : /\ held[v] # NoEntry => data[held[v]] \in {"empty", "filled"}
                        /\ \A e \in kept[v] : data[e] \in {"empty", "filled"})'
  <2>1. CASE kept' = kept /\ \E e \in Range(table) : held' = [held EXCEPT ![u] = e]
    BY <1>5, <2>1 DEF OwnersInv, MemoryTypeOK
  <2>2. ASSUME NEW K \in SUBSET Range(table), held' = held, kept' = [kept EXCEPT ![u] = K],
               NEW v \in Users
        PROVE  /\ held'[v] # NoEntry => data'[held'[v]] \in {"empty", "filled"}
               /\ \A e \in kept'[v] : data'[e] \in {"empty", "filled"}
    <3>1. kept'[v] = K \/ kept'[v] = kept[v]
      BY <2>2 DEF MemoryTypeOK
    <3>. QED
      BY <1>5, <2>2, <3>1 DEF OwnersInv
  <2>. QED
    BY <2>1, <2>2
<1>7. \A t \in Threads : \A e \in dying[t] : e \notin Range(table)
  BY DEF OwnersInv, Listed
<1>8. (\A t \in Threads : \A e \in dying[t] :
          /\ data[e] \in {"filled", "freed"} /\ e \notin Listed
          /\ HoldersOf(e) = {}
          /\ \A s \in Threads : e \in dying[s] => s = t)'
  BY <1>1, <1>2, <1>7 DEF OwnersInv
<1>. QED
  BY <1>3, <1>4, <1>6, <1>8 DEF OwnersInv

(* A thread takes allocated entries that are listed no more, and that      *)
(* nobody holds, to destroy them.                                          *)
LEMMA TakenToDestroy ==
  ASSUME MemoryTypeOK, OwnersInv, ListsStep, NEW t \in Threads, NEW gone \in SUBSET Entries,
         dying' = [dying EXCEPT ![t] = gone],
         UNCHANGED data,
         \A u \in Users : held'[u] \in {held[u], NoEntry} /\ kept'[u] \subseteq kept[u],
         \A e \in gone : /\ data[e] = "filled" /\ e \notin Listed'
                         /\ HoldersOf(e)' = {}
                         /\ \A s \in Threads : e \notin dying[s]
  PROVE  OwnersInv'
<1>1. Listed' \subseteq Listed
  BY DEF ListsStep
<1>2. \A e \in Entries : HoldersOf(e)' \subseteq HoldersOf(e)
  BY DEF HoldersOf
<1>3. (Range(table) \cap Range(deleteQueue) = {})'
  BY DEF ListsStep, ListsOK
<1>4. (\A e \in Listed : data[e] \in {"empty", "filled"})'
  BY <1>1 DEF OwnersInv
<1>5. (\A v \in Users : /\ held[v] # NoEntry => data[held[v]] \in {"empty", "filled"}
                        /\ \A e \in kept[v] : data[e] \in {"empty", "filled"})'
  BY DEF OwnersInv
<1>6. \A s \in Threads : dying'[s] = IF s = t THEN gone ELSE dying[s]
  BY DEF MemoryTypeOK
<1>7. \A s \in Threads : dying[s] \subseteq Entries
  BY DEF MemoryTypeOK
<1>8. (\A s \in Threads : \A e \in dying[s] :
          /\ data[e] \in {"filled", "freed"} /\ e \notin Listed
          /\ HoldersOf(e) = {})'
  BY <1>1, <1>2, <1>6, <1>7 DEF OwnersInv
<1>9. (\A r \in Threads : \A e \in dying[r] : \A s \in Threads : e \in dying[s] => s = r)'
  BY <1>6 DEF OwnersInv
<1>. QED
  BY <1>3, <1>4, <1>5, <1>8, <1>9 DEF OwnersInv

(* An entry that nobody uses has its memory.                               *)
LEMMA UnusedIsFilled ==
  ASSUME MemoryInv, NEW e \in Listed, HoldersOf(e) = {}
  PROVE  data[e] = "filled" /\ \A t \in Threads : e \notin dying[t]
<1>1. e \in Entries
  BY RangeOfSeq DEF MemoryInv, MemoryTypeOK, Listed
<1>2. data[e] # "empty"
  BY <1>1 DEF MemoryInv, UsersInv, HoldersOf
<1>. QED
  BY <1>2 DEF MemoryInv, OwnersInv

(* Every step keeps the entries where they belong.                         *)
LEMMA OwnersKept ==
  ASSUME MemoryInv, MemoryNext
  PROVE  OwnersInv'
<1> USE DEF MemoryInv
<1>1. ListsStep
  BY ListsKept
<1>2. Listed \subseteq Entries
  BY RangeOfSeq DEF MemoryTypeOK, Listed
<1>3. ASSUME UNCHANGED <<data, held, kept, dying>> PROVE OwnersInv'
  BY <1>1, <1>3, SamePointers
<1>4. ASSUME NEW t \in Threads, UnusedEntries # <<>>,
             table' = Without(table, <<UnusedEntries[1]>>), deleteQueue' = deleteQueue,
             dying' = [dying EXCEPT ![t] = {UnusedEntries[1]}], UNCHANGED <<data, held, kept>>
      PROVE  OwnersInv'
  <2> DEFINE e == UnusedEntries[1]
  <2>1. e \in Listed /\ HoldersOf(e) = {}
    BY <1>4, UnusedList DEF Listed
  <2>2. Listed' = Listed \ {e}
    BY <1>4, TakeKeepsLists
  <2>3. dying' = [dying EXCEPT ![t] = {e}] /\ UNCHANGED <<data, held, kept>>
    BY <1>4
  <2> HIDE DEF e
  <2>4. data[e] = "filled" /\ \A s \in Threads : e \notin dying[s]
    BY <2>1, UnusedIsFilled
  <2>5. \A x : HoldersOf(x)' = HoldersOf(x)
    BY <2>3 DEF HoldersOf
  <2>6. \A x \in {e} : /\ data[x] = "filled" /\ x \notin Listed'
                       /\ HoldersOf(x)' = {} /\ \A s \in Threads : x \notin dying[s]
    BY <2>1, <2>2, <2>4, <2>5
  <2>7. {e} \in SUBSET Entries
    BY <1>2, <2>1
  <2>8. \A u \in Users : held'[u] \in {held[u], NoEntry} /\ kept'[u] \subseteq kept[u]
    BY <2>3
  <2>. QED
    BY <1>1, <2>3, <2>6, <2>7, <2>8, TakenToDestroy
<1>5. ASSUME NEW u \in Users, UserStep(u) PROVE OwnersInv'
  <2>1. ASSUME NEW r \in Requests, GetOrCreate(u, r) PROVE OwnersInv'
    <3>1. Matching(r) # <<>> => Matching(r)[1] \in Range(table)
      BY MatchingList
    <3>2. Range(OfKey(r.key)) \in SUBSET Range(table)
      BY KeyList
    <3>3. UNCHANGED <<data, dying>>
      BY <2>1 DEF GetOrCreate, entryVars
    <3>4. \/ kept' = kept /\ \E e \in Range(table) : held' = [held EXCEPT ![u] = e]
          \/ held' = held /\ \E K \in SUBSET Range(table) : kept' = [kept EXCEPT ![u] = K]
      BY <2>1, <3>1, <3>2 DEF GetOrCreate
    <3>. QED
      BY <1>1, <3>3, <3>4, PointersGiven
  <2>2. CASE EvictForSystem(u)
    BY <1>4, <2>2 DEF EvictForSystem, Threads, userVars, entryVars
  <2>3. CASE SystemHasMemory(u) \/ EvictInMemory(u) \/ WaitForMemory(u) \/ Look(u)
             \/ Announce(u) \/ RemoveEntry(u)
    BY <1>3, <2>3 DEF SystemHasMemory, EvictInMemory, WaitForMemory, Look, Announce,
                      RemoveEntry, Goto, userVars, entryVars
  <2>4. CASE Insert(u)
    <3> DEFINE gone == {x \in kept[u] : HoldersOf(x) = {u}
                                        /\ x \notin Range(table) \cup Range(deleteQueue)}
    <3>1. PICK e \in Entries : /\ data[e] = "absent"
                               /\ data' = [data EXCEPT ![e] = "empty"]
                               /\ table' = Append(Relocated(want[u].key), e)
                               /\ held' = [held EXCEPT ![u] = e]
      BY <2>4 DEF Insert
    <3>2. /\ kept' = [kept EXCEPT ![u] = {}] /\ deleteQueue' = deleteQueue
          /\ dying' = [dying EXCEPT ![u] = gone]
          /\ upc[u] = "insert"
      BY <2>4 DEF Insert
    <3>3. ListsOK' /\ Listed' = Listed \cup {e}
      BY <3>1, <3>2, InsertKeepsLists
    <3>4. \A x \in Entries : data'[x] = IF x = e THEN "empty" ELSE data[x]
      BY <3>1 DEF MemoryTypeOK
    <3>5. (\A x \in Listed : data[x] \in {"empty", "filled"})'
      BY <1>2, <3>3, <3>4 DEF OwnersInv
    <3>6. (\A v \in Users : /\ held[v] # NoEntry => data[held[v]] \in {"empty", "filled"}
                            /\ \A x \in kept[v] : data[x] \in {"empty", "filled"})'
      <4> TAKE v \in Users
      <4>1. held'[v] = IF v = u THEN e ELSE held[v]
        BY <3>1 DEF MemoryTypeOK
      <4>2. held[v] \in Entries \cup {NoEntry} /\ kept[v] \subseteq Entries
        BY DEF MemoryTypeOK
      <4>3. kept'[v] \subseteq kept[v]
        BY <3>2 DEF MemoryTypeOK
      <4>. QED
        BY <3>4, <4>1, <4>2, <4>3 DEF OwnersInv
    <3>7. \A x \in Entries : x # e => HoldersOf(x)' = HoldersOf(x) \ {u}
      <4>1. ASSUME NEW x \in Entries, x # e, NEW v \in Users
            PROVE  (held'[v] = x \/ x \in kept'[v])
                      <=> ((held[v] = x \/ x \in kept[v]) /\ v # u)
        <5>1. held[u] = NoEntry
          BY <3>2 DEF UsersInv, HoldLabels
        <5>2. CASE v = u
          BY <3>1, <3>2, <4>1, <5>2 DEF MemoryTypeOK
        <5>3. CASE v # u
          BY <3>1, <3>2, <4>1, <5>3 DEF MemoryTypeOK
        <5>. QED
          BY <5>2, <5>3
      <4>. QED
        BY <4>1 DEF HoldersOf
    <3>8. ASSUME NEW x \in gone
          PROVE  /\ x \in Entries /\ x # e /\ data[x] = "filled" /\ x \notin Listed
                 /\ HoldersOf(x) = {u} /\ \A s \in Threads : x \notin dying[s]
      <4>1. x \in kept[u] /\ HoldersOf(x) = {u} /\ x \notin Listed
        BY DEF Listed
      <4>2. x \in Entries /\ data[x] \in {"empty", "filled"}
        BY <4>1 DEF OwnersInv, MemoryTypeOK
      <4>3. data[x] # "empty"
        <5>1. ASSUME data[x] = "empty" PROVE FALSE
          <6>1. PICK v \in Users : held[v] = x /\ upc[v] \in {"look", "allocate"}
            BY <4>2, <5>1 DEF UsersInv
          <6>2. v = u
            BY <4>1, <6>1 DEF HoldersOf
          <6>. QED
            BY <3>2, <6>1, <6>2
        <5>. QED
          BY <5>1
      <4>. QED
        BY <3>1, <4>1, <4>2, <4>3 DEF OwnersInv
    <3>9. \A s \in Threads : dying'[s] = IF s = u THEN gone ELSE dying[s]
      BY <3>2 DEF MemoryTypeOK, Threads
    <3> HIDE DEF gone
    <3>10. ASSUME NEW t \in Threads, NEW x \in dying'[t]
           PROVE  /\ data'[x] \in {"filled", "freed"} /\ x \notin Listed'
                  /\ HoldersOf(x)' = {}
      <4>1. CASE t = u
        <5>1. x \in gone
          BY <3>9, <4>1
        <5>. QED
          BY <3>3, <3>4, <3>7, <3>8, <5>1
      <4>2. CASE t # u
        <5>1. x \in dying[t] /\ x \in Entries
          BY <3>9, <4>2 DEF MemoryTypeOK
        <5>2. data[x] \in {"filled", "freed"} /\ x \notin Listed /\ HoldersOf(x) = {}
          BY <5>1 DEF OwnersInv
        <5>. QED
          BY <3>1, <3>3, <3>4, <3>7, <5>1, <5>2
      <4>. QED
        BY <4>1, <4>2
    <3>11. ASSUME NEW t \in Threads, NEW s \in Threads, NEW x \in dying'[t], x \in dying'[s]
           PROVE  s = t
      BY <3>8, <3>9, <3>11 DEF OwnersInv
    <3>12. (Range(table) \cap Range(deleteQueue) = {})'
      BY <3>3 DEF ListsOK
    <3>. QED
      BY <3>5, <3>6, <3>10, <3>11, <3>12 DEF OwnersInv
  <2>5. CASE Allocate(u)
    <3> DEFINE h == held[u]
    <3>1. h \in Entries
      BY <2>5 DEF Allocate, UsersInv, HoldLabels, MemoryTypeOK
    <3>2. data' = [data EXCEPT ![h] = "filled"] /\ UNCHANGED <<held, kept, dying>>
      BY <2>5 DEF Allocate, Goto
    <3>3. Listed' = Listed
      BY <2>5 DEF Allocate, Listed
    <3>4. u \in HoldersOf(h)
      BY DEF HoldersOf
    <3> HIDE DEF h
    <3>5. \A x \in Entries : data'[x] = IF x = h THEN "filled" ELSE data[x]
      BY <3>2 DEF MemoryTypeOK
    <3>6. \A x : HoldersOf(x)' = HoldersOf(x)
      BY <3>2 DEF HoldersOf
    <3>7. (Range(table) \cap Range(deleteQueue) = {})'
      BY <1>1 DEF ListsStep, ListsOK
    <3>8. (\A x \in Listed : data[x] \in {"empty", "filled"})'
      BY <1>2, <3>3, <3>5 DEF OwnersInv
    <3>9. (\A v \in Users : /\ held[v] # NoEntry => data[held[v]] \in {"empty", "filled"}
                            /\ \A x \in kept[v] : data[x] \in {"empty", "filled"})'
      <4> TAKE v \in Users
      <4>1. held[v] \in Entries \cup {NoEntry} /\ kept[v] \subseteq Entries
        BY DEF MemoryTypeOK
      <4>. QED
        BY <3>2, <3>5, <4>1 DEF OwnersInv
    <3>10. (\A t \in Threads : \A x \in dying[t] :
               /\ data[x] \in {"filled", "freed"} /\ x \notin Listed
               /\ HoldersOf(x) = {}
               /\ \A s \in Threads : x \in dying[s] => s = t)'
      <4> TAKE t \in Threads
      <4> TAKE x \in dying'[t]
      <4>1. x \in dying[t] /\ x \in Entries
        BY <3>2 DEF MemoryTypeOK
      <4>2. /\ data[x] \in {"filled", "freed"} /\ x \notin Listed
            /\ HoldersOf(x) = {}
            /\ \A s \in Threads : x \in dying[s] => s = t
        BY <4>1 DEF OwnersInv
      <4>. QED
        BY <3>2, <3>3, <3>5, <3>6, <4>1, <4>2
    <3>. QED
      BY <3>7, <3>8, <3>9, <3>10 DEF OwnersInv
  <2>6. CASE Release(u)
    <3> DEFINE h == held[u]
               gone == IF h \in Range(table) \cup Range(deleteQueue) \/ HoldersOf(h) # {u}
                       THEN {} ELSE {h}
    <3>1. /\ h \in Entries /\ data[h] = "filled" /\ kept[u] = {}
      <4>1. upc[u] \in {"hold", "removed"}
        BY <2>6 DEF Release
      <4>2. upc[u] \in HoldLabels /\ upc[u] \notin CreateLabels
        BY <4>1 DEF HoldLabels, CreateLabels
      <4>3. held[u] # NoEntry /\ kept[u] = {} /\ data[held[u]] = "filled"
        BY <4>1, <4>2 DEF UsersInv
      <4>. QED
        BY <4>3 DEF MemoryTypeOK
    <3>2. /\ dying' = [dying EXCEPT ![u] = gone] /\ held' = [held EXCEPT ![u] = NoEntry]
          /\ UNCHANGED <<table, deleteQueue, data, kept>>
      BY <2>6 DEF Release, entryVars
    <3>3. gone \in SUBSET Entries
      BY <3>1
    <3>4. Listed' = Listed
      BY <3>2 DEF Listed
    <3>5. ASSUME NEW e \in gone
          PROVE  /\ data[e] = "filled" /\ e \notin Listed'
                 /\ HoldersOf(e)' = {}
                 /\ \A s \in Threads : e \notin dying[s]
      <4>1. e = h /\ HoldersOf(e) = {u} /\ e \notin Listed
        BY DEF Listed
      <4> HIDE DEF h
      <4>2. HoldersOf(e)' = {}
        <5>1. ASSUME NEW v \in Users, held'[v] = e \/ e \in kept'[v] PROVE FALSE
          <6>1. CASE v = u
            BY <3>1, <3>2, <4>1, <5>1, <6>1 DEF MemoryTypeOK
          <6>2. CASE v # u
            <7>1. held[v] = e \/ e \in kept[v]
              BY <3>2, <5>1, <6>2 DEF MemoryTypeOK
            <7>. QED
              BY <4>1, <6>2, <7>1 DEF HoldersOf
          <6>. QED
            BY <6>1, <6>2
        <5>. QED
          BY <5>1 DEF HoldersOf
      <4>. QED
        BY <3>1, <3>4, <4>1, <4>2 DEF OwnersInv
    <3>6. \A v \in Users : held'[v] \in {held[v], NoEntry} /\ kept'[v] \subseteq kept[v]
      BY <3>2 DEF MemoryTypeOK
    <3> HIDE DEF gone, h
    <3>. QED
      BY <1>1, <3>2, <3>3, <3>5, <3>6, TakenToDestroy DEF Threads
  <2>. QED
    BY <1>5, <2>1, <2>2, <2>3, <2>4, <2>5, <2>6 DEF UserStep
<1>6. ASSUME NEW k, RemoveHash(k) PROVE OwnersInv'
  BY <1>3, <1>6 DEF RemoveHash, userVars, entryVars
<1>7. ASSUME NEW keys, RemoveForPlugin(keys) PROVE OwnersInv'
  <2>1. UNCHANGED <<data, held, kept, dying>>
    BY <1>7 DEF RemoveForPlugin, userVars, entryVars
  <2>. QED
    BY <1>3, <2>1
<1>8. CASE DeleterPop
  <2> DEFINE e == Head(deleteQueue)
             gone == IF Unused(e) THEN {e} ELSE {}
  <2>1. /\ table' = table /\ deleteQueue' = Tail(deleteQueue) /\ deleteQueue # <<>>
        /\ dying' = [dying EXCEPT ![Deleter] = gone] /\ UNCHANGED <<data, held, kept>>
    BY <1>8 DEF DeleterPop, userVars, entryVars
  <2>2. e \in Listed /\ Listed' = Listed \ {e}
    BY <2>1, PopKeepsLists DEF Listed
  <2> HIDE DEF e
  <2>3. \A x \in gone : /\ data[x] = "filled" /\ x \notin Listed'
                        /\ HoldersOf(x)' = {} /\ \A s \in Threads : x \notin dying[s]
    <3>1. \A x \in gone : x = e /\ HoldersOf(x) = {}
      BY DEF Unused
    <3>2. \A x : HoldersOf(x)' = HoldersOf(x)
      BY <2>1 DEF HoldersOf
    <3>. QED
      BY <2>2, <3>1, <3>2, UnusedIsFilled
  <2>4. gone \in SUBSET Entries
    BY <1>2, <2>2
  <2> HIDE DEF gone
  <2>. QED
    BY <1>1, <2>1, <2>3, <2>4, TakenToDestroy DEF Threads
<1>9. CASE ClearOne
  BY <1>4, <1>9 DEF ClearOne, Threads, userVars, entryVars
<1>10. CASE DeleterWake \/ ClearLock \/ ClearEnd
  BY <1>3, <1>10 DEF DeleterWake, ClearLock, ClearEnd, userVars, entryVars
<1>11. ASSUME NEW t \in Threads, Destroy(t) PROVE OwnersInv'
  <2>1. PICK e \in Entries : Deallocate(t, e) \/ NotifyDestroyed(t, e)
    BY <1>11 DEF Destroy
  <2> DEFINE to == IF data[e] = "filled" THEN "freed" ELSE "absent"
  <2>2. /\ e \in dying[t] /\ data' = [data EXCEPT ![e] = to]
        /\ UNCHANGED <<table, deleteQueue, held, kept>>
    BY <2>1 DEF Deallocate, NotifyDestroyed, userVars, entryVars
  <2>3. /\ \/ dying' = dying /\ to = "freed"
           \/ dying' = [dying EXCEPT ![t] = @ \ {e}]
    BY <2>1 DEF Deallocate, NotifyDestroyed
  <2> HIDE DEF to
  <2>4. Listed' = Listed
    BY <2>2 DEF Listed
  <2>5. e \notin Listed /\ HoldersOf(e) = {}
    BY <2>2 DEF OwnersInv
  <2>6. \A x : HoldersOf(x)' = HoldersOf(x)
    BY <2>2 DEF HoldersOf
  <2>7. \A x \in Entries : data'[x] = IF x = e THEN to ELSE data[x]
    BY <2>2 DEF MemoryTypeOK
  <2>8. (\A x \in Listed : data[x] \in {"empty", "filled"})'
    BY <1>2, <2>4, <2>5, <2>7 DEF OwnersInv
  <2>9. (\A v \in Users : /\ held[v] # NoEntry => data[held[v]] \in {"empty", "filled"}
                          /\ \A x \in kept[v] : data[x] \in {"empty", "filled"})'
    <3> TAKE v \in Users
    <3>1. held[v] \in Entries \cup {NoEntry} /\ kept[v] \subseteq Entries
      BY DEF MemoryTypeOK
    <3>2. held[v] # e /\ e \notin kept[v]
      BY <2>5 DEF HoldersOf
    <3>. QED
      BY <2>2, <2>7, <3>1, <3>2 DEF OwnersInv
  <2>10. \A s \in Threads : /\ dying'[s] \subseteq dying[s]
                            /\ e \in dying'[s] => to = "freed"
    <3>1. \A s \in Threads : e \in dying[s] => s = t
      BY <2>2 DEF OwnersInv
    <3>2. CASE dying' = dying /\ to = "freed"
      BY <3>2
    <3>3. CASE dying' = [dying EXCEPT ![t] = @ \ {e}]
      <4>1. \A s \in Threads : dying'[s] = IF s = t THEN dying[s] \ {e} ELSE dying[s]
        BY <3>3 DEF MemoryTypeOK
      <4>. QED
        BY <3>1, <4>1
    <3>. QED
      BY <2>3, <3>2, <3>3
  <2>11. (\A s \in Threads : \A x \in dying[s] :
             /\ data[x] \in {"filled", "freed"} /\ x \notin Listed
             /\ HoldersOf(x) = {}
             /\ \A r \in Threads : x \in dying[r] => r = s)'
    <3> TAKE s \in Threads
    <3> TAKE x \in dying'[s]
    <3>1. x \in dying[s] /\ x \in Entries
      BY <2>10 DEF MemoryTypeOK
    <3>2. /\ data[x] \in {"filled", "freed"} /\ x \notin Listed
          /\ HoldersOf(x) = {}
          /\ \A r \in Threads : x \in dying[r] => r = s
      BY <3>1 DEF OwnersInv
    <3>. QED
      BY <2>4, <2>6, <2>7, <2>10, <3>1, <3>2
  <2>12. (Range(table) \cap Range(deleteQueue) = {})'
    BY <1>1 DEF ListsStep, ListsOK
  <2>. QED
    BY <2>8, <2>9, <2>11, <2>12 DEF OwnersInv
<1>. QED
  BY <1>5, <1>6, <1>7, <1>8, <1>9, <1>10, <1>11 DEF MemoryNext

-----------------------------------------------------------------------------
(* Where the users are                                                     *)

(* The part of UsersInv about one user.                                    *)
UserOK(u) ==
    /\ held[u] # NoEntry <=> upc[u] \in HoldLabels
    /\ kept[u] # {} => upc[u] \in CreateLabels
    /\ upc[u] \in {"announce", "hold", "removed"} => data[held[u]] = "filled"

(* Every step keeps users in possession of what their place requires.      *)
LEMMA UsersKept ==
  ASSUME MemoryInv, MemoryNext
  PROVE  UsersInv'
<1> USE DEF MemoryInv
<1>1. \A u \in Users : UserOK(u)
  BY DEF UsersInv, UserOK
<1>2. ASSUME NEW v \in Users, UNCHANGED <<held[v], kept[v], upc[v]>>,
             \A e \in Entries : data[e] = "filled" /\ v \in HoldersOf(e) => data'[e] = "filled"
      PROVE  UserOK(v)'
  <2>1. held[v] # NoEntry => held[v] \in Entries /\ v \in HoldersOf(held[v])
    BY DEF HoldersOf, MemoryTypeOK
  <2>. QED
    BY <1>1, <1>2, <2>1 DEF UserOK, HoldLabels
<1>3. ASSUME UNCHANGED <<data, held, kept, upc>> PROVE UsersInv'
  BY <1>3 DEF UsersInv
<1>4. ASSUME NEW u \in Users, UserStep(u) PROVE UsersInv'
  <2>1. \A v \in Users : v # u => UNCHANGED <<held[v], kept[v], upc[v]>>
    <3>1. \E h, k, l : /\ held' = [held EXCEPT ![u] = h] /\ kept' = [kept EXCEPT ![u] = k]
                       /\ upc' = [upc EXCEPT ![u] = l]
      <4>1. /\ held = [held EXCEPT ![u] = held[u]] /\ kept = [kept EXCEPT ![u] = kept[u]]
            /\ upc = [upc EXCEPT ![u] = upc[u]]
        BY DEF MemoryTypeOK
      <4>2. ASSUME NEW r \in Requests, GetOrCreate(u, r)
            PROVE  \/ kept' = kept /\ held' = [held EXCEPT ![u] = Matching(r)[1]]
                      /\ upc' = [upc EXCEPT ![u] = "look"]
                   \/ held' = held /\ kept' = [kept EXCEPT ![u] = Range(OfKey(r.key))]
                      /\ upc' = [upc EXCEPT ![u] = "check"]
        BY <4>2 DEF GetOrCreate
      <4>3. CASE EvictForSystem(u)
        BY <4>1, <4>3 DEF EvictForSystem, userVars
      <4>4. CASE SystemHasMemory(u)
        BY <4>1, <4>4 DEF SystemHasMemory
      <4>5. CASE EvictInMemory(u)
        BY <4>1, <4>5 DEF EvictInMemory
      <4>6. CASE WaitForMemory(u)
        BY <4>1, <4>6 DEF WaitForMemory
      <4>7. CASE Insert(u)
        BY <4>1, <4>7 DEF Insert
      <4>8. CASE Look(u)
        BY <4>1, <4>8 DEF Look, Goto
      <4>9. CASE Allocate(u) \/ Announce(u) \/ RemoveEntry(u)
        BY <4>1, <4>9 DEF Allocate, Announce, RemoveEntry, Goto
      <4>10. CASE Release(u)
        BY <4>1, <4>10 DEF Release
      <4>11. CASE \E r \in Requests : GetOrCreate(u, r)
        BY <4>1, <4>2, <4>11
      <4>. QED
        BY <1>4, <4>3, <4>4, <4>5, <4>6, <4>7, <4>8, <4>9, <4>10, <4>11 DEF UserStep
    <3>. QED
      BY <3>1 DEF MemoryTypeOK
  <2>2. ASSUME UNCHANGED data, UserOK(u)',
               \A e \in Entries : data[e] = "empty" /\ held[u] = e /\ upc[u] \in {"look", "allocate"}
                                    => held'[u] = e /\ upc'[u] \in {"look", "allocate"}
        PROVE  UsersInv'
    <3>1. \A v \in Users : UserOK(v)'
      BY <1>2, <2>1, <2>2
    <3>2. ASSUME NEW e \in Entries, data'[e] = "empty"
          PROVE  \E v \in Users : held'[v] = e /\ upc'[v] \in {"look", "allocate"}
      <4>1. PICK v \in Users : held[v] = e /\ upc[v] \in {"look", "allocate"}
        BY <2>2, <3>2 DEF UsersInv
      <4>2. held'[v] = e /\ upc'[v] \in {"look", "allocate"}
        BY <2>1, <2>2, <3>2, <4>1
      <4>. QED
        BY <4>2
    <3>. QED
      BY <3>1, <3>2 DEF UsersInv, UserOK
  <2>3. ASSUME NEW r \in Requests, GetOrCreate(u, r) PROVE UsersInv'
    <3>1. UNCHANGED data /\ upc[u] = "idle"
      BY <2>3 DEF GetOrCreate, entryVars
    <3>2. held[u] = NoEntry /\ kept[u] = {}
      BY <1>1, <3>1 DEF UserOK, HoldLabels, CreateLabels
    <3>3. UserOK(u)'
      <4>1. CASE Matching(r) # <<>> /\ held' = [held EXCEPT ![u] = Matching(r)[1]]
                 /\ upc' = [upc EXCEPT ![u] = "look"] /\ kept' = kept
        <5>1. Matching(r)[1] \in Entries
          BY <4>1, MatchingList, RangeOfSeq DEF MemoryTypeOK
        <5>2. held'[u] # NoEntry /\ kept'[u] = {} /\ upc'[u] = "look"
          BY <3>2, <4>1, <5>1 DEF MemoryTypeOK
        <5>. QED
          BY <5>2 DEF UserOK, HoldLabels
      <4>2. CASE held' = held /\ kept' = [kept EXCEPT ![u] = Range(OfKey(r.key))]
                 /\ upc' = [upc EXCEPT ![u] = "check"]
        <5>1. held'[u] = NoEntry /\ upc'[u] = "check"
          BY <3>2, <4>2 DEF MemoryTypeOK
        <5>. QED
          BY <5>1 DEF UserOK, HoldLabels, CreateLabels
      <4>. QED
        BY <2>3, <4>1, <4>2 DEF GetOrCreate
    <3>. QED
      BY <2>2, <3>1, <3>3
  <2>4. CASE EvictForSystem(u)
    BY <1>3, <2>4 DEF EvictForSystem, entryVars, userVars
  <2>5. CASE SystemHasMemory(u) \/ EvictInMemory(u) \/ WaitForMemory(u)
    <3>1. /\ UNCHANGED <<data, held, kept>>
          /\ upc[u] \in {"check", "evict", "wait"}
          /\ \E l \in {"evict", "wait", "asleep", "insert"} : upc' = [upc EXCEPT ![u] = l]
      BY <2>5 DEF SystemHasMemory, EvictInMemory, WaitForMemory, entryVars
    <3>2. upc'[u] \in {"evict", "wait", "asleep", "insert"}
      BY <3>1 DEF MemoryTypeOK
    <3>3. held[u] = NoEntry
      BY <1>1, <3>1 DEF UserOK, HoldLabels
    <3>4. UserOK(u)'
      BY <3>1, <3>2, <3>3 DEF UserOK, HoldLabels, CreateLabels
    <3>. QED
      BY <2>2, <3>1, <3>4
  <2>6. CASE Insert(u)
    <3>1. PICK e \in Entries : /\ data[e] = "absent"
                               /\ data' = [data EXCEPT ![e] = "empty"]
                               /\ held' = [held EXCEPT ![u] = e]
      BY <2>6 DEF Insert
    <3>2. /\ kept' = [kept EXCEPT ![u] = {}] /\ upc' = [upc EXCEPT ![u] = "look"]
          /\ upc[u] = "insert"
      BY <2>6 DEF Insert
    <3>3. held'[u] = e /\ kept'[u] = {} /\ upc'[u] = "look"
      BY <3>1, <3>2 DEF MemoryTypeOK
    <3>4. \A x \in Entries : data'[x] = IF x = e THEN "empty" ELSE data[x]
      BY <3>1 DEF MemoryTypeOK
    <3>5. UserOK(u)'
      BY <3>1, <3>3 DEF UserOK, HoldLabels
    <3>6. \A v \in Users : v # u => UserOK(v)'
      BY <1>2, <2>1, <3>1, <3>4
    <3>7. ASSUME NEW x \in Entries, data'[x] = "empty"
          PROVE  \E v \in Users : held'[v] = x /\ upc'[v] \in {"look", "allocate"}
      <4>1. CASE x = e
        BY <3>3, <4>1
      <4>2. CASE x # e
        <5>1. PICK v \in Users : held[v] = x /\ upc[v] \in {"look", "allocate"}
          BY <3>4, <3>7, <4>2 DEF UsersInv
        <5>. QED
          BY <2>1, <3>2, <5>1
      <4>. QED
        BY <4>1, <4>2
    <3>. QED
      BY <3>5, <3>6, <3>7 DEF UsersInv, UserOK
  <2>7. CASE Look(u)
    <3>1. \/ data[held[u]] = "filled" /\ upc' = [upc EXCEPT ![u] = "hold"]
          \/ data[held[u]] = "empty" /\ upc' = [upc EXCEPT ![u] = "allocate"]
      BY <2>7 DEF Look, Goto
    <3>2. UNCHANGED <<data, held, kept>> /\ upc[u] = "look"
      BY <2>7 DEF Look, Goto, entryVars
    <3>3. held[u] # NoEntry /\ kept[u] = {}
      BY <1>1, <3>2 DEF UserOK, HoldLabels, CreateLabels
    <3>4. CASE data[held[u]] = "filled" /\ upc' = [upc EXCEPT ![u] = "hold"]
      <4>1. upc'[u] = "hold"
        BY <3>4 DEF MemoryTypeOK
      <4>2. UserOK(u)'
        BY <3>2, <3>3, <3>4, <4>1 DEF UserOK, HoldLabels
      <4>. QED
        BY <2>2, <3>2, <3>4, <4>2
    <3>5. CASE data[held[u]] = "empty" /\ upc' = [upc EXCEPT ![u] = "allocate"]
      <4>1. upc'[u] = "allocate"
        BY <3>5 DEF MemoryTypeOK
      <4>2. UserOK(u)'
        BY <3>2, <3>3, <3>5, <4>1 DEF UserOK, HoldLabels
      <4>. QED
        BY <2>2, <3>2, <4>1, <4>2
    <3>. QED
      BY <3>1, <3>4, <3>5
  <2>8. CASE Allocate(u)
    <3> DEFINE h == held[u]
    <3>1. upc[u] = "allocate" /\ held[u] # NoEntry /\ kept[u] = {}
      BY <1>1, <2>8 DEF Allocate, UserOK, HoldLabels, CreateLabels
    <3>2. h \in Entries
      BY <3>1 DEF MemoryTypeOK
    <3>3. /\ data' = [data EXCEPT ![h] = "filled"] /\ UNCHANGED <<held, kept>>
          /\ upc' = [upc EXCEPT ![u] = "announce"]
      BY <2>8 DEF Allocate, Goto
    <3>4. upc'[u] = "announce" /\ data'[h] = "filled"
      BY <3>2, <3>3 DEF MemoryTypeOK
    <3>5. UserOK(u)'
      BY <3>1, <3>3, <3>4 DEF UserOK, HoldLabels
    <3> HIDE DEF h
    <3>6. \A x \in Entries : data'[x] = IF x = h THEN "filled" ELSE data[x]
      BY <3>3 DEF MemoryTypeOK
    <3>7. \A v \in Users : v # u => UserOK(v)'
      BY <1>2, <2>1, <3>6
    <3>8. ASSUME NEW x \in Entries, data'[x] = "empty"
          PROVE  \E v \in Users : held'[v] = x /\ upc'[v] \in {"look", "allocate"}
      <4>1. PICK v \in Users : held[v] = x /\ upc[v] \in {"look", "allocate"}
        BY <3>6, <3>8 DEF UsersInv
      <4>2. v # u
        BY <3>6, <3>8, <4>1 DEF h
      <4>. QED
        BY <2>1, <4>1, <4>2
    <3>. QED
      BY <3>5, <3>7, <3>8 DEF UsersInv, UserOK
  <2>9. CASE Announce(u) \/ RemoveEntry(u)
    <3>1. /\ UNCHANGED <<data, held, kept>> /\ upc[u] \in {"announce", "hold"}
          /\ \E l \in {"hold", "removed"} : upc' = [upc EXCEPT ![u] = l]
      BY <2>9 DEF Announce, RemoveEntry, Goto, entryVars
    <3>2. upc'[u] \in {"hold", "removed"}
      BY <3>1 DEF MemoryTypeOK
    <3>3. held[u] # NoEntry /\ kept[u] = {} /\ data[held[u]] = "filled"
      BY <1>1, <3>1 DEF UserOK, HoldLabels, CreateLabels
    <3>4. UserOK(u)'
      BY <3>1, <3>2, <3>3 DEF UserOK, HoldLabels
    <3>. QED
      BY <2>2, <3>1, <3>4
  <2>10. CASE Release(u)
    <3>1. /\ UNCHANGED <<data, kept>> /\ upc[u] \in {"hold", "removed"}
          /\ held' = [held EXCEPT ![u] = NoEntry] /\ upc' = [upc EXCEPT ![u] = "idle"]
      BY <2>10 DEF Release, entryVars
    <3>2. kept[u] = {}
      BY <1>1, <3>1 DEF UserOK, CreateLabels
    <3>3. held'[u] = NoEntry /\ upc'[u] = "idle"
      BY <3>1 DEF MemoryTypeOK
    <3>4. UserOK(u)'
      BY <3>1, <3>2, <3>3 DEF UserOK, HoldLabels
    <3>. QED
      BY <2>2, <3>1, <3>4
  <2>. QED
    BY <1>4, <2>3, <2>4, <2>5, <2>6, <2>7, <2>8, <2>9, <2>10 DEF UserStep
<1>5. ASSUME NEW k, RemoveHash(k) PROVE UsersInv'
  BY <1>3, <1>5 DEF RemoveHash, userVars, entryVars
<1>6. ASSUME NEW keys, RemoveForPlugin(keys) PROVE UsersInv'
  <2>1. UNCHANGED <<data, held, kept, upc>>
    BY <1>6 DEF RemoveForPlugin, userVars, entryVars
  <2>. QED
    BY <1>3, <2>1
<1>7. CASE DeleterPop \/ ClearOne \/ ClearLock \/ ClearEnd
  BY <1>3, <1>7 DEF DeleterPop, ClearOne, ClearLock, ClearEnd, userVars, entryVars
<1>8. CASE DeleterWake
  <2>1. /\ UNCHANGED <<data, held, kept>>
        /\ \A u \in Users : upc'[u] = IF upc[u] = "asleep" THEN "wait" ELSE upc[u]
    BY <1>8 DEF DeleterWake, entryVars
  <2>2. \A u \in Users : UserOK(u)'
    BY <1>1, <2>1 DEF UserOK, HoldLabels, CreateLabels
  <2>3. ASSUME NEW x \in Entries, data'[x] = "empty"
        PROVE  \E v \in Users : held'[v] = x /\ upc'[v] \in {"look", "allocate"}
    BY <2>1, <2>3 DEF UsersInv
  <2>. QED
    BY <2>2, <2>3 DEF UsersInv, UserOK
<1>9. ASSUME NEW t \in Threads, Destroy(t) PROVE UsersInv'
  <2>1. PICK e \in Entries : Deallocate(t, e) \/ NotifyDestroyed(t, e)
    BY <1>9 DEF Destroy
  <2>2. /\ e \in dying[t] /\ UNCHANGED <<held, kept, upc>>
        /\ \E to \in {"freed", "absent"} : data' = [data EXCEPT ![e] = to]
    BY <2>1 DEF Deallocate, NotifyDestroyed, userVars
  <2>3. HoldersOf(e) = {}
    BY <2>2 DEF OwnersInv
  <2>4. \A x \in Entries : /\ x # e => data'[x] = data[x]
                           /\ data'[e] # "empty"
    BY <2>2 DEF MemoryTypeOK
  <2>5. \A v \in Users : UserOK(v)'
    BY <1>2, <2>2, <2>3, <2>4
  <2>6. ASSUME NEW x \in Entries, data'[x] = "empty"
        PROVE  \E v \in Users : held'[v] = x /\ upc'[v] \in {"look", "allocate"}
    BY <2>2, <2>4, <2>6 DEF UsersInv
  <2>. QED
    BY <2>5, <2>6 DEF UsersInv, UserOK
<1>. QED
  BY <1>4, <1>5, <1>6, <1>7, <1>8, <1>9 DEF MemoryNext

-----------------------------------------------------------------------------
(* One creator at a time                                                   *)

(* A step that starts no creation and puts nothing in the table.           *)
LEMMA NoCreation ==
  ASSUME CreatorInv, Range(table') \subseteq Range(table),
         \A e \in Range(table) : request'[e] = request[e],
         \A u \in Users : upc'[u] \in CreateLabels => upc[u] \in CreateLabels /\ want'[u] = want[u]
  PROVE  CreatorInv'
<1>1. CreateLabels' = CreateLabels
  BY DEF CreateLabels
<1>. QED
  BY <1>1 DEF CreatorInv

(* Every step keeps entries apart.                                         *)
LEMMA CreatorKept ==
  ASSUME MemoryInv, MemoryNext
  PROVE  CreatorInv'
<1> USE DEF MemoryInv
<1>1. ListsStep
  BY ListsKept
<1>2. Range(table) \subseteq Entries /\ \A e \in Range(table) : data[e] # "absent"
  BY RangeOfSeq DEF MemoryTypeOK, OwnersInv, Listed
<1>3. ASSUME data' = data, request' = request,
             \A u \in Users : upc'[u] \in CreateLabels => upc[u] \in CreateLabels /\ want'[u] = want[u]
      PROVE  CreatorInv'
  <2>1. Range(table') \subseteq Range(table)
    <3>1. ASSUME NEW e \in Range(table'), e \notin Range(table) PROVE FALSE
      <4>1. e \in Listed'
        BY <3>1 DEF Listed
      <4>2. data[e] = "absent"
        BY <1>1, <3>1 DEF ListsStep
      <4>3. e \in Listed
        BY <1>1, <1>3, <4>1, <4>2 DEF ListsStep
      <4>. QED
        BY <4>2, <4>3 DEF OwnersInv
    <3>. QED
      BY <3>1
  <2>. QED
    BY <1>3, <2>1, NoCreation
<1>4. ASSUME NEW u \in Users, UserStep(u) PROVE CreatorInv'
  <2>1. ASSUME data' = data, request' = request, want' = want, NEW l,
               upc' = [upc EXCEPT ![u] = l], l \in CreateLabels => upc[u] \in CreateLabels
        PROVE  CreatorInv'
    <3>1. \A v \in Users : upc'[v] = IF v = u THEN l ELSE upc[v]
      BY <2>1 DEF MemoryTypeOK
    <3>. QED
      BY <1>3, <2>1, <3>1
  <2>2. ASSUME NEW r \in Requests, GetOrCreate(u, r) PROVE CreatorInv'
    <3>1. CASE want' = want /\ upc' = [upc EXCEPT ![u] = "look"]
      <4>1. data' = data /\ request' = request
        BY <2>2 DEF GetOrCreate, entryVars
      <4>2. "look" \notin CreateLabels
        BY DEF CreateLabels
      <4>. QED
        BY <2>1, <3>1, <4>1, <4>2
    <3>2. CASE Matching(r) = <<>> /\ want' = [want EXCEPT ![u] = r] /\ upc' = [upc EXCEPT ![u] = "check"]
      <4>1. /\ request' = request /\ Range(table') = Range(table)
        <5>1. request' = request /\ table' = Relocated(r.key) /\ deleteQueue' = deleteQueue
          BY <2>2 DEF GetOrCreate, entryVars
        <5>. QED
          BY <5>1, RelocateKeepsLists
      <4>2. \A e \in Range(table) : request[e] # r
        BY <3>2, MatchingList
      <4>3. \A v \in Users : upc[v] \notin CreateLabels
        BY <2>2 DEF GetOrCreate, GetLocked
      <4>4. \A v \in Users : v # u => upc'[v] \notin CreateLabels
        BY <3>2, <4>3 DEF MemoryTypeOK
      <4>5. want'[u] = r
        BY <3>2 DEF MemoryTypeOK
      <4>6. CreateLabels' = CreateLabels
        BY DEF CreateLabels
      <4>7. (\A v, w \in Users : upc[v] \in CreateLabels /\ upc[w] \in CreateLabels => v = w)'
        BY <4>4, <4>6
      <4>8. (\A v \in Users : upc[v] \in CreateLabels => \A e \in Range(table) : request[e] # want[v])'
        BY <4>1, <4>2, <4>4, <4>5, <4>6
      <4>9. (\A d, e \in Range(table) : request[d] = request[e] => d = e)'
        BY <4>1 DEF CreatorInv
      <4>. QED
        BY <4>7, <4>8, <4>9 DEF CreatorInv
    <3>. QED
      BY <2>2, <3>1, <3>2 DEF GetOrCreate
  <2>3. CASE EvictForSystem(u)
    <3>1. data' = data /\ request' = request /\ upc' = upc /\ want' = want
      BY <2>3 DEF EvictForSystem, entryVars, userVars
    <3>. QED
      BY <1>3, <3>1
  <2>4. CASE SystemHasMemory(u) \/ EvictInMemory(u) \/ WaitForMemory(u)
    <3>1. /\ data' = data /\ request' = request /\ want' = want
          /\ upc[u] \in {"check", "evict", "wait"}
          /\ \E l : upc' = [upc EXCEPT ![u] = l]
      BY <2>4 DEF SystemHasMemory, EvictInMemory, WaitForMemory, entryVars
    <3>2. upc[u] \in CreateLabels
      BY <3>1 DEF CreateLabels
    <3>. QED
      BY <2>1, <3>1, <3>2
  <2>5. CASE Insert(u)
    <3>1. PICK e \in Entries : /\ data[e] = "absent"
                               /\ request' = [request EXCEPT ![e] = want[u]]
                               /\ table' = Append(Relocated(want[u].key), e)
      BY <2>5 DEF Insert
    <3>2. /\ deleteQueue' = deleteQueue /\ upc' = [upc EXCEPT ![u] = "look"]
          /\ upc[u] = "insert"
      BY <2>5 DEF Insert
    <3>3. Range(table') = Range(table) \cup {e}
      BY <3>1, <3>2, InsertKeepsLists
    <3>4. \A d \in Range(table) : request'[d] = request[d]
      BY <1>2, <3>1 DEF MemoryTypeOK
    <3>5. request'[e] = want[u]
      BY <3>1 DEF MemoryTypeOK
    <3>6. \A d \in Range(table) : request[d] # want[u]
      BY <3>2 DEF CreatorInv, CreateLabels
    <3>7. \A v \in Users : upc'[v] \notin CreateLabels
      <4>1. upc[u] \in CreateLabels /\ "look" \notin CreateLabels
        BY <3>2 DEF CreateLabels
      <4>2. \A v \in Users : upc'[v] = IF v = u THEN "look" ELSE upc[v]
        BY <3>2 DEF MemoryTypeOK
      <4>. QED
        BY <4>1, <4>2 DEF CreatorInv
    <3>8. CreateLabels' = CreateLabels
      BY DEF CreateLabels
    <3>9. (\A d, f \in Range(table) : request[d] = request[f] => d = f)'
      BY <3>3, <3>4, <3>5, <3>6 DEF CreatorInv
    <3>. QED
      BY <3>7, <3>8, <3>9 DEF CreatorInv
  <2>6. CASE Look(u) \/ Allocate(u) \/ Announce(u) \/ RemoveEntry(u) \/ Release(u)
    <3>1. /\ request' = request /\ want' = want
          /\ \E l \in {"hold", "allocate", "announce", "removed", "idle"} : upc' = [upc EXCEPT ![u] = l]
      BY <2>6 DEF Look, Allocate, Announce, RemoveEntry, Release, Goto, entryVars
    <3>2. PICK l \in {"hold", "allocate", "announce", "removed", "idle"} : upc' = [upc EXCEPT ![u] = l]
      BY <3>1
    <3>3. l \notin CreateLabels
      BY DEF CreateLabels
    <3>4. CASE Look(u) \/ Announce(u) \/ RemoveEntry(u) \/ Release(u)
      <4>1. data' = data
        BY <3>4 DEF Look, Announce, RemoveEntry, Release, entryVars
      <4>. QED
        BY <2>1, <3>1, <3>2, <3>3, <4>1
    <3>5. CASE Allocate(u)
      <4>1. table' = table
        BY <3>5 DEF Allocate
      <4>2. \A v \in Users : upc'[v] = IF v = u THEN l ELSE upc[v]
        BY <3>2 DEF MemoryTypeOK
      <4>. QED
        BY <3>1, <3>3, <4>1, <4>2, NoCreation
    <3>. QED
      BY <2>6, <3>4, <3>5
  <2>. QED
    BY <1>4, <2>2, <2>3, <2>4, <2>5, <2>6 DEF UserStep
<1>5. ASSUME NEW k, RemoveHash(k) PROVE CreatorInv'
  <2>1. data' = data /\ request' = request /\ upc' = upc /\ want' = want
    BY <1>5 DEF RemoveHash, entryVars, userVars
  <2>. QED
    BY <1>3, <2>1
<1>6. ASSUME NEW keys, RemoveForPlugin(keys) PROVE CreatorInv'
  <2>1. data' = data /\ request' = request /\ upc' = upc /\ want' = want
    BY <1>6 DEF RemoveForPlugin, entryVars, userVars
  <2>. QED
    BY <1>3, <2>1
<1>7. CASE DeleterPop \/ ClearOne \/ ClearLock \/ ClearEnd
  <2>1. data' = data /\ request' = request /\ upc' = upc /\ want' = want
    BY <1>7 DEF DeleterPop, ClearOne, ClearLock, ClearEnd, entryVars, userVars
  <2>. QED
    BY <1>3, <2>1
<1>8. CASE DeleterWake
  <2>1. /\ data' = data /\ request' = request /\ want' = want
        /\ \A u \in Users : upc'[u] = IF upc[u] = "asleep" THEN "wait" ELSE upc[u]
    BY <1>8 DEF DeleterWake, entryVars
  <2>2. "asleep" \in CreateLabels
    BY DEF CreateLabels
  <2>. QED
    BY <1>3, <2>1, <2>2
<1>9. ASSUME NEW t \in Threads, Destroy(t) PROVE CreatorInv'
  <2>1. PICK e \in Entries : Deallocate(t, e) \/ NotifyDestroyed(t, e)
    BY <1>9 DEF Destroy
  <2>2. /\ e \in dying[t] /\ UNCHANGED <<table, upc, want>>
        /\ \/ request' = request
           \/ request' = [request EXCEPT ![e] = AnyRequest]
    BY <2>1 DEF Deallocate, NotifyDestroyed, userVars
  <2>3. e \notin Range(table)
    BY <2>2 DEF OwnersInv, Listed
  <2>4. \A x \in Range(table) : request'[x] = request[x]
    BY <1>2, <2>2, <2>3 DEF MemoryTypeOK
  <2>. QED
    BY <2>2, <2>4, NoCreation
<1>. QED
  BY <1>4, <1>5, <1>6, <1>7, <1>8, <1>9 DEF MemoryNext

-----------------------------------------------------------------------------
(* The account                                                             *)

(* A step that moves nobody in or out of an allocation or an announcement, *)
(* and that leaves as many entries allocated.                              *)
LEMMA SameCounts ==
  ASSUME MemoryTypeOK, AnnounceInv, UNCHANGED <<size, twice>>, Allocated' = Allocated,
         \A u \in Users : /\ upc'[u] = "announce" <=> upc[u] = "announce"
                          /\ upc'[u] = "allocate" <=> upc[u] = "allocate"
                          /\ upc[u] \in {"announce", "allocate"} => held'[u] = held[u],
         \A e \in Entries : data[e] = "empty" => data'[e] = "empty",
         \A u \in Users : upc[u] = "allocate" => held[u] \in Entries /\ data'[held[u]] = data[held[u]]
  PROVE  AnnounceInv'
<1>1. At("announce")' = At("announce") /\ At("allocate")' = At("allocate")
  BY DEF At
<1>2. /\ HeldAt("announce")' = HeldAt("announce") /\ HeldAt("allocate")' = HeldAt("allocate")
  <2>1. \A u \in At("announce") \cup At("allocate") : held'[u] = held[u]
    BY DEF At
  <2>. QED
    BY <1>1, <2>1 DEF HeldAt
<1>3. EmptyAllocated' = EmptyAllocated
  <2>1. \A e \in HeldAt("allocate") : data'[e] = data[e]
    BY DEF HeldAt, At
  <2>. QED
    BY <1>2, <2>1 DEF EmptyAllocated
<1>4. SizeIsFootprint <=> size + Cardinality(At("announce")) = Cardinality(Allocated) + twice
  BY DEF SizeIsFootprint, At, Allocated
<1>5. SizeIsFootprint' <=> size' + Cardinality(At("announce")') = Cardinality(Allocated') + twice'
  BY DEF SizeIsFootprint, At, Allocated
<1>6. /\ size + Cardinality(At("announce")) = Cardinality(Allocated) + twice
      /\ Cardinality(At("announce")) <= Cardinality(HeldAt("announce")) + twice
      /\ twice + Cardinality(At("allocate")) - Cardinality(EmptyAllocated) <= MaxTwice
  BY <1>4 DEF AnnounceInv
<1>7. SizeIsFootprint'
  BY <1>1, <1>5, <1>6
<1>8. /\ Cardinality(At("announce")') <= Cardinality(HeldAt("announce")') + twice'
      /\ twice' + Cardinality(At("allocate")') - Cardinality(EmptyAllocated') <= MaxTwice
  BY <1>1, <1>2, <1>3, <1>6
<1>. QED
  BY <1>7, <1>8 DEF AnnounceInv

(* AnnounceInv, and what becomes of it, with a name for each count.        *)
Counts(size_, twice_, announce, heldAnnounce, allocate, empty, allocated) ==
    /\ announce <= heldAnnounce + twice_
    /\ twice_ + allocate - empty <= MaxTwice
    /\ size_ + announce = allocated + twice_

(* AnnounceInv in terms of the counts.                                     *)
LEMMA CountsOfState ==
  /\ AnnounceInv <=> Counts(size, twice, Cardinality(At("announce")), Cardinality(HeldAt("announce")),
                            Cardinality(At("allocate")), Cardinality(EmptyAllocated),
                            Cardinality(Allocated))
  /\ AnnounceInv' <=> Counts(size', twice', Cardinality(At("announce")'), Cardinality(HeldAt("announce")'),
                             Cardinality(At("allocate")'), Cardinality(EmptyAllocated'),
                             Cardinality(Allocated'))
  BY DEF AnnounceInv, Counts, SizeIsFootprint, At, Allocated

(* Each step of an allocation, and the end of an entry, keep the account.  *)
LEMMA LookCounts ==
  ASSUME MemoryInv, NEW u \in Users, Look(u)
  PROVE  AnnounceInv'
<1> USE DEF MemoryInv
<1>1. /\ upc[u] = "look" /\ UNCHANGED <<table, data, request, size, held, twice>>
      /\ \/ data[held[u]] = "filled" /\ upc' = [upc EXCEPT ![u] = "hold"]
         \/ /\ data[held[u]] = "empty" /\ upc' = [upc EXCEPT ![u] = "allocate"]
            /\ twice + Cardinality(At("allocate")) <= MaxTwice
  BY DEF Look, Goto, entryVars, At
<1>2. held[u] \in Entries
  BY <1>1 DEF UsersInv, HoldLabels, MemoryTypeOK
<1>3. Allocated' = Allocated
  BY <1>1 DEF Allocated
<1>4. CASE data[held[u]] = "filled" /\ upc' = [upc EXCEPT ![u] = "hold"]
  <2>1. \A v \in Users : upc'[v] = IF v = u THEN "hold" ELSE upc[v]
    BY <1>4 DEF MemoryTypeOK
  <2>2. \A v \in Users : upc[v] = "allocate" => held[v] \in Entries
    BY DEF UsersInv, HoldLabels, MemoryTypeOK
  <2>. QED
    BY <1>1, <1>3, <2>1, <2>2, SameCounts
<1>5. CASE /\ data[held[u]] = "empty" /\ upc' = [upc EXCEPT ![u] = "allocate"]
           /\ twice + Cardinality(At("allocate")) <= MaxTwice
  <2>1. \A v \in Users : upc'[v] = IF v = u THEN "allocate" ELSE upc[v]
    BY <1>5 DEF MemoryTypeOK
  <2>2. At("allocate")' = At("allocate") \cup {u} /\ u \notin At("allocate")
    BY <1>1, <2>1 DEF At
  <2>3. At("announce")' = At("announce")
    BY <1>1, <2>1 DEF At
  <2>4. HeldAt("announce")' = HeldAt("announce")
    BY <1>1, <2>3 DEF HeldAt
  <2>5. EmptyAllocated' = EmptyAllocated \cup {held[u]}
    <3>1. HeldAt("allocate")' = HeldAt("allocate") \cup {held[u]}
      BY <1>1, <2>2 DEF HeldAt
    <3>. QED
      BY <1>1, <1>5, <3>1 DEF EmptyAllocated
  <2>6. Cardinality(At("allocate")') = Cardinality(At("allocate")) + 1
    BY <2>2, FiniteCounts, FS_AddElement
  <2>7. /\ Cardinality(EmptyAllocated') >= 1 /\ Cardinality(EmptyAllocated') \in Nat
    <3>1. IsFiniteSet(EmptyAllocated') /\ held[u] \in EmptyAllocated'
      BY <2>5, FiniteCounts, FS_AddElement
    <3>2. Cardinality(EmptyAllocated') \in Nat /\ Cardinality(EmptyAllocated') # 0
      BY <3>1, FS_CardinalityType, FS_EmptySet
    <3>. QED
      BY <3>2
  <2>8. twice \in Nat /\ MaxTwice \in Nat /\ Cardinality(At("allocate")) \in Nat
    BY FiniteCounts DEF MemoryTypeOK
  <2>9. twice' + Cardinality(At("allocate")') - Cardinality(EmptyAllocated') <= MaxTwice
    BY <1>1, <1>5, <2>6, <2>7, <2>8
  <2>. QED
    BY <1>1, <1>3, <2>3, <2>4, <2>9, CountsOfState DEF Counts
<1>. QED
  BY <1>1, <1>4, <1>5

(* allocateMemory()                                                        *)
LEMMA AllocateCounts ==
  ASSUME MemoryInv, NEW u \in Users, Allocate(u)
  PROVE  AnnounceInv'
<1> USE DEF MemoryInv
<1> DEFINE h == held[u]
<1>1. /\ upc[u] = "allocate" /\ UNCHANGED <<size, held>>
      /\ upc' = [upc EXCEPT ![u] = "announce"] /\ data' = [data EXCEPT ![h] = "filled"]
      /\ twice' = IF data[h] = "filled" THEN twice + 1 ELSE twice
  BY DEF Allocate, Goto
<1>2. h \in Entries /\ data[h] \in {"empty", "filled"}
  BY <1>1 DEF UsersInv, OwnersInv, HoldLabels, MemoryTypeOK
<1>3. h = held[u]
  OBVIOUS
<1> HIDE DEF h
<1>4. \A x \in Entries : data'[x] = IF x = h THEN "filled" ELSE data[x]
  BY <1>1 DEF MemoryTypeOK
<1>5. \A v \in Users : upc'[v] = IF v = u THEN "announce" ELSE upc[v]
  BY <1>1 DEF MemoryTypeOK
<1>6. /\ At("announce")' = At("announce") \cup {u} /\ u \notin At("announce")
      /\ At("allocate")' = At("allocate") \ {u} /\ u \in At("allocate")
  BY <1>1, <1>5 DEF At
<1>7. HeldAt("announce")' = HeldAt("announce") \cup {h}
  BY <1>1, <1>3, <1>6 DEF HeldAt
<1>8. EmptyAllocated' = EmptyAllocated \ {h}
  <2>1. HeldAt("allocate")' \cup {h} = HeldAt("allocate")
    BY <1>1, <1>3, <1>6 DEF HeldAt
  <2>2. \A x \in HeldAt("allocate") : x \in Entries
    BY DEF HeldAt, At, UsersInv, HoldLabels, MemoryTypeOK
  <2>. QED
    BY <1>4, <2>1, <2>2 DEF EmptyAllocated
<1>9. Allocated' = Allocated \cup {h}
  BY <1>2, <1>4 DEF Allocated
<1>10. /\ Cardinality(At("announce")') = Cardinality(At("announce")) + 1
       /\ Cardinality(At("allocate")') = Cardinality(At("allocate")) - 1
  <2>1. IsFiniteSet(At("announce")) /\ IsFiniteSet(At("allocate"))
    BY FiniteCounts
  <2>2. /\ Cardinality(At("announce") \cup {u}) = Cardinality(At("announce")) + 1
        /\ Cardinality(At("allocate") \ {u}) = Cardinality(At("allocate")) - 1
    BY <1>6, <2>1, FS_AddElement, FS_RemoveElement
  <2>. QED
    BY <1>6, <2>2
<1>11. /\ twice \in Nat /\ size \in Nat /\ MaxTwice \in Nat
       /\ Cardinality(At("announce")) \in Nat /\ Cardinality(HeldAt("announce")) \in Nat
       /\ Cardinality(At("allocate")) \in Nat /\ Cardinality(EmptyAllocated) \in Nat
       /\ Cardinality(Allocated) \in Nat
  BY FiniteCounts DEF MemoryTypeOK
<1>12. Counts(size, twice, Cardinality(At("announce")), Cardinality(HeldAt("announce")),
              Cardinality(At("allocate")), Cardinality(EmptyAllocated), Cardinality(Allocated))
  BY CountsOfState
<1>13. CASE data[h] = "empty"
  <2>1. h \notin HeldAt("announce")
    BY <1>13 DEF HeldAt, At, UsersInv
  <2>2. h \in EmptyAllocated
    BY <1>3, <1>6, <1>13 DEF EmptyAllocated, HeldAt
  <2>3. h \notin Allocated
    BY <1>13 DEF Allocated
  <2>4. /\ Cardinality(HeldAt("announce")') = Cardinality(HeldAt("announce")) + 1
        /\ Cardinality(EmptyAllocated') = Cardinality(EmptyAllocated) - 1
        /\ Cardinality(Allocated') = Cardinality(Allocated) + 1
    <3>1. /\ IsFiniteSet(HeldAt("announce")) /\ IsFiniteSet(EmptyAllocated)
          /\ IsFiniteSet(Allocated)
      BY FiniteCounts
    <3>2. /\ Cardinality(HeldAt("announce") \cup {h}) = Cardinality(HeldAt("announce")) + 1
          /\ Cardinality(EmptyAllocated \ {h}) = Cardinality(EmptyAllocated) - 1
          /\ Cardinality(Allocated \cup {h}) = Cardinality(Allocated) + 1
      BY <2>1, <2>2, <2>3, <3>1, FS_AddElement, FS_RemoveElement
    <3>. QED
      BY <1>7, <1>8, <1>9, <3>2
  <2>5. twice' = twice /\ size' = size
    BY <1>1, <1>13
  <2>. QED
    BY <1>10, <1>11, <1>12, <2>4, <2>5, CountsOfState DEF Counts
<1>14. CASE data[h] = "filled"
  <2>1. h \notin EmptyAllocated /\ h \in Allocated
    BY <1>2, <1>14 DEF EmptyAllocated, Allocated
  <2>2. EmptyAllocated' = EmptyAllocated /\ Allocated' = Allocated
    BY <1>8, <1>9, <2>1
  <2>3. /\ Cardinality(HeldAt("announce")') >= Cardinality(HeldAt("announce"))
        /\ Cardinality(HeldAt("announce")') \in Nat
    <3>1. IsFiniteSet(HeldAt("announce")') /\ HeldAt("announce") \subseteq HeldAt("announce")'
      BY <1>7, FiniteCounts, FS_AddElement
    <3>. QED
      BY <1>11, <3>1, FS_Subset, FS_CardinalityType
  <2>4. twice' = twice + 1 /\ size' = size
    BY <1>1, <1>14
  <2>. QED
    BY <1>10, <1>11, <1>12, <2>2, <2>3, <2>4, CountsOfState DEF Counts
<1>. QED
  BY <1>2, <1>13, <1>14

(* notifyEntryAllocated()                                                  *)
LEMMA AnnounceCounts ==
  ASSUME MemoryInv, NEW u \in Users, Announce(u)
  PROVE  AnnounceInv'
<1> USE DEF MemoryInv
<1> DEFINE h == held[u]
           A == At("announce")
           H == HeldAt("announce")
<1>1. /\ upc[u] = "announce" /\ size' = size + 1 /\ UNCHANGED <<data, held, twice>>
      /\ upc' = [upc EXCEPT ![u] = "hold"]
  BY DEF Announce, Goto, entryVars
<1>2. \A v \in Users : upc'[v] = IF v = u THEN "hold" ELSE upc[v]
  BY <1>1 DEF MemoryTypeOK
<1>3. At("announce")' = A \ {u} /\ u \in A /\ At("allocate")' = At("allocate")
  BY <1>1, <1>2 DEF At
<1>4. H \ {h} \subseteq H'
  BY <1>1, <1>3 DEF HeldAt
<1>5. EmptyAllocated' = EmptyAllocated /\ Allocated' = Allocated
  BY <1>1, <1>3 DEF EmptyAllocated, Allocated, HeldAt
<1>6. Cardinality(At("announce")') = Cardinality(A) - 1
  BY <1>3, FiniteCounts, FS_RemoveElement
<1>7. h \in H /\ IsFiniteSet(H) /\ IsFiniteSet(H')
  <2>1. H' \subseteq H
    BY <1>1, <1>3 DEF HeldAt
  <2>2. IsFiniteSet(H)
    BY FiniteCounts
  <2>3. h \in H
    BY <1>3 DEF HeldAt
  <2> HIDE DEF H
  <2>. QED
    BY <2>1, <2>2, <2>3, FS_Subset
<1>8. Cardinality(HeldAt("announce")') >= Cardinality(H) - 1 /\ Cardinality(HeldAt("announce")') \in Nat
  <2> HIDE DEF H, h
  <2>1. Cardinality(H \ {h}) = Cardinality(H) - 1 /\ Cardinality(H) \in Nat
    BY <1>7, FS_RemoveElement, FS_CardinalityType
  <2>2. Cardinality(H \ {h}) <= Cardinality(H') /\ Cardinality(H') \in Nat
    BY <1>4, <1>7, FS_Subset, FS_CardinalityType
  <2>. QED
    BY <2>1, <2>2 DEF H
<1>9. Counts(size, twice, Cardinality(A), Cardinality(H),
             Cardinality(At("allocate")), Cardinality(EmptyAllocated), Cardinality(Allocated))
  BY CountsOfState
<1>10. /\ twice \in Nat /\ size \in Nat /\ MaxTwice \in Nat
       /\ Cardinality(A) \in Nat /\ Cardinality(H) \in Nat
       /\ Cardinality(At("allocate")) \in Nat /\ Cardinality(EmptyAllocated) \in Nat
       /\ Cardinality(Allocated) \in Nat
  BY FiniteCounts DEF MemoryTypeOK
<1> HIDE DEF A, H
<1>. QED
  BY <1>1, <1>3, <1>5, <1>6, <1>8, <1>9, <1>10, CountsOfState DEF Counts

(* notifyEntryDestroyed(): the size is not 0, since the entry has been     *)
(* announced.                                                              *)
LEMMA DestroyedCounts ==
  ASSUME MemoryInv, NEW t \in Threads, NEW e \in Entries, NotifyDestroyed(t, e)
  PROVE  AnnounceInv'
<1> USE DEF MemoryInv
<1> DEFINE A == At("announce")
           H == HeldAt("announce")
<1>1. /\ e \in dying[t] /\ data[e] = "freed" /\ UNCHANGED <<upc, held, twice>>
      /\ data' = [data EXCEPT ![e] = "absent"]
      /\ size' = IF size = 0 THEN 0 ELSE size - 1
  BY DEF NotifyDestroyed, userVars
<1>2. HoldersOf(e) = {}
  BY <1>1 DEF OwnersInv
<1>3. \A x \in Entries : data'[x] = IF x = e THEN "absent" ELSE data[x]
  BY <1>1 DEF MemoryTypeOK
<1>4. Allocated' = Allocated \ {e} /\ e \in Allocated
  BY <1>1, <1>3 DEF Allocated
<1>5. At("announce")' = A /\ HeldAt("announce")' = H /\ At("allocate")' = At("allocate")
      /\ HeldAt("allocate")' = HeldAt("allocate")
  BY <1>1 DEF At, HeldAt
<1>6. EmptyAllocated' = EmptyAllocated
  <2>1. \A x \in HeldAt("allocate") : x \in Entries
    BY DEF HeldAt, At, UsersInv, HoldLabels, MemoryTypeOK
  <2>. QED
    BY <1>1, <1>3, <1>5, <2>1 DEF EmptyAllocated
<1>7. H \subseteq Allocated \ {e}
  <2>1. \A v \in Users : upc[v] = "announce" =>
              held[v] \in Entries /\ data[held[v]] = "filled" /\ held[v] # e
    BY <1>2 DEF UsersInv, HoldLabels, MemoryTypeOK, HoldersOf
  <2>. QED
    BY <2>1 DEF HeldAt, At, Allocated
<1>8. /\ twice \in Nat /\ size \in Nat /\ MaxTwice \in Nat
      /\ Cardinality(A) \in Nat /\ Cardinality(H) \in Nat
      /\ Cardinality(At("allocate")) \in Nat /\ Cardinality(EmptyAllocated) \in Nat
      /\ Cardinality(Allocated) \in Nat
  BY FiniteCounts DEF MemoryTypeOK
<1> HIDE DEF A, H
<1>9. Cardinality(Allocated') = Cardinality(Allocated) - 1 /\ Cardinality(H) <= Cardinality(Allocated')
  <2>1. /\ IsFiniteSet(Allocated \ {e})
        /\ Cardinality(Allocated \ {e}) = Cardinality(Allocated) - 1
    BY <1>4, FiniteCounts, FS_RemoveElement
  <2>. QED
    BY <1>4, <1>7, <2>1, FS_Subset
<1>10. Counts(size, twice, Cardinality(A), Cardinality(H),
              Cardinality(At("allocate")), Cardinality(EmptyAllocated), Cardinality(Allocated))
  BY CountsOfState DEF A, H
<1>11. size # 0
  BY <1>8, <1>9, <1>10 DEF Counts
<1>12. size' = size - 1
  BY <1>1, <1>11
<1>. QED
  BY <1>1, <1>5, <1>6, <1>8, <1>9, <1>10, <1>12, CountsOfState DEF Counts

(* Every step keeps the account.                                           *)
LEMMA AnnounceKept ==
  ASSUME MemoryInv, MemoryNext
  PROVE  AnnounceInv'
<1> USE DEF MemoryInv
<1>1. \A v \in Users : upc[v] = "allocate" => held[v] \in Entries
  BY DEF UsersInv, HoldLabels, MemoryTypeOK
<1>2. ASSUME UNCHANGED <<data, size, twice, held, upc>> PROVE AnnounceInv'
  <2>1. Allocated' = Allocated
    BY <1>2 DEF Allocated
  <2>. QED
    BY <1>1, <1>2, <2>1, SameCounts
<1>3. ASSUME NEW u \in Users, UserStep(u) PROVE AnnounceInv'
  <2>1. ASSUME UNCHANGED <<data, size, twice>>, NEW l, NEW h,
               upc' = [upc EXCEPT ![u] = l], held' = [held EXCEPT ![u] = h],
               {upc[u], l} \cap {"announce", "allocate"} = {}
        PROVE  AnnounceInv'
    <3>1. \A v \in Users : /\ upc'[v] = IF v = u THEN l ELSE upc[v]
                           /\ held'[v] = IF v = u THEN h ELSE held[v]
      BY <2>1 DEF MemoryTypeOK
    <3>2. Allocated' = Allocated
      BY <2>1 DEF Allocated
    <3>. QED
      BY <1>1, <2>1, <3>1, <3>2, SameCounts
  <2>2. held = [held EXCEPT ![u] = held[u]]
    BY DEF MemoryTypeOK
  <2>3. ASSUME NEW r \in Requests, GetOrCreate(u, r) PROVE AnnounceInv'
    <3>1. UNCHANGED <<data, size, twice>> /\ upc[u] = "idle"
      BY <2>3 DEF GetOrCreate, entryVars
    <3>2. \/ held' = [held EXCEPT ![u] = Matching(r)[1]] /\ upc' = [upc EXCEPT ![u] = "look"]
          \/ held' = held /\ upc' = [upc EXCEPT ![u] = "check"]
      BY <2>3 DEF GetOrCreate
    <3>. QED
      BY <2>1, <2>2, <3>1, <3>2
  <2>4. CASE EvictForSystem(u)
    BY <1>2, <2>4 DEF EvictForSystem, entryVars, userVars
  <2>5. CASE SystemHasMemory(u)
    BY <2>1, <2>2, <2>5 DEF SystemHasMemory, entryVars
  <2>6. CASE EvictInMemory(u)
    BY <2>1, <2>2, <2>6 DEF EvictInMemory, entryVars
  <2>7. CASE WaitForMemory(u)
    <3>1. /\ UNCHANGED <<data, size, twice, held>> /\ upc[u] = "wait"
          /\ \E l \in {"asleep", "insert"} : upc' = [upc EXCEPT ![u] = l]
      BY <2>7 DEF WaitForMemory, entryVars
    <3>. QED
      BY <2>1, <2>2, <3>1
  <2>8. CASE Insert(u)
    <3>1. PICK e \in Entries : /\ data[e] = "absent"
                               /\ data' = [data EXCEPT ![e] = "empty"]
                               /\ held' = [held EXCEPT ![u] = e]
      BY <2>8 DEF Insert
    <3>2. UNCHANGED <<size, twice>> /\ upc[u] = "insert" /\ upc' = [upc EXCEPT ![u] = "look"]
      BY <2>8 DEF Insert
    <3>3. \A x \in Entries : data'[x] = IF x = e THEN "empty" ELSE data[x]
      BY <3>1 DEF MemoryTypeOK
    <3>4. \A v \in Users : /\ upc'[v] = IF v = u THEN "look" ELSE upc[v]
                           /\ held'[v] = IF v = u THEN e ELSE held[v]
      BY <3>1, <3>2 DEF MemoryTypeOK
    <3>5. Allocated' = Allocated
      BY <3>1, <3>3 DEF Allocated
    <3>6. \A v \in Users : upc[v] = "allocate" => held[v] \in Entries /\ data'[held[v]] = data[held[v]]
      BY <1>1, <3>1, <3>3 DEF OwnersInv
    <3>. QED
      BY <3>1, <3>2, <3>3, <3>4, <3>5, <3>6, SameCounts
  <2>9. CASE RemoveEntry(u)
    BY <2>1, <2>2, <2>9 DEF RemoveEntry, Goto, entryVars
  <2>10. CASE Release(u)
    <3>1. /\ UNCHANGED <<data, size, twice>> /\ upc[u] \in {"hold", "removed"}
          /\ held' = [held EXCEPT ![u] = NoEntry] /\ upc' = [upc EXCEPT ![u] = "idle"]
      BY <2>10 DEF Release, entryVars
    <3>. QED
      BY <2>1, <3>1
  <2>. QED
    BY <1>3, <2>3, <2>4, <2>5, <2>6, <2>7, <2>8, <2>9, <2>10, LookCounts, AllocateCounts,
       AnnounceCounts DEF UserStep
<1>4. ASSUME NEW k, RemoveHash(k) PROVE AnnounceInv'
  BY <1>2, <1>4 DEF RemoveHash, userVars, entryVars
<1>5. ASSUME NEW keys, RemoveForPlugin(keys) PROVE AnnounceInv'
  <2>1. UNCHANGED <<data, size, twice, held, upc>>
    BY <1>5 DEF RemoveForPlugin, userVars, entryVars
  <2>. QED
    BY <1>2, <2>1
<1>6. CASE DeleterPop \/ ClearOne \/ ClearLock \/ ClearEnd
  BY <1>2, <1>6 DEF DeleterPop, ClearOne, ClearLock, ClearEnd, userVars, entryVars
<1>7. CASE DeleterWake
  <2>1. /\ UNCHANGED <<data, size, twice, held>>
        /\ \A u \in Users : upc'[u] = IF upc[u] = "asleep" THEN "wait" ELSE upc[u]
    BY <1>7 DEF DeleterWake, entryVars
  <2>2. Allocated' = Allocated
    BY <2>1 DEF Allocated
  <2>. QED
    BY <1>1, <2>1, <2>2, SameCounts
<1>8. ASSUME NEW t \in Threads, Destroy(t) PROVE AnnounceInv'
  <2>1. ASSUME NEW e \in Entries, Deallocate(t, e) PROVE AnnounceInv'
    <3>1. /\ e \in dying[t] /\ data[e] = "filled" /\ data' = [data EXCEPT ![e] = "freed"]
          /\ UNCHANGED <<size, twice, held, upc>>
      BY <2>1 DEF Deallocate, userVars
    <3>2. \A x \in Entries : data'[x] = IF x = e THEN "freed" ELSE data[x]
      BY <3>1 DEF MemoryTypeOK
    <3>3. HoldersOf(e) = {}
      BY <3>1 DEF OwnersInv
    <3>4. Allocated' = Allocated
      BY <3>1, <3>2 DEF Allocated
    <3>5. \A v \in Users : upc[v] = "allocate" => held[v] \in Entries /\ data'[held[v]] = data[held[v]]
      BY <1>1, <3>2, <3>3 DEF HoldersOf
    <3>. QED
      BY <3>1, <3>2, <3>4, <3>5, SameCounts
  <2>. QED
    BY <1>8, <2>1, DestroyedCounts DEF Destroy
<1>. QED
  BY <1>3, <1>4, <1>5, <1>6, <1>7, <1>8 DEF MemoryNext

-----------------------------------------------------------------------------
(* Waiting for the deleter                                                 *)

(* createInternal() goes to sleep with the mutex of the queue locked, and  *)
(* whoever takes the last entry of the queue wakes it afterwards.          *)
LEMMA DeleterAwaited ==
  ASSUME MemoryInv, WaitsForTheDeleter, MemoryNext
  PROVE  WaitsForTheDeleter'
<1> USE DEF MemoryInv
<1>1. deleteQueue # <<>> => deleteQueue' # <<>> \/ deleter' = "wake"
  BY ListsKept DEF ListsStep
<1>2. ASSUME UNCHANGED <<deleteQueue, deleter, upc>> PROVE WaitsForTheDeleter'
  BY <1>2 DEF WaitsForTheDeleter
<1>3. ASSUME deleter' = deleter, NEW u \in Users,
             \E l \in UserLabels \ {"asleep"} : upc' = [upc EXCEPT ![u] = l]
      PROVE  WaitsForTheDeleter'
  <2>1. \A v \in Users : upc'[v] = "asleep" => upc[v] = "asleep"
    BY <1>3 DEF MemoryTypeOK
  <2>. QED
    BY <1>1, <1>3, <2>1 DEF WaitsForTheDeleter
<1>4. ASSUME upc' = upc, deleter' = deleter PROVE WaitsForTheDeleter'
  BY <1>1, <1>4 DEF WaitsForTheDeleter
<1>5. ASSUME NEW u \in Users, UserStep(u) PROVE WaitsForTheDeleter'
  <2>1. CASE \E r \in Requests : GetOrCreate(u, r)
    <3>1. deleter' = deleter /\ \E l \in {"look", "check"} : upc' = [upc EXCEPT ![u] = l]
      BY <2>1 DEF GetOrCreate
    <3>. QED
      BY <1>3, <3>1 DEF UserLabels, CreateLabels
  <2>2. CASE EvictForSystem(u)
    BY <1>2, <2>2 DEF EvictForSystem, userVars
  <2>3. CASE WaitForMemory(u)
    <3>1. CASE size >= Capacity /\ deleteQueue # <<>>
      BY <2>3, <3>1 DEF WaitForMemory, WaitsForTheDeleter
    <3>2. CASE ~(size >= Capacity /\ deleteQueue # <<>>)
      <4>1. upc' = [upc EXCEPT ![u] = "insert"] /\ deleter' = deleter
        BY <2>3, <3>2 DEF WaitForMemory
      <4>. QED
        BY <1>3, <4>1 DEF UserLabels, CreateLabels
    <3>. QED
      BY <3>1, <3>2
  <2>4. CASE SystemHasMemory(u) \/ EvictInMemory(u) \/ Insert(u) \/ Look(u) \/ Allocate(u)
             \/ Announce(u) \/ RemoveEntry(u) \/ Release(u)
    <3>1. deleter' = deleter /\ \E l \in {"evict", "wait", "look", "hold", "allocate", "announce",
                                          "removed", "idle"} : upc' = [upc EXCEPT ![u] = l]
      BY <2>4 DEF SystemHasMemory, EvictInMemory, Insert, Look, Allocate, Announce, RemoveEntry,
                  Release, Goto
    <3>. QED
      BY <1>3, <3>1 DEF UserLabels, CreateLabels
  <2>. QED
    BY <1>5, <2>1, <2>2, <2>3, <2>4 DEF UserStep
<1>6. ASSUME NEW k, RemoveHash(k) PROVE WaitsForTheDeleter'
  BY <1>4, <1>6 DEF RemoveHash, userVars
<1>7. ASSUME NEW keys, RemoveForPlugin(keys) PROVE WaitsForTheDeleter'
  <2>1. upc' = upc /\ deleter' = deleter
    BY <1>7 DEF RemoveForPlugin, userVars
  <2>. QED
    BY <1>4, <2>1
<1>8. CASE DeleterPop
  BY <1>8 DEF DeleterPop, AfterPop, WaitsForTheDeleter
<1>9. CASE DeleterWake
  <2>1. \A u \in Users : upc'[u] # "asleep"
    BY <1>9 DEF DeleterWake
  <2>. QED
    BY <2>1 DEF WaitsForTheDeleter
<1>10. CASE ClearOne \/ ClearLock \/ ClearEnd
  BY <1>2, <1>10 DEF ClearOne, ClearLock, ClearEnd, userVars
<1>11. ASSUME NEW t \in Threads, Destroy(t) PROVE WaitsForTheDeleter'
  BY <1>2, <1>11 DEF Destroy, Deallocate, NotifyDestroyed, userVars
<1>. QED
  BY <1>5, <1>6, <1>7, <1>8, <1>9, <1>10, <1>11 DEF MemoryNext

-----------------------------------------------------------------------------
(* The tiles                                                               *)

(* The entries that have a tile, or have had and still point to its file.  *)
Live == TileEntries \ freed

(* The files that somebody has.                                            *)
Had == cacheFiles \cup {tile[e].file : e \in TileEntries}

(* In a file of the cache, the tiles marked as used are those of the live  *)
(* entries, each with its own.  The tile remembered for the next entry is  *)
(* free, in a file that somebody has still; one that nobody has is blank.  *)
TilesInv ==
    /\ TilesTypeOK
    /\ \A e \in Live : tile[e].file \in cacheFiles => tile[e].index \in used[tile[e].file]
    /\ \A f \in cacheFiles : \A i \in used[f] : \E e \in Live : tile[e] = [file |-> f, index |-> i]
    /\ \A d, e \in Live : tile[d] = tile[e] /\ tile[d].file \in cacheFiles => d = e
    /\ next.file \in cacheFiles => next.index \notin used[next.file]
    /\ next # NoTile => next.file \in Had
    /\ \A f \in Files \ Had : used[f] = {}

(* The values of the tiles.                                                *)
LEMMA TileFacts ==
  /\ NoTile.file = NoFile /\ NoTile.file \notin Files
  /\ \A t \in Tiles : t.file \in Files /\ t.index \in Indices /\ t # NoTile
  /\ \A f \in Files, i \in Indices : /\ [file |-> f, index |-> i] \in Tiles
                                     /\ [file |-> f, index |-> i].file = f
                                     /\ [file |-> f, index |-> i].index = i
  /\ 0 \in Indices /\ 1 \in Indices
  BY TilesAssumption DEF Tiles, NoTile, Indices

(* An entry gets a tile that no entry has, in a file that has been marked. *)
LEMMA TileGiven ==
  ASSUME TilesInv, NEW e \in TileEntries, NEW f \in Files, NEW i \in Indices,
         GivesTile(e, f, i), i \notin used[f] \/ f \notin cacheFiles',
         \/ cacheFiles' = cacheFiles
         \/ f \notin Had /\ cacheFiles' = cacheFiles \cup {f},
         path' \in [Files -> Nat],
         \/ next' = NoTile
         \/ /\ next' \in Tiles /\ next'.file = f /\ next'.index # i /\ f \in cacheFiles'
            /\ next'.index \notin used[f]
  PROVE  TilesInv'
<1>0. TilesTypeOK
  BY DEF TilesInv
<1>1. /\ tile' = [tile EXCEPT ![e] = [file |-> f, index |-> i]] /\ tile[e] = NoTile
      /\ used' = [used EXCEPT ![f] = @ \cup {i}] /\ UNCHANGED <<freed, clearing>>
  BY DEF GivesTile
<1>2. \A d \in TileEntries : tile'[d] = IF d = e THEN [file |-> f, index |-> i] ELSE tile[d]
  BY <1>0, <1>1 DEF TilesTypeOK
<1>3. \A g \in Files : used'[g] = IF g = f THEN used[g] \cup {i} ELSE used[g]
  BY <1>0, <1>1 DEF TilesTypeOK
<1>4. Live' = Live /\ e \in Live
  BY <1>0, <1>1, TileFacts DEF Live, TilesTypeOK
<1>5. TilesTypeOK'
  <2>1. tile' \in [TileEntries -> Tiles \cup {NoTile}]
    BY <1>0, <1>1, TileFacts DEF TilesTypeOK
  <2>2. freed' \subseteq {d \in TileEntries : tile'[d] # NoTile}
    BY <1>0, <1>1, <1>2, TileFacts DEF TilesTypeOK
  <2>3. cacheFiles' \subseteq Files /\ clearing' \in BOOLEAN
    BY <1>0, <1>1 DEF TilesTypeOK
  <2>4. used' \in [Files -> SUBSET Indices]
    BY <1>0, <1>1 DEF TilesTypeOK
  <2>. QED
    BY <2>1, <2>2, <2>3, <2>4 DEF TilesTypeOK
<1>6. cacheFiles \subseteq Files /\ cacheFiles' \subseteq Files
  BY <1>5 DEF TilesTypeOK
<1>7. \A d \in Live : tile[d].file = f => f \in cacheFiles \/ cacheFiles' = cacheFiles
  BY DEF Had, Live
<1>8. (\A d \in Live : tile[d].file \in cacheFiles => tile[d].index \in used[tile[d].file])'
  <2> SUFFICES ASSUME NEW d \in Live', tile'[d].file \in cacheFiles'
               PROVE  tile'[d].index \in used'[tile'[d].file]
    OBVIOUS
  <2>1. CASE d = e
    <3>1. tile'[d].file = f /\ tile'[d].index = i
      BY <1>2, <2>1, TileFacts
    <3>. QED
      BY <1>3, <3>1
  <2>2. CASE d # e
    <3>1. tile'[d] = tile[d] /\ d \in Live
      BY <1>2, <1>4, <2>2 DEF Live
    <3>2. tile[d].file \in cacheFiles
      BY <1>7, <3>1
    <3>3. tile[d].index \in used[tile[d].file] /\ tile[d].file \in Files
      BY <1>0, <3>1, <3>2 DEF TilesInv, TilesTypeOK
    <3>. QED
      BY <1>3, <3>1, <3>3
  <2>. QED
    BY <2>1, <2>2
<1>9. (\A g \in cacheFiles : \A j \in used[g] : \E d \in Live : tile[d] = [file |-> g, index |-> j])'
  <2> SUFFICES ASSUME NEW g \in cacheFiles', NEW j \in used'[g]
               PROVE  \E d \in Live' : tile'[d] = [file |-> g, index |-> j]
    OBVIOUS
  <2>1. CASE g = f /\ j = i
    BY <1>2, <1>4, <2>1 DEF Live
  <2>2. CASE ~(g = f /\ j = i)
    <3>1. j \in used[g]
      <4>1. g \in Files /\ j \in used'[g]
        BY <1>6
      <4>. QED
        BY <1>3, <2>2, <4>1
    <3>2. g \in cacheFiles
      BY <1>6, <3>1 DEF TilesInv
    <3>3. PICK d \in Live : tile[d] = [file |-> g, index |-> j]
      BY <3>1, <3>2 DEF TilesInv
    <3>4. tile[d] # NoTile
      <4>1. tile[d].file = g /\ g # NoFile
        BY <1>6, <3>2, <3>3, TileFacts
      <4>. QED
        BY <4>1, TileFacts
    <3>5. d # e
      BY <1>1, <3>4
    <3>. QED
      BY <1>2, <1>4, <3>3, <3>5 DEF Live
  <2>. QED
    BY <2>1, <2>2
<1>10. (\A c, d \in Live : tile[c] = tile[d] /\ tile[c].file \in cacheFiles => c = d)'
  <2>1. ASSUME NEW d \in Live, d # e, tile[d] = [file |-> f, index |-> i], f \in cacheFiles'
        PROVE  FALSE
    <3>1. tile[d].file = f /\ tile[d].index = i
      BY <2>1, TileFacts
    <3>2. f \in cacheFiles
      BY <1>7, <2>1, <3>1
    <3>. QED
      BY <2>1, <3>1, <3>2 DEF TilesInv
  <2>2. ASSUME NEW c \in Live, NEW d \in Live, tile'[c] = tile'[d], tile'[c].file \in cacheFiles'
        PROVE  c = d
    <3>1. CASE c # e /\ d # e
      <4>1. tile[c] = tile[d] /\ tile[c].file \in cacheFiles'
        BY <1>2, <2>2, <3>1 DEF Live
      <4>2. tile[c].file \in cacheFiles
        BY <1>7, <4>1
      <4>. QED
        BY <4>1, <4>2 DEF TilesInv
    <3>2. CASE c = e /\ d # e
      BY <1>2, <2>1, <2>2, <3>2, TileFacts DEF Live
    <3>3. CASE c # e /\ d = e
      BY <1>2, <2>1, <2>2, <3>3, TileFacts DEF Live
    <3>. QED
      BY <3>1, <3>2, <3>3
  <2>. QED
    BY <1>4, <2>2
<1>11. next'.file \in cacheFiles' => next'.index \notin used'[next'.file]
  <2>1. CASE next' = NoTile
    BY <1>6, <2>1, TileFacts
  <2>2. CASE next'.file = f /\ next'.index # i /\ next'.index \notin used[f]
    BY <1>3, <2>2
  <2>. QED
    BY <2>1, <2>2
<1>13. Had \cap Files \subseteq Had'
  <2> SUFFICES ASSUME NEW g \in Had, g \in Files PROVE g \in Had'
    OBVIOUS
  <2>1. CASE g \in cacheFiles
    BY <2>1 DEF Had
  <2>2. CASE g \notin cacheFiles
    <3>1. PICK d \in TileEntries : tile[d].file = g
      BY <2>2 DEF Had
    <3>2. d # e
      BY <1>1, <3>1, TileFacts
    <3>. QED
      BY <1>2, <3>1, <3>2 DEF Had
  <2>. QED
    BY <2>1, <2>2
<1>14. f \in Had'
  BY <1>2, TileFacts DEF Had
<1>15. next' # NoTile => next'.file \in Had'
  BY <1>14
<1>16. \A g \in Files \ Had' : used'[g] = {}
  BY <1>3, <1>13, <1>14 DEF TilesInv
<1>. QED
  BY <1>5, <1>8, <1>9, <1>10, <1>11, <1>15, <1>16 DEF TilesInv

(* Every step of the tiles keeps them apart.                               *)
LEMMA TilesKept ==
  ASSUME TilesInv, TilesNext
  PROVE  TilesInv'
<1>1. TilesTypeOK
  BY DEF TilesInv
<1>2. ASSUME NEW e \in TileEntries, AllocateRemembered(e) PROVE TilesInv'
  <2> DEFINE f == next.file
             i == next.index
  <2>1. /\ next # NoTile /\ GivesTile(e, f, i) /\ next' = NoTile
        /\ UNCHANGED <<cacheFiles, path>>
    BY <1>2 DEF AllocateRemembered, NextGiven
  <2>2. f \in Files /\ i \in Indices
    BY <1>1, <2>1, TileFacts DEF TilesTypeOK
  <2>3. i \notin used[f] \/ f \notin cacheFiles'
    BY <2>1 DEF TilesInv
  <2>4. path' \in [Files -> Nat]
    BY <1>1, <2>1 DEF TilesTypeOK
  <2> HIDE DEF f, i
  <2>. QED
    BY <2>1, <2>2, <2>3, <2>4, TileGiven
<1>3. ASSUME NEW e \in TileEntries, NEW f \in Files, AllocateInFile(e, f) PROVE TilesInv'
  <2> DEFINE S == Indices \ used[f]
             i == Min(S)
  <2>1. /\ next = NoTile /\ f \in cacheFiles /\ used[f] # Indices
        /\ GivesTile(e, f, i) /\ UNCHANGED <<cacheFiles, path, next>>
    BY <1>3 DEF AllocateInFile
  <2>2. S \subseteq Nat /\ S # {}
    <3>1. S # {}
      BY <1>1, <2>1 DEF TilesTypeOK
    <3>2. Indices \subseteq Nat
      BY DEF Indices
    <3>. QED
      BY <3>1, <3>2
  <2>3. i \in S
    <3> HIDE DEF S
    <3>1. \E x \in S : \A y \in S : x <= y
      BY <2>2, LeastExists
    <3>. QED
      BY <3>1 DEF Min
  <2>4. i \in Indices /\ i \notin used[f]
    BY <2>3
  <2>5. path' \in [Files -> Nat] /\ next' = NoTile
    BY <1>1, <2>1 DEF TilesTypeOK
  <2> HIDE DEF i, S
  <2>. QED
    BY <2>1, <2>4, <2>5, TileGiven
<1>4. ASSUME NEW e \in TileEntries, NEW f \in Files, AllocateInNewFile(e, f) PROVE TilesInv'
  <2>1. /\ ~InUse(f) /\ GivesTile(e, f, 0) /\ cacheFiles' = cacheFiles \cup {f}
        /\ path' = [path EXCEPT ![f] = Cardinality(cacheFiles)]
        /\ next' = [file |-> f, index |-> 1]
    BY <1>4 DEF AllocateInNewFile
  <2>2. used[f] = {} /\ f \notin Had /\ f \notin cacheFiles
    BY <2>1 DEF TilesInv, InUse, Had
  <2>3. Cardinality(cacheFiles) \in Nat
    BY <1>1, TilesAssumption, FS_Subset, FS_CardinalityType DEF TilesTypeOK
  <2>4. path' \in [Files -> Nat]
    BY <1>1, <2>1, <2>3 DEF TilesTypeOK
  <2>5. next' \in Tiles /\ next'.file = f /\ next'.index # 0 /\ next'.index \notin used[f]
    BY <2>1, <2>2, TileFacts
  <2>6. 0 \in Indices /\ f \in cacheFiles'
    BY <2>1, TileFacts
  <2>. QED
    BY <2>1, <2>2, <2>4, <2>5, <2>6, TileGiven
<1>5. ASSUME NEW e \in TileEntries, FreeTile(e) PROVE TilesInv'
  <2> DEFINE f == tile[e].file
             i == tile[e].index
  <2>1. /\ tile[e] # NoTile /\ e \notin freed /\ freed' = freed \cup {e}
        /\ used' = IF f \in cacheFiles THEN [used EXCEPT ![f] = @ \ {i}] ELSE used
        /\ cacheFiles' = cacheFiles \/ cacheFiles' = cacheFiles \ {f}
        /\ next' = next \/ (f \in cacheFiles /\ next' = tile[e])
        /\ UNCHANGED <<tile, path, clearing>>
    BY <1>5 DEF FreeTile
  <2>2. f \in Files /\ i \in Indices /\ tile[e] \in Tiles
    BY <1>1, <2>1, TileFacts DEF TilesTypeOK
  <2>3. tile[e] = [file |-> f, index |-> i]
    BY <2>2 DEF Tiles
  <2>4. Live' = Live \ {e} /\ e \in Live
    BY <2>1 DEF Live
  <2>5. cacheFiles' \subseteq cacheFiles /\ cacheFiles \subseteq Files
    BY <1>1, <2>1 DEF TilesTypeOK
  <2>6. TilesTypeOK'
    <3>1. used' \in [Files -> SUBSET Indices]
      BY <1>1, <2>1 DEF TilesTypeOK
    <3>2. next' \in Tiles \cup {NoTile}
      BY <1>1, <2>1, <2>2 DEF TilesTypeOK
    <3>. QED
      BY <1>1, <2>1, <2>5, <3>1, <3>2 DEF TilesTypeOK
  <2>7. Had' = Had
    BY <2>1 DEF Had
  <2>8. \A d \in Live' : tile[d] = tile[e] => f \notin cacheFiles
    BY <2>4 DEF TilesInv
  <2> HIDE DEF f, i
  <2>9. \A g \in Files : used'[g] = IF g = f /\ f \in cacheFiles THEN used[g] \ {i} ELSE used[g]
    BY <1>1, <2>1 DEF TilesTypeOK
  <2>10. ASSUME NEW d \in Live', tile'[d].file \in cacheFiles'
         PROVE  tile'[d].index \in used'[tile'[d].file]
    <3>1. tile'[d] = tile[d] /\ d \in Live /\ tile[d].file \in cacheFiles /\ tile[d].file \in Files
      BY <2>1, <2>4, <2>5, <2>10
    <3>2. tile[d].index \in used[tile[d].file]
      BY <3>1 DEF TilesInv
    <3>3. CASE tile[d].file = f /\ f \in cacheFiles
      <4>1. tile[d] \in Tiles
        BY <1>1, <3>1, TileFacts DEF Live, TilesTypeOK
      <4>2. tile[d].index # i
        <5>1. tile[d] = [file |-> tile[d].file, index |-> tile[d].index]
          BY <4>1 DEF Tiles
        <5>. QED
          BY <2>3, <2>8, <3>3, <5>1
      <4>. QED
        BY <2>9, <3>1, <3>2, <3>3, <4>2
    <3>4. CASE ~(tile[d].file = f /\ f \in cacheFiles)
      BY <2>9, <3>1, <3>2, <3>4
    <3>. QED
      BY <3>3, <3>4
  <2>11. ASSUME NEW g \in cacheFiles', NEW j \in used'[g]
         PROVE  \E d \in Live' : tile'[d] = [file |-> g, index |-> j]
    <3>1. g \in cacheFiles /\ g \in Files
      BY <2>5
    <3>2. j \in used[g] /\ ~(g = f /\ j = i)
      BY <2>9, <2>11, <3>1
    <3>3. PICK d \in Live : tile[d] = [file |-> g, index |-> j]
      BY <3>1, <3>2 DEF TilesInv
    <3>4. d # e
      BY <2>3, <3>2, <3>3
    <3>. QED
      BY <2>1, <2>4, <3>3, <3>4
  <2>12. ASSUME NEW c \in Live', NEW d \in Live', tile'[c] = tile'[d], tile'[c].file \in cacheFiles'
         PROVE  c = d
    BY <2>1, <2>4, <2>5, <2>12 DEF TilesInv
  <2>13. next'.file \in cacheFiles' => next'.index \notin used'[next'.file]
    <3>1. CASE next' = next
      <4>1. ASSUME next.file \in cacheFiles PROVE next.index \notin used'[next.file]
        <5>1. next.index \notin used[next.file] /\ next.file \in Files
          BY <2>5, <4>1 DEF TilesInv
        <5>. QED
          BY <2>9, <5>1
      <4>. QED
        BY <2>5, <3>1, <4>1
    <3>2. CASE f \in cacheFiles /\ next' = tile[e]
      <4>1. next'.file = f /\ next'.index = i
        BY <3>2 DEF f, i
      <4>2. i \notin used'[f]
        BY <2>2, <2>9, <3>2
      <4>. QED
        BY <4>1, <4>2
    <3>. QED
      BY <2>1, <3>1, <3>2
  <2>14. next' # NoTile => next'.file \in Had'
    <3>1. tile[e].file \in Had
      BY DEF Had
    <3>. QED
      BY <2>1, <2>7, <3>1 DEF TilesInv
  <2>15. \A g \in Files \ Had' : used'[g] = {}
    BY <2>7, <2>9 DEF TilesInv
  <2>. QED
    BY <2>6, <2>10, <2>11, <2>12, <2>13, <2>14, <2>15 DEF TilesInv
<1>6. ASSUME NEW e \in TileEntries, ResetFile(e) PROVE TilesInv'
  <2> DEFINE f == tile[e].file
             S == {d \in TileEntries : tile[d].file = f}
             dies == f \notin cacheFiles /\ UseCount(f) = 2
  <2>1. /\ e \in freed /\ freed' = freed \ {e} /\ tile' = [tile EXCEPT ![e] = NoTile]
        /\ used' = IF dies THEN [used EXCEPT ![f] = {}] ELSE used
        /\ path' = IF dies THEN [path EXCEPT ![f] = 0] ELSE path
        /\ next' = IF dies /\ next.file = f THEN NoTile ELSE next
        /\ UNCHANGED <<cacheFiles, clearing>>
    BY <1>6 DEF ResetFile
  <2>2. tile[e] # NoTile /\ f \in Files
    BY <1>1, <2>1, TileFacts DEF TilesTypeOK
  <2>3. ~dies => f \in cacheFiles \/ \E d \in TileEntries : d # e /\ tile[d].file = f
    <3>1. ASSUME f \notin cacheFiles, \A d \in TileEntries : tile[d].file = f => d = e PROVE dies
      <4>1. S = {e}
        BY <3>1
      <4>2. Cardinality(S) = 1
        BY <4>1, FS_Singleton
      <4>. QED
        BY <3>1, <4>2 DEF UseCount
    <3>. QED
      BY <3>1
  <2>4. dies => f \notin cacheFiles
    OBVIOUS
  <2> HIDE DEF dies, f
  <2>5. \A d \in TileEntries : tile'[d] = IF d = e THEN NoTile ELSE tile[d]
    BY <1>1, <2>1 DEF TilesTypeOK
  <2>6. \A g \in Files : used'[g] = IF g = f /\ dies THEN {} ELSE used[g]
    BY <1>1, <2>1 DEF TilesTypeOK
  <2>7. Live' = Live \cup {e} /\ \A d \in Live : d # e /\ tile'[d] = tile[d]
    BY <2>1, <2>5 DEF Live
  <2>8. cacheFiles' = cacheFiles /\ cacheFiles \subseteq Files
    BY <1>1, <2>1 DEF TilesTypeOK
  <2>9. tile'[e] = NoTile /\ NoFile \notin cacheFiles
    BY <2>5, <2>8, TileFacts
  <2>10. \A g \in cacheFiles : used'[g] = used[g]
    BY <2>4, <2>6, <2>8
  <2>11. TilesTypeOK'
    <3>1. freed' \subseteq {d \in TileEntries : tile'[d] # NoTile}
      BY <1>1, <2>1, <2>5 DEF TilesTypeOK
    <3>2. /\ used' \in [Files -> SUBSET Indices] /\ path' \in [Files -> Nat]
          /\ next' \in Tiles \cup {NoTile}
      BY <1>1, <2>1 DEF TilesTypeOK
    <3>3. tile' \in [TileEntries -> Tiles \cup {NoTile}]
      BY <1>1, <2>1 DEF TilesTypeOK
    <3>. QED
      BY <1>1, <2>1, <3>1, <3>2, <3>3 DEF TilesTypeOK
  <2>12. ASSUME NEW d \in Live', tile'[d].file \in cacheFiles'
         PROVE  tile'[d].index \in used'[tile'[d].file]
    <3>1. d # e
      BY <2>8, <2>9, <2>12, TileFacts
    <3>2. d \in Live /\ tile'[d] = tile[d]
      BY <2>7, <3>1
    <3>3. tile[d].index \in used[tile[d].file] /\ tile[d].file \in cacheFiles
      BY <2>8, <2>12, <3>2 DEF TilesInv
    <3>. QED
      BY <2>10, <3>2, <3>3
  <2>13. ASSUME NEW g \in cacheFiles', NEW j \in used'[g]
         PROVE  \E d \in Live' : tile'[d] = [file |-> g, index |-> j]
    <3>1. PICK d \in Live : tile[d] = [file |-> g, index |-> j]
      BY <2>8, <2>10, <2>13 DEF TilesInv
    <3>. QED
      BY <2>7, <3>1
  <2>14. ASSUME NEW c \in Live', NEW d \in Live', tile'[c] = tile'[d], tile'[c].file \in cacheFiles'
         PROVE  c = d
    <3>1. c # e /\ d # e
      BY <2>8, <2>9, <2>14, TileFacts
    <3>2. c \in Live /\ d \in Live /\ tile'[c] = tile[c] /\ tile'[d] = tile[d]
      BY <2>7, <3>1
    <3>3. tile[c] = tile[d] /\ tile[c].file \in cacheFiles
      BY <2>8, <2>14, <3>2
    <3>. QED
      BY <3>2, <3>3 DEF TilesInv
  <2>15. next'.file \in cacheFiles' => next'.index \notin used'[next'.file]
    <3>1. CASE next' = NoTile
      BY <2>8, <2>9, <3>1, TileFacts
    <3>2. CASE next' = next
      BY <2>8, <2>10, <3>2 DEF TilesInv
    <3>. QED
      BY <2>1, <3>1, <3>2
  <2>16. Had \ {f} \subseteq Had'
    BY <2>5, <2>8 DEF Had, f
  <2>17. ~dies => f \in Had'
    BY <2>3, <2>5, <2>8 DEF Had
  <2>18. next' # NoTile => next'.file \in Had'
    BY <2>1, <2>16, <2>17 DEF TilesInv
  <2>19. \A g \in Files \ Had' : used'[g] = {}
    BY <2>6, <2>16, <2>17 DEF TilesInv
  <2>. QED
    BY <2>11, <2>12, <2>13, <2>14, <2>15, <2>18, <2>19 DEF TilesInv
<1>7. CASE SetClearing
  <2>1. UNCHANGED <<tile, freed, cacheFiles, used, path, next>> /\ clearing' \in BOOLEAN
    BY <1>1, <1>7 DEF SetClearing, TilesTypeOK
  <2>. QED
    BY <2>1 DEF TilesInv, TilesTypeOK, Live, Had
<1>. QED
  BY <1>2, <1>3, <1>4, <1>5, <1>6, <1>7 DEF TilesNext

-----------------------------------------------------------------------------
(* The theorems                                                            *)

(* The sums of TilesMatchEntries, from the tiles being apart.              *)
LEMMA TilesAreCounted ==
  ASSUME TilesInv
  PROVE  TilesMatchEntries
<1>1. ASSUME NEW f \in cacheFiles, NEW i \in Indices
      PROVE  Cardinality({e \in Live : tile[e] = [file |-> f, index |-> i]})
                = IF i \in used[f] THEN 1 ELSE 0
  <2> DEFINE S == {e \in Live : tile[e] = [file |-> f, index |-> i]}
  <2>1. [file |-> f, index |-> i].file = f /\ [file |-> f, index |-> i].index = i
    BY DEF TilesInv
  <2>2. \A d, e \in S : d = e
    BY <2>1 DEF TilesInv
  <2>3. i \in used[f] <=> S # {}
    BY <2>1 DEF TilesInv
  <2> HIDE DEF S
  <2>4. CASE S = {}
    BY <2>3, <2>4, FS_EmptySet DEF S
  <2>5. CASE S # {}
    <3>1. PICK e \in S : S = {e}
      BY <2>2, <2>5
    <3>2. Cardinality(S) = 1
      BY <3>1, FS_Singleton
    <3>. QED
      BY <2>3, <2>5, <3>2 DEF S
  <2>. QED
    BY <2>4, <2>5
<1>. QED
  BY <1>1 DEF TilesMatchEntries, Live, TilesInv

(* What holds in every state, in either kind of cache.                     *)
CacheInv == tiled \in BOOLEAN /\ TilesInv /\ MemoryInv /\ WaitsForTheDeleter

(* The cache is empty at first.                                            *)
LEMMA CacheStart ==
  ASSUME Init
  PROVE  CacheInv
<1>1. Range(<<>>) = {} /\ IsInjective(<<>>) /\ <<>> \in Seq(Entries)
  BY DEF Range, IsInjective
<1>2. AnyRequest \in Requests
  BY DEF AnyRequest
<1>3. MemoryTypeOK
  BY <1>1, <1>2 DEF Init, MemoryTypeOK, UserLabels, Threads
<1>4. \A e : HoldersOf(e) = {} \/ e = NoEntry
  BY DEF Init, HoldersOf
<1>5. OwnersInv
  BY <1>1 DEF Init, OwnersInv, Listed, Threads
<1>6. UsersInv
  BY DEF Init, UsersInv, HoldLabels
<1>7. CreatorInv
  BY <1>1 DEF Init, CreatorInv, CreateLabels
<1>8. AnnounceInv
  <2>1. At("announce") = {} /\ HeldAt("announce") = {} /\ At("allocate") = {}
        /\ EmptyAllocated = {} /\ Allocated = {}
    BY DEF Init, At, HeldAt, EmptyAllocated, Allocated
  <2>2. Cardinality({}) = 0
    BY FS_EmptySet
  <2>3. size = 0 /\ twice = 0
    BY DEF Init
  <2>4. Counts(0, 0, 0, 0, 0, 0, 0)
    <3>1. MaxTwice \in Nat
      OBVIOUS
    <3>. QED
      BY <3>1 DEF Counts
  <2>5. AnnounceInv <=> Counts(size, twice, Cardinality(At("announce")),
                               Cardinality(HeldAt("announce")), Cardinality(At("allocate")),
                               Cardinality(EmptyAllocated), Cardinality(Allocated))
    BY CountsOfState
  <2>. QED
    BY <2>1, <2>2, <2>3, <2>4, <2>5
<1>9. WaitsForTheDeleter
  BY DEF Init, WaitsForTheDeleter
<1>10. TilesInv
  <2>1. TilesTypeOK
    BY DEF Init, TilesInit, TilesTypeOK
  <2>. QED
    BY <2>1, TileFacts DEF Init, TilesInit, TilesInv, Live
<1>. QED
  BY <1>3, <1>5, <1>6, <1>7, <1>8, <1>9, <1>10 DEF Init, CacheInv, MemoryInv

(* Every step keeps what holds.                                            *)
LEMMA CacheStep ==
  ASSUME CacheInv, [Next]_vars
  PROVE  CacheInv'
<1> USE DEF CacheInv
<1>1. ASSUME UNCHANGED memoryVars PROVE MemoryInv' /\ WaitsForTheDeleter'
  <2> USE <1>1 DEF memoryVars, userVars, entryVars
  <2>1. MemoryTypeOK'
    BY DEF MemoryInv, MemoryTypeOK, UserLabels, CreateLabels
  <2>2. OwnersInv'
    BY DEF MemoryInv, OwnersInv, Listed, HoldersOf
  <2>3. UsersInv' /\ CreatorInv' /\ WaitsForTheDeleter'
    BY DEF MemoryInv, UsersInv, CreatorInv, WaitsForTheDeleter, HoldLabels, CreateLabels
  <2>4. AnnounceInv'
    BY DEF MemoryInv, AnnounceInv, SizeIsFootprint, At, HeldAt, EmptyAllocated
  <2>. QED
    BY <2>1, <2>2, <2>3, <2>4 DEF MemoryInv
<1>2. ASSUME UNCHANGED tileVars PROVE TilesInv'
  BY <1>2 DEF tileVars, TilesInv, TilesTypeOK, Live, Had
<1>3. CASE MemoryNext /\ UNCHANGED <<tiled, tileVars>>
  BY <1>2, <1>3, TypesKept, OwnersKept, UsersKept, CreatorKept, AnnounceKept, DeleterAwaited
     DEF MemoryInv
<1>4. CASE TilesNext /\ UNCHANGED <<tiled, memoryVars>>
  BY <1>1, <1>4, TilesKept
<1>5. CASE UNCHANGED vars
  BY <1>1, <1>2, <1>5 DEF vars
<1>. QED
  BY <1>3, <1>4, <1>5 DEF Next

(* The invariant holds in every state of a cache.                          *)
THEOREM CacheInvariant == Spec => []CacheInv
<1>1. Init => CacheInv
  BY CacheStart
<1>2. CacheInv /\ [Next]_vars => CacheInv'
  BY CacheStep
<1>. QED
  BY <1>1, <1>2, PTL DEF Spec

(* The size of the cache is what its entries have allocated, and a tile is *)
(* marked as used when one entry has it.                                   *)
THEOREM AccountsAreTrue == Spec => []AccountingInv
<1>1. CacheInv => AccountingInv
  BY TilesAreCounted DEF CacheInv, AccountingInv, TypeOK, TilesInv, MemoryInv, AnnounceInv
<1>. QED
  BY <1>1, CacheInvariant, PTL

(* getOrCreate() never leaves two entries for one request in the table.    *)
THEOREM TableHasNoTwins == Spec => []NoTwins
<1>1. CacheInv => NoTwins
  <2> SUFFICES ASSUME CacheInv, NEW i \in DOMAIN table, NEW j \in DOMAIN table,
                      request[table[i]] = request[table[j]]
               PROVE  i = j
    BY DEF NoTwins
  <2>1. table[i] \in Range(table) /\ table[j] \in Range(table)
    BY DEF Range
  <2>2. table[i] = table[j]
    BY <2>1 DEF CacheInv, MemoryInv, CreatorInv
  <2>. QED
    BY <2>2 DEF CacheInv, MemoryInv, MemoryTypeOK, IsInjective
<1>. QED
  BY <1>1, CacheInvariant, PTL

(* The memory of an entry in use stays, and what is in the table is        *)
(* neither destroyed nor waiting for it.                                   *)
THEOREM EntriesInUseStay == Spec => []UsedEntriesStay
<1>1. CacheInv => UsedEntriesStay
  BY DEF CacheInv, MemoryInv, OwnersInv, UsersInv, UsedEntriesStay, HoldersOf, Listed
<1>. QED
  BY <1>1, CacheInvariant, PTL

(* Who waits for memory will be woken.                                     *)
THEOREM SleepersAreRemembered == Spec => []WaitsForTheDeleter
<1>1. CacheInv => WaitsForTheDeleter
  BY DEF CacheInv
<1>. QED
  BY <1>1, CacheInvariant, PTL
=============================================================================
