------------------------------ MODULE TileFiles ------------------------------
(***************************************************************************)
(* The tiles of the viewer cache: entries of one size, allocated in a few  *)
(* large files (Cache::allocTile() and freeTile()).  Each step has         *)
(* _tileCacheMutex.  Threads allocate the tile of an entry when they have  *)
(* created it; the last pointer to an entry frees it, from any thread.     *)
(***************************************************************************)
EXTENDS Naturals, FiniteSets, FiniteSetsExt

CONSTANTS
    TileEntries,    \* what may have a tile: bounds the tiles in use at once
    TilesPerFile,   \* NATRON_TILE_CACHE_FILE_SIZE_BYTES / _tileByteSize
    Files,          \* bounds the files in use at once
    NoFile

ASSUME TilesAssumption ==
    /\ IsFiniteSet(TileEntries) /\ IsFiniteSet(Files) /\ NoFile \notin Files
    /\ TilesPerFile \in Nat \ {0, 1}

VARIABLES
    tile,           \* of each entry: _cacheFile and _cacheFileDataOffset
    freed,          \* entries that have freed their tile, but still point to its file
    cacheFiles,     \* _cacheFiles
    used, path,     \* of each file: usedTiles, and the number in its path
    next,           \* _nextAvailableCacheFile, _nextAvailableCacheFileIndex
    clearing        \* _clearingCache

tileVars == <<tile, freed, cacheFiles, used, path, next, clearing>>

Indices == 0 .. TilesPerFile - 1
Tiles == [file : Files, index : Indices]
NoTile == [file |-> NoFile, index |-> 0]

TilesTypeOK ==
    /\ tile \in [TileEntries -> Tiles \cup {NoTile}]
    /\ freed \subseteq {e \in TileEntries : tile[e] # NoTile}
    /\ cacheFiles \subseteq Files
    /\ used \in [Files -> SUBSET Indices] /\ path \in [Files -> Nat]
    /\ next \in Tiles \cup {NoTile}
    /\ clearing \in BOOLEAN

TilesInit ==
    /\ tile = [e \in TileEntries |-> NoTile] /\ freed = {}
    /\ cacheFiles = {} /\ used = [f \in Files |-> {}] /\ path = [f \in Files |-> 0]
    /\ next = NoTile
    /\ clearing = FALSE

---------------------------------------------------------------------------
(* allocTile(): the tile remembered, if its file lives; or the first free  *)
(* one of a file (they are in the order of their addresses); or a new file.*)

GivesTile(e, f, i) ==
    /\ tile[e] = NoTile
    /\ tile' = [tile EXCEPT ![e] = [file |-> f, index |-> i]]
    /\ used' = [used EXCEPT ![f] = @ \cup {i}]
    /\ UNCHANGED <<freed, clearing>>

NextGiven_Kept == next
NextGiven == NoTile

AllocateRemembered(e) ==
    /\ next # NoTile
    /\ GivesTile(e, next.file, next.index)
    /\ next' = NextGiven
    /\ UNCHANGED <<cacheFiles, path>>

AllocateInFile(e, f) ==
    /\ next = NoTile
    /\ f \in cacheFiles /\ used[f] # Indices
    /\ GivesTile(e, f, Min(Indices \ used[f]))
    /\ UNCHANGED <<cacheFiles, path, next>>

InUse(f) == f \in cacheFiles \/ \E e \in TileEntries : tile[e].file = f

(* The path of a new file is made of the number of files there are.        *)
AllocateInNewFile(e, f) ==
    /\ next = NoTile
    /\ \A g \in cacheFiles : used[g] = Indices
    /\ ~InUse(f)
    /\ GivesTile(e, f, 0)
    /\ cacheFiles' = cacheFiles \cup {f}
    /\ path' = [path EXCEPT ![f] = Cardinality(cacheFiles)]
    /\ next' = [file |-> f, index |-> 1]

---------------------------------------------------------------------------
(* freeTile(), from the destructor of an entry                             *)

(* use_count() of the file: the entries that point to it, and _cacheFiles. *)
UseCount(f) == Cardinality({e \in TileEntries : tile[e].file = f}) + 1

(* A file that clear() has removed already is left alone; one without      *)
(* other users is removed by clear() only, and otherwise flushed; one with *)
(* other users is remembered.                                              *)
FreeTile(e) ==
    LET f == tile[e].file IN
    /\ tile[e] # NoTile /\ e \notin freed
    /\ freed' = freed \cup {e}
    /\ used' = IF f \in cacheFiles THEN [used EXCEPT ![f] = @ \ {tile[e].index}] ELSE used
    /\ cacheFiles' = IF UseCount(f) <= 2 /\ clearing THEN cacheFiles \ {f} ELSE cacheFiles
    /\ next' = IF f \in cacheFiles /\ UseCount(f) > 2 THEN tile[e] ELSE next
    /\ UNCHANGED <<tile, path, clearing>>

(* _cacheFile.reset(), without the mutex.  A file dies with its last       *)
(* pointer, and the weak pointer to it is null from then on.               *)
ResetFile(e) ==
    LET f == tile[e].file
        dies == f \notin cacheFiles /\ UseCount(f) = 2
    IN /\ e \in freed
       /\ freed' = freed \ {e} /\ tile' = [tile EXCEPT ![e] = NoTile]
       /\ used' = IF dies THEN [used EXCEPT ![f] = {}] ELSE used
       /\ path' = IF dies THEN [path EXCEPT ![f] = 0] ELSE path
       /\ next' = IF dies /\ next.file = f THEN NoTile ELSE next
       /\ UNCHANGED <<cacheFiles, clearing>>

(* clear() says that it is at work, and that it is over.                   *)
SetClearing ==
    /\ clearing' = ~clearing
    /\ UNCHANGED <<tile, freed, cacheFiles, used, path, next>>

TilesNext ==
    \/ \E e \in TileEntries :
          \/ AllocateRemembered(e)
          \/ \E f \in Files : AllocateInFile(e, f) \/ AllocateInNewFile(e, f)
          \/ FreeTile(e) \/ ResetFile(e)
    \/ SetClearing

---------------------------------------------------------------------------
(* "A value of true means that a tile is used by a cache entry": by one,   *)
(* and the tile remembered for the next allocation is free.                *)
TilesMatchEntries ==
    /\ \A f \in cacheFiles, i \in Indices :
          Cardinality({e \in TileEntries \ freed : tile[e] = [file |-> f, index |-> i]})
              = IF i \in used[f] THEN 1 ELSE 0
    /\ next.file \in cacheFiles => next.index \notin used[next.file]

(* Holds without clear() only: two entries never have the same tile of the *)
(* same file of the disk.                                                  *)
NoTileShared ==
    \A d, e \in TileEntries \ freed :
        (tile[d] # NoTile /\ tile[e] # NoTile /\ tile[d].index = tile[e].index
           /\ path[tile[d].file] = path[tile[e].file]) => d = e

(* Holds without clear() only: an entry's tile is in a file of the cache.  *)
TilesAreInCache ==
    \A e \in TileEntries \ freed : tile[e] # NoTile => tile[e].file \in cacheFiles
=============================================================================
