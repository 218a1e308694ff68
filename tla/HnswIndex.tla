------------------------------ MODULE HnswIndex ------------------------------
(***************************************************************************)
(* src/hnsw.py: the vector index and the map of its labels to rows of      *)
(* semantic_memory.  The pair lives in memory and in two files that are    *)
(* written one after the other, in place.  A start keeps the pair it finds *)
(* when both files load and hold the same number of entries, and starts    *)
(* from nothing otherwise.                                                 *)
(*                                                                         *)
(* A vector is known by the row whose text was embedded, so the index is a *)
(* function from labels to rows.  hnsw_to_id is the inverse of id_to_hnsw  *)
(* and has no variable.  hnsw_lock is held whenever step is not "idle".    *)
(***************************************************************************)
EXTENDS Integers, FiniteSets

CONSTANTS
  Rows,               \* ids that semantic_memory may give
  InitialCapacities,  \* values KVEN2_HNSW_INITIAL_CAPACITY may have at a start
  MaxCrashes,         \* bound on crashes and exits
  MaxFailures         \* bound on reads, writes, insertions and resizes that fail

ASSUME IndexAssumption ==
  /\ InitialCapacities \subseteq Nat \ {0}
  /\ MaxCrashes \in Nat /\ MaxFailures \in Nat

VARIABLES
  step,        \* what the holder of the lock, or the start, is about to do
  adding,      \* the row add_to_hnsw was called with
  index,       \* hnsw_index: label -> row whose vector it holds
  capacity,    \* max_elements of hnsw_index
  initial,     \* INITIAL_CAPACITY of this process
  idToHnsw,    \* id_to_hnsw
  nextLabel,   \* next_hnsw_id
  indexFile, mapFile,
  crashes, failures

memoryVars == <<adding, index, capacity, initial, idToHnsw, nextLabel>>
indexVars == <<step, memoryVars, indexFile, mapFile, crashes, failures>>

FileStates == {"absent", "broken", "ok"}
Starting == {"loading", "expanding", "checking", "resetMap", "resetIndex"}
Steps == {"down", "idle", "inserting", "savingMap", "savingIndex", "exitIndex", "exitMap"}
           \cup Starting

Empty == [x \in {} |-> x]
Count(f) == Cardinality(DOMAIN f)
Labels == DOMAIN index
Larger(a, b) == IF a >= b THEN a ELSE b

IndexInit ==
  /\ step = "down" /\ adding = 0
  /\ index = Empty /\ capacity = 0 /\ initial = 1
  /\ idToHnsw = Empty /\ nextLabel = 0
  /\ indexFile = [state |-> "absent", vectors |-> Empty, capacity |-> 0]
  /\ mapFile = [state |-> "absent", labels |-> Empty]
  /\ crashes = 0 /\ failures = 0

-----------------------------------------------------------------------------
(* Files.  A file is opened, and so emptied, before it is written in       *)
(* place.  A write that fails leaves the file as it was or unreadable, and *)
(* so does a crash in the middle (Crash).                                  *)

SavedIndex == [state |-> "ok", vectors |-> index, capacity |-> capacity]
SavedMap == [state |-> "ok", labels |-> idToHnsw]
BrokenIndex == [state |-> "broken", vectors |-> Empty, capacity |-> 0]
BrokenMap == [state |-> "broken", labels |-> Empty]

\* Whether something fails here; it is counted.
Fails == failures < MaxFailures /\ failures' = failures + 1

\* save_index, going on to next.  The library may raise, to caught, or say
\* nothing of a write that failed.
SaveIndex(next, caught) ==
  \/ indexFile' = SavedIndex /\ step' = next /\ UNCHANGED failures
  \/ Fails /\ indexFile' \in {indexFile, BrokenIndex} /\ step' \in {next, caught}

\* _save_id_map reports a failure, which its callers ignore or only log.
SaveIdMap(next) ==
  /\ step' = next
  /\ \/ mapFile' = SavedMap /\ UNCHANGED failures
     \/ Fails /\ mapFile' \in {mapFile, BrokenMap}

-----------------------------------------------------------------------------
(* init_hnsw                                                               *)

Start ==
  /\ step = "down"
  /\ step' = "loading"
  /\ initial' \in InitialCapacities
  /\ UNCHANGED <<adding, index, capacity, idToHnsw, nextLabel, indexFile, mapFile, crashes, failures>>

\* _create_new_index and _reset_id_map, in memory; the files follow.
StartAfresh ==
  /\ index' = Empty /\ capacity' = initial
  /\ idToHnsw' = Empty /\ nextLabel' = 0
  /\ step' = "resetMap"

\* hnswlib keeps no capacity with an empty index, which gets the initial one;
\* a smaller index is expanded, and written back at once.
LoadIndex ==
  /\ step = "loading"
  /\ \/ indexFile.state # "ok" /\ StartAfresh /\ UNCHANGED failures
     \/ indexFile.state = "ok" /\ StartAfresh /\ Fails
     \/ /\ indexFile.state = "ok"
        /\ index' = indexFile.vectors
        /\ capacity' = IF index' = Empty THEN initial ELSE Larger(initial, indexFile.capacity)
        /\ idToHnsw' = Empty /\ nextLabel' = 0
        /\ step' = IF index' # Empty /\ indexFile.capacity < initial
                   THEN "expanding" ELSE "checking"
        /\ UNCHANGED failures
  /\ UNCHANGED <<adding, initial, indexFile, mapFile, crashes>>

SaveExpanded ==
  /\ step = "expanding"
  /\ \/ SaveIndex("checking", "checking") /\ UNCHANGED <<index, capacity, idToHnsw, nextLabel>>
     \/ Fails /\ StartAfresh /\ indexFile' \in {indexFile, BrokenIndex}
  /\ UNCHANGED <<adding, initial, mapFile, crashes>>

\* Mutant: the index is kept whatever the map holds.
SamePairAnyCount(vectors, labels) == vectors # <<>>

\* _check_integrity compares the number of entries, and nothing else.
SamePair(vectors, labels) == Count(vectors) = Count(labels)

LargestLabel(labels) == {m \in {0} \cup {labels[r] : r \in DOMAIN labels} :
                           \A r \in DOMAIN labels : labels[r] <= m}

\* _load_id_map, and the check of the pair.
CheckPair ==
  /\ step = "checking"
  /\ \/ /\ mapFile.state = "ok" /\ SamePair(index, mapFile.labels)
        /\ idToHnsw' = mapFile.labels
        /\ nextLabel' \in LargestLabel(mapFile.labels)
        /\ step' = "idle"
        /\ UNCHANGED <<index, capacity, failures>>
     \/ /\ ~(mapFile.state = "ok" /\ SamePair(index, mapFile.labels))
        /\ StartAfresh /\ UNCHANGED failures
     \/ mapFile.state = "ok" /\ StartAfresh /\ Fails
  /\ UNCHANGED <<adding, initial, indexFile, mapFile, crashes>>

ResetMapFile ==
  /\ step = "resetMap"
  /\ SaveIdMap("resetIndex")
  /\ UNCHANGED <<memoryVars, indexFile, crashes>>

\* An empty index that cannot be saved is used all the same.
ResetIndexFile ==
  /\ step = "resetIndex"
  /\ SaveIndex("idle", "idle")
  /\ UNCHANGED <<memoryVars, mapFile, crashes>>

-----------------------------------------------------------------------------
(* add_to_hnsw, under the lock                                             *)

\* _next_capacity doubles from the current or the initial capacity.
NextCapacity(required, current) ==
  IF required <= current THEN current
  ELSE LET doubled == {Larger(current, initial) * 2^k : k \in 0..required}
       IN  CHOOSE c \in doubled :
             c >= required /\ \A d \in doubled : d >= required => c <= d

\* The capacity is grown and the label is taken before the vector is
\* inserted.  A resize that raises gives the lock back with nothing changed.
AddToHnsw(row) ==
  /\ step = "idle"
  /\ adding' = row
  /\ \/ /\ row \in DOMAIN idToHnsw
        /\ step' = "inserting"
        /\ UNCHANGED <<capacity, idToHnsw, nextLabel, failures>>
     \/ /\ row \notin DOMAIN idToHnsw
        /\ step' = "inserting"
        /\ capacity' = NextCapacity(Count(index) + 1, capacity)
        /\ nextLabel' = nextLabel + 1
        /\ idToHnsw' = [r \in DOMAIN idToHnsw \cup {row} |->
                          IF r = row THEN nextLabel + 1 ELSE idToHnsw[r]]
        /\ UNCHANGED failures
     \/ /\ row \notin DOMAIN idToHnsw
        /\ NextCapacity(Count(index) + 1, capacity) # capacity /\ Fails
        /\ UNCHANGED <<step, capacity, idToHnsw, nextLabel>>
  /\ UNCHANGED <<index, initial, indexFile, mapFile, crashes>>

\* Mutant: the vector gets the label of the previous insertion.
InsertedAtPrevious == LET label == Larger(1, idToHnsw[adding] - 1)
                      IN [l \in Labels \cup {label} |-> IF l = label THEN adding ELSE index[l]]

\* add_items replaces the vector of a label the index already holds.
Inserted == LET label == idToHnsw[adding]
            IN [l \in Labels \cup {label} |-> IF l = label THEN adding ELSE index[l]]

\* An exception gives the lock back and leaves the label in the map; the
\* index raises when it is full.
Insert ==
  /\ step = "inserting"
  /\ \/ /\ Count(Inserted) <= capacity
        /\ index' = Inserted
        /\ step' = "savingMap"
        /\ UNCHANGED failures
     \/ /\ (Count(Inserted) > capacity /\ failures' = failures + 1) \/ Fails
        /\ step' = "idle"
        /\ UNCHANGED index
  /\ UNCHANGED <<adding, capacity, initial, idToHnsw, nextLabel, indexFile, mapFile, crashes>>

SaveAddedMap ==
  /\ step = "savingMap"
  /\ SaveIdMap("savingIndex")
  /\ UNCHANGED <<memoryVars, indexFile, crashes>>

\* The check of the pair that follows only logs.
SaveAddedIndex ==
  /\ step = "savingIndex"
  /\ SaveIndex("idle", "idle")
  /\ UNCHANGED <<memoryVars, mapFile, crashes>>

-----------------------------------------------------------------------------
(* save_hnsw, when the process exits: the index first, then the map        *)

Exit ==
  /\ step = "idle" /\ crashes < MaxCrashes
  /\ step' = "exitIndex"
  /\ crashes' = crashes + 1
  /\ UNCHANGED <<memoryVars, indexFile, mapFile, failures>>

SaveExitIndex ==
  /\ step = "exitIndex"
  /\ SaveIndex("exitMap", "down")
  /\ UNCHANGED <<memoryVars, mapFile, crashes>>

SaveExitMap ==
  /\ step = "exitMap"
  /\ SaveIdMap("down")
  /\ UNCHANGED <<memoryVars, indexFile, crashes>>

\* The process dies: the file it was writing may be left truncated.
Crash ==
  /\ step # "down" /\ crashes < MaxCrashes
  /\ step' = "down"
  /\ crashes' = crashes + 1
  /\ \/ UNCHANGED <<indexFile, mapFile>>
     \/ /\ step \in {"expanding", "resetIndex", "savingIndex", "exitIndex"}
        /\ indexFile' = BrokenIndex
        /\ UNCHANGED mapFile
     \/ /\ step \in {"resetMap", "savingMap", "exitMap"}
        /\ mapFile' = BrokenMap
        /\ UNCHANGED indexFile
  /\ UNCHANGED <<memoryVars, failures>>

-----------------------------------------------------------------------------
IndexStep ==
  \/ LoadIndex \/ SaveExpanded \/ CheckPair \/ ResetMapFile \/ ResetIndexFile
  \/ Insert \/ SaveAddedMap \/ SaveAddedIndex
  \/ SaveExitIndex \/ SaveExitMap

IndexNext == Start \/ IndexStep \/ Exit \/ Crash \/ \E row \in Rows : AddToHnsw(row)

IndexSpec == IndexInit /\ [][IndexNext]_indexVars

-----------------------------------------------------------------------------
IndexTypeOK ==
  /\ step \in Steps
  /\ DOMAIN idToHnsw \subseteq Rows
  /\ \A r \in DOMAIN idToHnsw : idToHnsw[r] \in 1..nextLabel
  /\ \A l \in Labels : index[l] \in Rows
  /\ capacity \in Nat /\ nextLabel \in Nat
  /\ indexFile.state \in FileStates /\ mapFile.state \in FileStates
  /\ crashes \in 0..MaxCrashes /\ failures \in 0..MaxFailures

\* What get_nearest_neighbors can return: the rows that the map gives for
\* labels of the index, each with the row whose vector was matched.  A label
\* without a row is skipped.
Hits == {[found |-> r, matched |-> index[idToHnsw[r]]] :
           r \in {q \in DOMAIN idToHnsw : idToHnsw[q] \in Labels}}

\* Every label of the index is that of the row whose vector it holds, and
\* every row of the map has its vector.
SubPair(vectors, labels) ==
  \A l \in DOMAIN vectors : vectors[l] \in DOMAIN labels /\ labels[vectors[l]] = l
OwnPair(vectors, labels) ==
  /\ SubPair(vectors, labels)
  /\ \A r \in DOMAIN labels : labels[r] \in DOMAIN vectors /\ vectors[labels[r]] = r

\* A search answers a row with that row's own vector.  In the first life of
\* the process this is so whatever fails; wherever the process was killed and
\* started again it is so as long as nothing has failed, and then a search
\* misses no row of the map either: a pair of files that a start keeps is a
\* pair that was written together (hnsw.py, "Recreating index to avoid wrong
\* DB mappings").
PairMatches ==
  step = "idle" =>
    /\ crashes = 0 => \A hit \in Hits : hit.found = hit.matched
    /\ failures = 0 => OwnPair(index, idToHnsw)

\* The same through kills and failures; it does not hold: a reset whose write fails,
\* between two crashes, leaves two files of the same size that were not
\* written together.
PairAlwaysMatches == step = "idle" => \A hit \in Hits : hit.found = hit.matched

\* The index never holds more vectors than it has room for, whatever
\* capacity the process that loads it was configured with.
FitsCapacity == step \notin {"down", "loading"} => Count(index) <= capacity

\* The files of a stopped process name the same rows; it does not hold: the
\* map is written before the index.
NoOrphanMap ==
  step = "loading" /\ mapFile.state = "ok" /\ indexFile.state = "ok" =>
    \A r \in DOMAIN mapFile.labels : mapFile.labels[r] \in DOMAIN indexFile.vectors
=============================================================================
