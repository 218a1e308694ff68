---------------------------- MODULE Memory_proofs ----------------------------
(***************************************************************************)
(* Index and memory, for any rows, capacities, turns, extractions and      *)
(* interleavings.                                                          *)
(*                                                                         *)
(* The index.  However the process is killed and restarted, a vector index *)
(* that the code accepts holds, for each row of its map, that row's own    *)
(* vector, as long as nothing has failed.  The check at start compares     *)
(* two counts.  It is enough because the files on the disk are always in   *)
(* one of two relations (FilesAgree): the map is empty, or the vectors of  *)
(* the index file are all in the map file.  In both, equal counts leave no *)
(* room for a difference (SameCountSamePair).  In the first life of the    *)
(* process no file is read, and what fails leaves rows without a vector    *)
(* but no vector under another row's label (IndexFirstLife).                    *)
(*                                                                         *)
(* The memory.  Every step of it is a step of the index or leaves the      *)
(* index alone.  What a turn may still save is tied to what it has saved   *)
(* (TurnPart), what a consolidation works on to the rows there are         *)
(* (SemanticInv).                                                          *)
(***************************************************************************)
EXTENDS Memory, FoldLemmas, FiniteSetTheorems

\* A file of either kind, whatever it holds.
SoundIndexFile(file) == IsFiniteSet(DOMAIN file.vectors)
SoundMapFile(file) ==
  IsFiniteSet(DOMAIN file.labels) /\ \A r \in DOMAIN file.labels : file.labels[r] \in Nat

\* The largest label is known, and every domain is finite.
LabelsBounded ==
  /\ nextLabel \in Nat /\ failures \in Nat /\ crashes \in Nat
  /\ \A r \in DOMAIN idToHnsw : idToHnsw[r] \in Nat /\ idToHnsw[r] <= nextLabel
  /\ IsFiniteSet(DOMAIN index) /\ IsFiniteSet(DOMAIN idToHnsw)
  /\ SoundIndexFile(indexFile) /\ SoundMapFile(mapFile)

\* What a start can find in the files.
FilesAgree ==
  indexFile.state = "ok" /\ mapFile.state = "ok" =>
    DOMAIN mapFile.labels = {} \/ SubPair(indexFile.vectors, mapFile.labels)

IndexSaved == indexFile.state = "ok" /\ indexFile.vectors = index
MapSaved == mapFile.state = "ok" /\ mapFile.labels = idToHnsw

\* What holds in memory, and between memory and files, at each step.
StepInv ==
  /\ step \in {"idle", "exitIndex", "exitMap"} =>
       OwnPair(index, idToHnsw) /\ IndexSaved /\ MapSaved
  /\ step = "inserting" =>
       /\ adding \in DOMAIN idToHnsw /\ SubPair(index, idToHnsw) /\ IndexSaved
       /\ \A r \in DOMAIN idToHnsw : r # adding =>
            /\ idToHnsw[r] \in DOMAIN index /\ index[idToHnsw[r]] = r
            /\ idToHnsw[r] # idToHnsw[adding]
  /\ step = "savingMap" =>
       /\ OwnPair(index, idToHnsw)
       /\ indexFile.state = "ok" /\ SubPair(indexFile.vectors, idToHnsw)
  /\ step = "savingIndex" => OwnPair(index, idToHnsw) /\ MapSaved
  /\ step \in {"expanding", "checking"} => IndexSaved
  /\ step \in {"resetMap", "resetIndex"} => DOMAIN index = {} /\ DOMAIN idToHnsw = {}
  /\ step = "resetIndex" => MapSaved

\* Until the process ends there are no files to start from.
IndexFirstLife ==
  /\ step \in {"down", "loading"} => indexFile.state = "absent"
  /\ step \notin {"expanding", "checking", "exitIndex", "exitMap"}
  /\ SubPair(index, idToHnsw)
  /\ \A r, q \in DOMAIN idToHnsw : idToHnsw[r] = idToHnsw[q] => r = q
  /\ step = "inserting" => adding \in DOMAIN idToHnsw

IndexInv ==
  /\ LabelsBounded
  /\ failures = 0 => FilesAgree /\ StepInv
  /\ crashes = 0 => IndexFirstLife

-----------------------------------------------------------------------------
\* Vectors that are all in the map are the whole map when there are as many.
LEMMA SameCountSamePair ==
  ASSUME NEW v, NEW m, IsFiniteSet(DOMAIN v), IsFiniteSet(DOMAIN m),
         SubPair(v, m), Count(v) = Count(m)
  PROVE OwnPair(v, m)
<1> DEFINE f == [l \in DOMAIN v |-> v[l]]
<1>1. f \in [DOMAIN v -> DOMAIN m] BY DEF SubPair
<1>2. \A a, b \in DOMAIN v : f[a] = f[b] => a = b BY DEF SubPair
<1>3. f \in Injection(DOMAIN v, DOMAIN m) BY <1>1, <1>2 DEF Injection, IsInjective
<1>4. f \in Surjection(DOMAIN v, DOMAIN m) BY <1>3, FS_Injection DEF Count
<1>5. ASSUME NEW r \in DOMAIN m PROVE m[r] \in DOMAIN v /\ v[m[r]] = r
  <2>1. PICK l \in DOMAIN v : f[l] = r BY <1>4 DEF Surjection
  <2> QED BY <2>1 DEF SubPair
<1> QED BY <1>5 DEF OwnPair

-----------------------------------------------------------------------------
\* Each action keeps the bounds: a label is taken from the counter, and
\* every domain grows by one row or is read from a file.
LEMMA LabelsBoundedStep == LabelsBounded /\ IndexNext => LabelsBounded'
<1> SUFFICES ASSUME LabelsBounded, IndexNext PROVE LabelsBounded'
  OBVIOUS
<1> USE DEF LabelsBounded
<1>0. DOMAIN Empty = {} /\ IsFiniteSet({}) BY FS_EmptySet DEF Empty
<1>00. SoundIndexFile(BrokenIndex) /\ SoundMapFile(BrokenMap)
  BY <1>0 DEF BrokenIndex, BrokenMap, SoundIndexFile, SoundMapFile
<1>01. SoundIndexFile(SavedIndex) /\ SoundMapFile(SavedMap)
  BY DEF SavedIndex, SavedMap, SoundIndexFile, SoundMapFile
<1> DEFINE Files == /\ SoundIndexFile(indexFile') /\ SoundMapFile(mapFile')
                    /\ failures' \in Nat /\ crashes' \in Nat
<1>1. ASSUME UNCHANGED memoryVars, Files PROVE LabelsBounded'
  BY <1>1 DEF memoryVars
<1>2. ASSUME NEW next, NEW caught, SaveIndex(next, caught), UNCHANGED <<mapFile, crashes>>
      PROVE  Files
  BY <1>00, <1>01, <1>2 DEF SaveIndex, Fails
<1>3. ASSUME NEW next, SaveIdMap(next), UNCHANGED <<indexFile, crashes>> PROVE Files
  BY <1>00, <1>01, <1>3 DEF SaveIdMap, Fails
<1>4. CASE Start BY <1>4 DEF Start
<1>5. CASE LoadIndex BY <1>0, <1>5 DEF LoadIndex, StartAfresh, Fails, SoundIndexFile
<1>6. CASE SaveExpanded
  <2>1. CASE SaveIndex("checking", "checking") /\ UNCHANGED <<index, capacity, idToHnsw, nextLabel>>
    BY <1>1, <1>2, <1>6, <2>1 DEF SaveExpanded, memoryVars
  <2>2. CASE Fails /\ StartAfresh /\ indexFile' \in {indexFile, BrokenIndex}
    BY <1>0, <1>00, <1>6, <2>2 DEF SaveExpanded, StartAfresh, Fails
  <2> QED BY <1>6, <2>1, <2>2 DEF SaveExpanded
<1>7. CASE CheckPair BY <1>0, <1>7 DEF CheckPair, StartAfresh, LargestLabel, Fails, SoundMapFile
<1>8. CASE ResetMapFile BY <1>1, <1>3, <1>8 DEF ResetMapFile
<1>9. CASE ResetIndexFile BY <1>1, <1>2, <1>9 DEF ResetIndexFile
<1>10. CASE SaveAddedMap BY <1>1, <1>3, <1>10 DEF SaveAddedMap
<1>11. CASE SaveAddedIndex BY <1>1, <1>2, <1>11 DEF SaveAddedIndex
<1>12. CASE SaveExitIndex BY <1>1, <1>2, <1>12 DEF SaveExitIndex
<1>13. CASE SaveExitMap BY <1>1, <1>3, <1>13 DEF SaveExitMap
<1>14. CASE Exit BY <1>1, <1>14 DEF Exit
<1>15. CASE Crash
  <2>1. Files
    BY <1>0, <1>00, <1>15 DEF Crash
  <2> QED BY <1>1, <1>15, <2>1 DEF Crash
<1>16. CASE Insert
  <2>1. IsFiniteSet(DOMAIN Inserted)
    <3>1. DOMAIN Inserted = Labels \cup {idToHnsw[adding]} BY DEF Inserted
    <3> QED BY <3>1, FS_AddElement DEF Labels
  <2> QED BY <1>16, <2>1 DEF Insert, Fails
<1>17. ASSUME NEW row \in Rows, AddToHnsw(row) PROVE LabelsBounded'
  <2>1. CASE UNCHANGED <<idToHnsw, nextLabel>> BY <1>17, <2>1 DEF AddToHnsw, Fails
  <2>2. CASE ~UNCHANGED <<idToHnsw, nextLabel>>
    <3>1. /\ DOMAIN idToHnsw' = DOMAIN idToHnsw \cup {row}
          /\ \A r \in DOMAIN idToHnsw' :
               idToHnsw'[r] = IF r = row THEN nextLabel + 1 ELSE idToHnsw[r]
          /\ nextLabel' = nextLabel + 1
          /\ UNCHANGED <<index, indexFile, mapFile, failures, crashes>>
      BY <1>17, <2>2 DEF AddToHnsw
    <3>2. IsFiniteSet(DOMAIN idToHnsw') BY <3>1, FS_AddElement
    <3>3. \A r \in DOMAIN idToHnsw' : idToHnsw'[r] \in Nat /\ idToHnsw'[r] <= nextLabel'
      BY <3>1
    <3> QED BY <3>1, <3>2, <3>3
  <2> QED BY <2>1, <2>2
<1> QED
  BY <1>4, <1>5, <1>6, <1>7, <1>8, <1>9, <1>10, <1>11, <1>12, <1>13, <1>14, <1>15, <1>16,
     <1>17 DEF IndexNext, IndexStep

\* No step takes a failure or a crash back.
LEMMA CountsGrow ==
  IndexNext => /\ failures' = failures \/ failures' = failures + 1
               /\ crashes' = crashes \/ crashes' = crashes + 1
<1> SUFFICES ASSUME IndexNext
             PROVE  /\ failures' = failures \/ failures' = failures + 1
                    /\ crashes' = crashes \/ crashes' = crashes + 1
  OBVIOUS
<1>1. CASE Start \/ LoadIndex \/ CheckPair \/ Exit \/ Crash
  BY <1>1 DEF Start, LoadIndex, CheckPair, Exit, Crash, Fails
<1>2. CASE SaveExpanded BY <1>2 DEF SaveExpanded, SaveIndex, Fails
<1>3. CASE ResetMapFile \/ SaveAddedMap \/ SaveExitMap
  BY <1>3 DEF ResetMapFile, SaveAddedMap, SaveExitMap, SaveIdMap, Fails
<1>4. CASE ResetIndexFile \/ SaveAddedIndex \/ SaveExitIndex
  BY <1>4 DEF ResetIndexFile, SaveAddedIndex, SaveExitIndex, SaveIndex, Fails
<1>5. CASE Insert BY <1>5 DEF Insert, Fails
<1>6. CASE \E row \in Rows : AddToHnsw(row) BY <1>6 DEF AddToHnsw, Fails
<1> QED BY <1>1, <1>2, <1>3, <1>4, <1>5, <1>6 DEF IndexNext, IndexStep

-----------------------------------------------------------------------------
\* Starting: what is loaded is what the index file holds, and the count
\* decides between keeping the pair and emptying both files.
LEMMA StartingKeepsPair ==
  /\ LabelsBounded /\ FilesAgree /\ StepInv /\ failures' = 0 /\ failures = 0
  /\ Start \/ LoadIndex \/ SaveExpanded \/ CheckPair \/ ResetMapFile \/ ResetIndexFile
  => FilesAgree' /\ StepInv'
<1> SUFFICES ASSUME LabelsBounded, FilesAgree, StepInv, failures' = 0, failures = 0,
                    Start \/ LoadIndex \/ SaveExpanded \/ CheckPair
                      \/ ResetMapFile \/ ResetIndexFile
             PROVE FilesAgree' /\ StepInv'
  OBVIOUS
<1>0. DOMAIN Empty = {} BY DEF Empty
<1> USE DEF StepInv, FilesAgree, IndexSaved, MapSaved
<1>1. CASE Start BY <1>1 DEF Start
<1>10. ~Fails BY DEF Fails, LabelsBounded
<1>2. CASE LoadIndex BY <1>0, <1>2, <1>10 DEF LoadIndex, StartAfresh
<1>3. CASE SaveExpanded BY <1>3, <1>10 DEF SaveExpanded, SaveIndex, SavedIndex
<1>4. CASE CheckPair
  <2>1. CASE mapFile.state = "ok" /\ SamePair(index, mapFile.labels)
    <3>1. /\ idToHnsw' = mapFile.labels /\ step' = "idle"
          /\ UNCHANGED <<index, indexFile, mapFile>>
      BY <1>4, <1>10, <2>1 DEF CheckPair
    <3>2. indexFile.state = "ok" /\ indexFile.vectors = index BY <1>4 DEF CheckPair
    <3>3. Count(index) = Count(mapFile.labels) BY <2>1 DEF SamePair
    <3>4. IsFiniteSet(DOMAIN index) /\ IsFiniteSet(DOMAIN mapFile.labels)
      BY DEF LabelsBounded, SoundMapFile
    <3>5. OwnPair(index, mapFile.labels)
      <4>1. CASE SubPair(index, mapFile.labels) BY <3>3, <3>4, <4>1, SameCountSamePair
      <4>2. CASE DOMAIN mapFile.labels = {}
        <5>1. DOMAIN index = {} BY <3>3, <3>4, <4>2, FS_EmptySet DEF Count
        <5> QED BY <4>2, <5>1 DEF OwnPair, SubPair
      <4> QED BY <2>1, <3>2, <4>1, <4>2
    <3> QED BY <2>1, <3>1, <3>2, <3>5
  <2>2. CASE ~(mapFile.state = "ok" /\ SamePair(index, mapFile.labels))
    BY <1>0, <1>4, <1>10, <2>2 DEF CheckPair, StartAfresh
  <2> QED BY <2>1, <2>2
<1>5. CASE ResetMapFile
  BY <1>5, <1>10 DEF ResetMapFile, SaveIdMap, SavedMap, memoryVars
<1>6. CASE ResetIndexFile
  BY <1>6, <1>10 DEF ResetIndexFile, SaveIndex, SavedIndex, memoryVars, OwnPair, SubPair
<1> QED BY <1>1, <1>2, <1>3, <1>4, <1>5, <1>6

\* Taking a label: it is beyond every label in use, so no vector has it.
LEMMA AddKeepsPair ==
  ASSUME NEW row \in Rows, LabelsBounded, FilesAgree, StepInv, AddToHnsw(row),
         failures' = 0, failures = 0
  PROVE FilesAgree' /\ StepInv'
<1> USE DEF StepInv, FilesAgree, IndexSaved, MapSaved
<1>1. /\ step = "idle" /\ step' = "inserting" /\ adding' = row
      /\ OwnPair(index, idToHnsw) /\ indexFile.state = "ok" /\ indexFile.vectors = index
      /\ UNCHANGED <<index, indexFile, mapFile>>
  BY DEF AddToHnsw, Fails
<1>2. CASE row \in DOMAIN idToHnsw
  <2>1. idToHnsw' = idToHnsw BY <1>2 DEF AddToHnsw
  <2>2. \A r, q \in DOMAIN idToHnsw : idToHnsw[r] = idToHnsw[q] => r = q
    BY <1>1 DEF OwnPair
  <2>3. FilesAgree' BY <1>1
  <2>4. SubPair(index', idToHnsw') BY <1>1, <2>1 DEF OwnPair
  <2>5. \A r \in DOMAIN idToHnsw' : r # adding' =>
          /\ idToHnsw'[r] \in DOMAIN index' /\ index'[idToHnsw'[r]] = r
          /\ idToHnsw'[r] # idToHnsw'[adding']
    BY <1>1, <1>2, <2>1, <2>2 DEF OwnPair
  <2> QED BY <1>1, <1>2, <2>1, <2>3, <2>4, <2>5
<1>3. CASE row \notin DOMAIN idToHnsw
  <2>1. /\ DOMAIN idToHnsw' = DOMAIN idToHnsw \cup {row}
        /\ \A r \in DOMAIN idToHnsw' :
             idToHnsw'[r] = IF r = row THEN nextLabel + 1 ELSE idToHnsw[r]
    BY <1>3 DEF AddToHnsw, Fails
  <2>2. \A r \in DOMAIN idToHnsw : idToHnsw[r] # nextLabel + 1
    BY DEF LabelsBounded
  <2>3. FilesAgree' BY <1>1
  <2>4. SubPair(index', idToHnsw')
    BY <1>1, <1>3, <2>1 DEF OwnPair, SubPair
  <2>5. \A r \in DOMAIN idToHnsw' : r # adding' =>
          /\ idToHnsw'[r] \in DOMAIN index' /\ index'[idToHnsw'[r]] = r
          /\ idToHnsw'[r] # idToHnsw'[adding']
    BY <1>1, <1>3, <2>1, <2>2 DEF OwnPair
  <2> QED BY <1>1, <2>1, <2>3, <2>4, <2>5
<1> QED BY <1>2, <1>3

\* Inserting the vector completes the pair in memory.
LEMMA InsertKeepsPair ==
  LabelsBounded /\ FilesAgree /\ StepInv /\ Insert /\ failures' = 0 /\ failures = 0
    => FilesAgree' /\ StepInv'
<1> SUFFICES ASSUME LabelsBounded, FilesAgree, StepInv, Insert, failures' = 0, failures = 0
             PROVE FilesAgree' /\ StepInv'
  OBVIOUS
<1> DEFINE label == idToHnsw[adding]
<1>1. /\ step = "inserting" /\ step' = "savingMap" /\ index' = Inserted
      /\ UNCHANGED <<idToHnsw, adding, indexFile, mapFile>>
  BY DEF Insert, Fails
<1>2. /\ DOMAIN index' = DOMAIN index \cup {label}
      /\ \A l \in DOMAIN index' : index'[l] = IF l = label THEN adding ELSE index[l]
  BY <1>1 DEF Inserted, Labels
<1>3. /\ adding \in DOMAIN idToHnsw /\ SubPair(index, idToHnsw)
      /\ indexFile.state = "ok" /\ indexFile.vectors = index
      /\ \A r \in DOMAIN idToHnsw : r # adding =>
           /\ idToHnsw[r] \in DOMAIN index /\ index[idToHnsw[r]] = r
           /\ idToHnsw[r] # label
  BY <1>1 DEF StepInv, IndexSaved
<1> HIDE DEF label
<1>4. SubPair(index', idToHnsw)
  BY <1>2, <1>3 DEF SubPair, label
<1>5. \A r \in DOMAIN idToHnsw : idToHnsw[r] \in DOMAIN index' /\ index'[idToHnsw[r]] = r
  BY <1>2, <1>3 DEF label
<1>6. OwnPair(index', idToHnsw') BY <1>1, <1>4, <1>5 DEF OwnPair
<1>7. indexFile'.state = "ok" /\ SubPair(indexFile'.vectors, idToHnsw')
  BY <1>1, <1>3
<1> QED BY <1>1, <1>6, <1>7 DEF StepInv, FilesAgree

\* Saving: the map first, which then covers both the old and the new index.
LEMMA SavingKeepsPair ==
  /\ FilesAgree /\ StepInv /\ failures' = 0 /\ failures = 0
  /\ SaveAddedMap \/ SaveAddedIndex \/ Exit \/ SaveExitIndex \/ SaveExitMap
  => FilesAgree' /\ StepInv'
<1> SUFFICES ASSUME FilesAgree, StepInv, failures' = 0, failures = 0,
                    SaveAddedMap \/ SaveAddedIndex \/ Exit \/ SaveExitIndex \/ SaveExitMap
             PROVE FilesAgree' /\ StepInv'
  OBVIOUS
<1> USE DEF StepInv, FilesAgree, IndexSaved, MapSaved, Fails
<1>1. CASE SaveAddedMap
  BY <1>1 DEF SaveAddedMap, SaveIdMap, SavedMap, memoryVars
<1>2. CASE SaveAddedIndex
  BY <1>2 DEF SaveAddedIndex, SaveIndex, SavedIndex, memoryVars, OwnPair
<1>3. CASE Exit BY <1>3 DEF Exit, memoryVars
<1>4. CASE SaveExitIndex
  BY <1>4 DEF SaveExitIndex, SaveIndex, SavedIndex, memoryVars, OwnPair
<1>5. CASE SaveExitMap
  BY <1>5 DEF SaveExitMap, SaveIdMap, SavedMap, memoryVars, OwnPair
<1> QED BY <1>1, <1>2, <1>3, <1>4, <1>5

\* A crash leaves the files as they are, or one of them unreadable.
LEMMA CrashKeepsPair == FilesAgree /\ Crash => FilesAgree' /\ StepInv'
BY DEF FilesAgree, Crash, StepInv, BrokenIndex, BrokenMap

\* The first life: every start finds nothing, and a label in the index stays
\* that of its row whatever fails.
LEMMA FirstLifeStep ==
  LabelsBounded /\ IndexFirstLife /\ IndexNext /\ crashes = 0 /\ crashes' = 0 => IndexFirstLife'
<1> SUFFICES ASSUME LabelsBounded, IndexFirstLife, IndexNext, crashes = 0, crashes' = 0
             PROVE  IndexFirstLife'
  OBVIOUS
<1>0. DOMAIN Empty = {} BY DEF Empty
<1> USE DEF IndexFirstLife
<1>1. CASE Start BY <1>1 DEF Start
<1>2. CASE LoadIndex BY <1>0, <1>2 DEF LoadIndex, StartAfresh, SubPair
<1>3. CASE SaveExpanded \/ CheckPair \/ SaveExitIndex \/ SaveExitMap
  BY <1>3 DEF SaveExpanded, CheckPair, SaveExitIndex, SaveExitMap
<1>4. CASE ResetMapFile \/ SaveAddedMap
  BY <1>4 DEF ResetMapFile, SaveAddedMap, SaveIdMap, memoryVars
<1>5. CASE ResetIndexFile \/ SaveAddedIndex
  BY <1>5 DEF ResetIndexFile, SaveAddedIndex, SaveIndex, memoryVars
<1>6. CASE Insert
  <2>1. CASE index' = Inserted /\ step' = "savingMap"
    <3>1. /\ DOMAIN index' = DOMAIN index \cup {idToHnsw[adding]}
          /\ \A l \in DOMAIN index' :
               index'[l] = IF l = idToHnsw[adding] THEN adding ELSE index[l]
          /\ adding \in DOMAIN idToHnsw /\ idToHnsw' = idToHnsw
      BY <1>6, <2>1 DEF Insert, Inserted, Labels
    <3>2. SubPair(index', idToHnsw') BY <3>1 DEF SubPair
    <3> QED BY <2>1, <3>1, <3>2
  <2>2. CASE UNCHANGED index /\ step' = "idle" BY <1>6, <2>2 DEF Insert
  <2> QED BY <1>6, <2>1, <2>2 DEF Insert
<1>7. ASSUME NEW row \in Rows, AddToHnsw(row) PROVE IndexFirstLife'
  <2>1. /\ UNCHANGED <<index, indexFile>> /\ step = "idle" /\ adding' = row
        /\ step' \in {"idle", "inserting"}
    BY <1>7 DEF AddToHnsw
  <2>2. CASE row \in DOMAIN idToHnsw
    <3>1. idToHnsw' = idToHnsw BY <1>7, <2>2 DEF AddToHnsw
    <3> QED BY <2>1, <2>2, <3>1
  <2>3. CASE row \notin DOMAIN idToHnsw /\ UNCHANGED <<step, idToHnsw>>
    BY <2>1, <2>3
  <2>4. CASE /\ row \notin DOMAIN idToHnsw
             /\ idToHnsw' = [r \in DOMAIN idToHnsw \cup {row} |->
                               IF r = row THEN nextLabel + 1 ELSE idToHnsw[r]]
    <3>1. /\ DOMAIN idToHnsw' = DOMAIN idToHnsw \cup {row}
          /\ \A r \in DOMAIN idToHnsw : r # row => idToHnsw'[r] = idToHnsw[r]
          /\ idToHnsw'[row] = nextLabel + 1
      BY <2>4
    <3>2. SubPair(index', idToHnsw') BY <2>1, <2>4, <3>1 DEF SubPair
    <3>3. \A r \in DOMAIN idToHnsw : idToHnsw[r] # nextLabel + 1 BY DEF LabelsBounded
    <3>4. \A r, q \in DOMAIN idToHnsw' : idToHnsw'[r] = idToHnsw'[q] => r = q
      BY <2>4, <3>1, <3>3
    <3> QED BY <2>1, <3>1, <3>2, <3>4
  <2> QED BY <1>7, <2>2, <2>3, <2>4 DEF AddToHnsw
<1>8. CASE Exit \/ Crash
  BY <1>8 DEF Exit, Crash, LabelsBounded
<1> QED
  BY <1>1, <1>2, <1>3, <1>4, <1>5, <1>6, <1>7, <1>8 DEF IndexNext, IndexStep

-----------------------------------------------------------------------------
LEMMA IndexStarts == IndexInit => IndexInv
<1> SUFFICES ASSUME IndexInit PROVE IndexInv
  OBVIOUS
<1>1. DOMAIN Empty = {} /\ IsFiniteSet({}) BY FS_EmptySet DEF Empty
<1>2. LabelsBounded BY <1>1 DEF IndexInit, LabelsBounded, SoundIndexFile, SoundMapFile
<1>3. FilesAgree /\ StepInv BY DEF IndexInit, FilesAgree, StepInv
<1>4. IndexFirstLife BY <1>1 DEF IndexInit, IndexFirstLife, SubPair
<1> QED BY <1>2, <1>3, <1>4 DEF IndexInv

LEMMA IndexKeepsInv == IndexInv /\ [IndexNext]_indexVars => IndexInv'
<1> SUFFICES ASSUME IndexInv, [IndexNext]_indexVars PROVE IndexInv'
  OBVIOUS
<1>1. CASE UNCHANGED indexVars
  BY <1>1 DEF indexVars, memoryVars, IndexInv, LabelsBounded, FilesAgree, StepInv,
              IndexSaved, MapSaved, IndexFirstLife
<1>2. CASE IndexNext
  <2>1. LabelsBounded' BY <1>2, LabelsBoundedStep DEF IndexInv
  <2>2. ASSUME failures' = 0 PROVE FilesAgree' /\ StepInv'
    <3>1. failures = 0 /\ LabelsBounded /\ FilesAgree /\ StepInv
      BY <1>2, <2>2, CountsGrow DEF IndexInv, LabelsBounded
    <3> QED
      BY <1>2, <2>2, <3>1, StartingKeepsPair, AddKeepsPair, InsertKeepsPair,
         SavingKeepsPair, CrashKeepsPair DEF IndexNext, IndexStep
  <2>3. ASSUME crashes' = 0 PROVE IndexFirstLife'
    <3>1. crashes = 0 /\ LabelsBounded /\ IndexFirstLife
      BY <1>2, <2>3, CountsGrow DEF IndexInv, LabelsBounded
    <3> QED BY <1>2, <2>3, <3>1, FirstLifeStep
  <2> QED BY <2>1, <2>2, <2>3 DEF IndexInv
<1> QED BY <1>1, <1>2

\* The invariant of memory and files, of the index by itself.
THEOREM IndexInvariant == IndexSpec => []IndexInv
BY IndexStarts, IndexKeepsInv, PTL DEF IndexSpec

\* In the first life every hit is the row whose vector was matched.
LEMMA HitsInFirstLife == IndexFirstLife => \A hit \in Hits : hit.found = hit.matched
<1> SUFFICES ASSUME IndexFirstLife, NEW hit \in Hits PROVE hit.found = hit.matched
  OBVIOUS
<1>1. PICK r \in DOMAIN idToHnsw :
        idToHnsw[r] \in DOMAIN index /\ hit = [found |-> r, matched |-> index[idToHnsw[r]]]
  BY DEF Hits, Labels
<1>2. index[idToHnsw[r]] \in DOMAIN idToHnsw /\ idToHnsw[index[idToHnsw[r]]] = idToHnsw[r]
  BY <1>1 DEF IndexFirstLife, SubPair
<1> QED BY <1>1, <1>2 DEF IndexFirstLife

\* A search never answers a row with the vector of another row: in the first
\* life of the process whatever fails, and through kills and restarts as long
\* as nothing has failed, when it also misses none that the map knows.
THEOREM IndexPairMatches == IndexSpec => []PairMatches
<1>1. IndexInv => PairMatches BY HitsInFirstLife DEF IndexInv, StepInv, PairMatches
<1> QED BY <1>1, IndexInvariant, PTL

-----------------------------------------------------------------------------
(* What the guards let through                                             *)

Texts == SUBSET Words

\* What parse_memory_text has kept of some lines.
Kept(items, message, source, limit) ==
  /\ items \in Seq(Texts) /\ Len(items) <= limit
  /\ \A k \in 1..Len(items) : ~InventsAnchors(items[k], source) /\ Grounded(items[k], source)
  /\ \A k, m \in 1..Len(items) : k < m => ~NearDuplicate(items[m], items[k])

Keep(items, line, message, source, limit) ==
  IF Len(items) < limit /\ Acceptable(items, line, message, source)
  THEN Append(items, line) ELSE items

\* One more line keeps what has been kept so.
LEMMA KeepOne ==
  ASSUME NEW items, NEW line \in Texts, NEW message, NEW source, NEW limit \in Nat,
         Kept(items, message, source, limit)
  PROVE  Kept(Keep(items, line, message, source, limit), message, source, limit)
<1> DEFINE more == Append(items, line)
<1>1. CASE Len(items) < limit /\ Acceptable(items, line, message, source)
  <2>1. /\ items \in Seq(Texts) /\ Len(items) \in Nat
        /\ more \in Seq(Texts) /\ Len(more) = Len(items) + 1
        /\ \A k \in 1..Len(items) : more[k] = items[k]
        /\ more[Len(items) + 1] = line
    BY DEF Kept
  <2>2. Len(more) <= limit BY <1>1, <2>1
  <2>3. /\ ~InventsAnchors(line, source) /\ Grounded(line, source)
        /\ \A k \in 1..Len(items) : ~NearDuplicate(line, items[k])
    BY <1>1 DEF Acceptable
  <2> HIDE DEF more
  <2>4. ASSUME NEW k \in 1..Len(more)
        PROVE  ~InventsAnchors(more[k], source) /\ Grounded(more[k], source)
    <3>1. CASE k \in 1..Len(items) BY <2>1, <3>1 DEF Kept
    <3>2. CASE k = Len(items) + 1 BY <2>1, <2>3, <3>2
    <3> QED BY <2>1, <3>1, <3>2
  <2>5. ASSUME NEW k \in 1..Len(more), NEW m \in 1..Len(more), k < m
        PROVE  ~NearDuplicate(more[m], more[k])
    <3>1. k \in 1..Len(items) BY <2>1, <2>5
    <3>2. CASE m \in 1..Len(items) BY <2>1, <2>5, <3>1, <3>2 DEF Kept
    <3>3. CASE m = Len(items) + 1 BY <2>1, <2>3, <3>1, <3>3
    <3> QED BY <2>1, <3>2, <3>3
  <2>6. Kept(more, message, source, limit) BY <2>1, <2>2, <2>4, <2>5 DEF Kept
  <2> QED BY <1>1, <2>6 DEF Keep, more
<1>2. CASE ~(Len(items) < limit /\ Acceptable(items, line, message, source))
  BY <1>2 DEF Keep
<1> QED BY <1>1, <1>2

\* What is extracted from a message is stated in it and does not repeat
\* itself, whatever lines the model gives.
LEMMA ParseKeeps ==
  ASSUME NEW lines \in Seq(Texts), NEW message, NEW source, NEW limit \in Nat
  PROVE  Kept(ParseMemoryText(lines, message, source, limit), message, source, limit)
<1>0. PICK A : A = Seq(Texts) OBVIOUS
<1> DEFINE n == Len(lines)
           K(items, line) == Keep(items, line, message, source, limit)
           Q(items) == Kept(items, message, source, limit)
           take == [x \in A \X (1 .. n) |-> K(x[1], lines[x[2]])]
           Follows(g) == g = [s \in SUBSET DOMAIN lines |->
                               IF s = {} THEN <<>>
                               ELSE K(g[s \ {Max(s)}], lines[Max(s)])]
           iter == CHOOSE g : Follows(g)
<1>1. n \in Nat /\ DOMAIN lines = 1 .. n /\ \A i \in 1 .. n : lines[i] \in Texts OBVIOUS
<1>2. ParseMemoryText(lines, message, source, limit) = iter[1 .. n]
  <2>1. ParseMemoryText(lines, message, source, limit) = iter[DOMAIN lines]
    BY DEF ParseMemoryText, FoldLeft, MapThenFoldSet, Keep
  <2> QED BY <1>1, <2>1
<1>3. \E g : Follows(g)
  <2>1. take \in [A \X (1 .. n) -> A] BY <1>0, <1>1 DEF Keep
  <2>2. PICK base : base = <<>> OBVIOUS
  <2>3. PICK g : FollowsFold(g, A, n, base, take)
    <3>1. base \in A BY <1>0, <2>2
    <3>2. n \in Nat /\ FoldStep(take, A, n) BY <1>1, <2>1 DEF FoldStep
    <3> HIDE DEF take, n
    <3> QED BY <3>1, <3>2, FoldExists
  <2>4. ASSUME NEW s \in SUBSET (1 .. n), s # {}
        PROVE  take[<<g[s \ {Max(s)}], Max(s)>>] = K(g[s \ {Max(s)}], lines[Max(s)])
    <3>1. Max(s) \in s BY <1>1, <2>4, LargestPosition
    <3>2. g[s \ {Max(s)}] \in A /\ Max(s) \in 1 .. n BY <2>3, <3>1 DEF FollowsFold
    <3> HIDE DEF K
    <3> QED BY <3>2
  <2>5. \A s \in SUBSET (1 .. n) :
          g[s] = IF s = {} THEN <<>> ELSE K(g[s \ {Max(s)}], lines[Max(s)])
    <3> HIDE DEF take, K
    <3>1. ASSUME NEW s \in SUBSET (1 .. n), s = {} PROVE g[s] = <<>>
      BY <2>2, <2>3, <3>1 DEF FollowsFold
    <3>2. ASSUME NEW s \in SUBSET (1 .. n), s # {}
          PROVE  g[s] = K(g[s \ {Max(s)}], lines[Max(s)])
      BY <2>3, <2>4, <3>2 DEF FollowsFold
    <3> QED BY <3>1, <3>2
  <2>6. Follows(g)
    <3>1. g \in [SUBSET DOMAIN lines -> A] BY <1>1, <2>3 DEF FollowsFold
    <3>2. \A s \in SUBSET DOMAIN lines :
            g[s] = IF s = {} THEN <<>> ELSE K(g[s \ {Max(s)}], lines[Max(s)])
      BY <1>1, <2>5
    <3> HIDE DEF take, K
    <3> QED BY <3>1, <3>2
  <2> QED BY <2>6
<1>4. Follows(iter) BY <1>3
<1>5. iter[{}] = <<>>
  <2>1. {} \in SUBSET DOMAIN lines OBVIOUS
  <2> HIDE DEF iter, K
  <2> QED BY <1>4, <2>1
<1>6. ASSUME NEW i \in 1 .. n
      PROVE  iter[1 .. i] = K(iter[1 .. (i - 1)], lines[i])
  <2>1. /\ Max(1 .. i) = i /\ (1 .. i) \ {i} = 1 .. (i - 1) /\ 1 .. i # {}
        /\ 1 .. i \in SUBSET (1 .. n)
    BY <1>1, FoldPrefix
  <2> HIDE DEF iter, K
  <2>2. iter[1 .. i] = K(iter[(1 .. i) \ {Max(1 .. i)}], lines[Max(1 .. i)])
    BY <1>1, <1>4, <2>1
  <2> QED BY <2>1, <2>2
<1> DEFINE Fine == {i \in Nat : i <= n => Q(iter[1 .. i])}
<1>7. Nat \subseteq Fine
  <2>1. 0 \in Fine
    <3>1. 1 .. 0 = {} OBVIOUS
    <3>2. Q(<<>>) BY DEF Kept
    <3> HIDE DEF iter, Q
    <3> QED BY <1>5, <3>1, <3>2
  <2>2. ASSUME NEW i \in Nat, i \in Fine PROVE i + 1 \in Fine
    <3> SUFFICES ASSUME i + 1 <= n PROVE Q(iter[1 .. (i + 1)]) OBVIOUS
    <3>1. i + 1 \in 1 .. n /\ (i + 1) - 1 = i /\ i <= n BY <1>1
    <3>2. Q(iter[1 .. i]) BY <2>2, <3>1
    <3> HIDE DEF iter
    <3>3. iter[1 .. (i + 1)] = K(iter[1 .. i], lines[i + 1]) BY <1>6, <3>1
    <3>4. lines[i + 1] \in Texts BY <1>1, <3>1
    <3>5. Q(K(iter[1 .. i], lines[i + 1])) BY <3>2, <3>4, KeepOne
    <3> QED BY <3>3, <3>5
  <2> HIDE DEF Fine
  <2> QED BY <2>1, <2>2, SetInduction
<1>8. n \in Fine BY <1>1, <1>7
<1>9. Q(iter[1 .. n]) BY <1>1, <1>8
<1> QED BY <1>2, <1>9

\* A message of a conversation is one of the messages there are.
LEMMA LastUserIsMessage ==
  ASSUME NEW messages \in Conversations
  PROVE  LastUserMessage(messages) \in Messages
<1> DEFINE users == {i \in 1 .. Len(messages) : messages[i].role = "user"}
<1>1. messages \in Seq(Messages) /\ Len(messages) \in Nat
      /\ \A i \in 1 .. Len(messages) : messages[i] \in Messages
  BY MemoryAssumption
<1>2. CASE users = {}
  <2>1. NoMessage \in Messages BY DEF NoMessage, Messages
  <2> QED BY <1>2, <2>1 DEF LastUserMessage
<1>3. CASE users # {}
  <2>1. users \in SUBSET (1 .. Len(messages)) OBVIOUS
  <2>2. Max(users) \in users
    <3> HIDE DEF users
    <3> QED BY <1>1, <1>3, <2>1, LargestPosition
  <2>3. LastUserMessage(messages) = messages[Max(users)] BY <1>3 DEF LastUserMessage
  <2> QED BY <1>1, <2>2, <2>3
<1> QED BY <1>2, <1>3

\* What a row may be the user's own by: a function of the conversation alone.
SaidIn(messages) ==
  LET message == LastUserMessage(messages)
      kinds == IF ExplicitRequest(message) THEN {"statement", "query"} ELSE {"statement"}
  IN  UNION {message.segments[i].words :
               i \in {j \in 1..Len(message.segments) : message.segments[j].kind \in kinds}}

FromUser(words, said) ==
  /\ words \cap Anchors \subseteq said
  /\ 10 * Cardinality(words \cap said) >= 3 * Cardinality(words)

\* What comes from a part of what was said comes from the whole.
LEMMA FromMore ==
  ASSUME NEW words \in Texts, NEW said, NEW more, said \subseteq more, FromUser(words, said)
  PROVE  FromUser(words, more)
<1>1. IsFiniteSet(words) BY TextAssumption, FS_Subset DEF Texts
<1>2. IsFiniteSet(words \cap said) /\ IsFiniteSet(words \cap more) BY <1>1, FS_Subset
<1>3. Cardinality(words \cap said) <= Cardinality(words \cap more)
  <2>1. words \cap said \subseteq words \cap more OBVIOUS
  <2> QED BY <1>2, <2>1, FS_Subset
<1>4. /\ Cardinality(words) \in Nat /\ Cardinality(words \cap said) \in Nat
      /\ Cardinality(words \cap more) \in Nat
  BY <1>1, <1>2, FS_CardinalityType
<1> QED BY <1>3, <1>4 DEF FromUser

LEMMA SourceIsSaid ==
  ASSUME NEW messages \in Conversations
  PROVE  /\ Source(LastUserMessage(messages)) \subseteq SaidIn(messages)
         /\ FactLimit(DurableSource(LastUserMessage(messages))) \in 1 .. 2
<1> DEFINE m == LastUserMessage(messages)
           d == DurableSource(m)
<1>1. m \in Messages BY LastUserIsMessage
<1> HIDE DEF m
<1>2. /\ Len(m.segments) \in Nat
      /\ \A i \in 1 .. Len(m.segments) : m.segments[i].kind \in SegmentKinds
  <2> DEFINE S == [kind : SegmentKinds, words : SUBSET Words]
  <2>1. m.segments \in Seq(S) BY <1>1 DEF Messages
  <2>2. \A x \in S : x.kind \in SegmentKinds OBVIOUS
  <2> HIDE DEF S
  <2>3. Len(m.segments) \in Nat /\ \A i \in 1 .. Len(m.segments) : m.segments[i] \in S BY <2>1
  <2> QED BY <2>2, <2>3
<1>3. d \subseteq 1 .. Len(m.segments) BY DEF DurableSource, Visible
<1>4. ASSUME NEW i \in d
      PROVE  /\ i \in 1 .. Len(m.segments)
             /\ m.segments[i].kind \in
                  IF ExplicitRequest(m) THEN {"statement", "query"} ELSE {"statement"}
  BY <1>2, <1>4 DEF DurableSource, Visible, SegmentKinds
<1>5. Source(m) \subseteq SaidIn(messages)
  <2>1. ASSUME NEW w \in Source(m) PROVE w \in SaidIn(messages)
    <3>1. PICK i \in d : w \in m.segments[i].words BY <2>1 DEF Source, WordsOf
    <3> HIDE DEF d
    <3> QED BY <1>4, <3>1 DEF SaidIn, m
  <2> QED BY <2>1
<1>6. FactLimit(d) \in 1 .. 2
  <2>1. Cardinality(d) \in Nat
    <3>1. IsFiniteSet(1 .. Len(m.segments)) BY <1>2, FS_Interval
    <3> QED BY <1>3, <3>1, FS_Subset, FS_CardinalityType
  <2> DEFINE c == Cardinality(d)
             least == Min({MaxExtractedItems, c})
  <2> HIDE DEF c
  <2>2. c \in Nat BY <2>1 DEF c
  <2>3. least \in Nat /\ least <= 2
    <3>1. least = CHOOSE x \in {2, c} : \A y \in {2, c} : x <= y
      BY DEF Min, MaxExtractedItems
    <3>2. \E x \in {2, c} : \A y \in {2, c} : x <= y BY <2>2
    <3>3. least \in {2, c} /\ \A y \in {2, c} : least <= y BY <3>1, <3>2
    <3> QED BY <2>2, <3>3
  <2> HIDE DEF least
  <2>4. FactLimit(d) = CHOOSE x \in {1, least} : \A y \in {1, least} : x >= y
    BY DEF FactLimit, Max, least, c
  <2>5. \E x \in {1, least} : \A y \in {1, least} : x >= y BY <2>3
  <2>6. FactLimit(d) \in {1, least} /\ \A y \in {1, least} : FactLimit(d) >= y BY <2>4, <2>5
  <2> QED BY <2>3, <2>6
<1> QED BY <1>5, <1>6 DEF m

\* An extracted line is the user's own.
LEMMA KeptIsSaid ==
  ASSUME NEW words \in Texts, NEW source, NEW said, source \subseteq said,
         ~InventsAnchors(words, source), Grounded(words, source)
  PROVE  FromUser(words, said)
<1>1. words \cap Anchors \subseteq source BY DEF InventsAnchors
<1>2. IsFiniteSet(words) /\ IsFiniteSet(words \cap source)
  BY TextAssumption, FS_Subset DEF Texts
<1>3. Cardinality(words) \in Nat /\ Cardinality(words \cap source) \in Nat
  BY <1>2, FS_CardinalityType
<1>4. \/ 100 * Cardinality(words \cap source) >= 30 * Cardinality(words)
      \/ 100 * Cardinality(words \cap source) >= 50 * Cardinality(words)
  BY DEF Grounded
<1>5. 10 * Cardinality(words \cap source) >= 3 * Cardinality(words) BY <1>3, <1>4
<1> QED BY <1>1, <1>5, FromMore DEF FromUser

-----------------------------------------------------------------------------
(* What a turn has saved and may still save                                *)

TurnRecords == [at : TurnStates, messages : {<<>>} \cup Conversations, items : Seq(Texts)]

RowRecords == [turn : Turns, words : Texts]

EpisodicShape == turn \in [Turns -> TurnRecords] /\ episodic \in Seq(RowRecords)

Positions == 1 .. Len(episodic)

\* Before it has extracted a turn has saved nothing.  While it saves, at most
\* two lines are saved or left; they are the user's own and none repeats
\* another.
TurnPart(t) ==
  LET items == turn[t].items
  IN  /\ turn[t].at \in {"waiting", "extracting"} => \A i \in Positions : episodic[i].turn # t
      /\ turn[t].at = "extracting" => turn[t].messages \in Conversations
      /\ turn[t].at = "saving" =>
           /\ Len(items) \in 1 .. 2
           /\ \A k \in 1 .. Len(items) : FromUser(items[k], SaidIn(turn[t].messages))
           /\ Len(items) = 2 => ~NearDuplicate(items[2], items[1])
           /\ \A i \in Positions : episodic[i].turn = t =>
                /\ Len(items) = 1 /\ ~NearDuplicate(items[1], episodic[i].words)
                /\ \A j \in Positions : episodic[j].turn = t => i = j

RowsStated == \A i \in Positions :
                FromUser(episodic[i].words, SaidIn(turn[episodic[i].turn].messages))

EpisodicInv == EpisodicShape /\ (\A t \in Turns : TurnPart(t)) /\ RowsStated /\ TurnRemembersOnce

\* A step that saves no row keeps the invariant, if every turn keeps its part
\* and no turn with rows changes its messages.
LEMMA NoRowSaved ==
  ASSUME EpisodicInv, UNCHANGED episodic, turn' \in [Turns -> TurnRecords],
         \A t \in Turns : TurnPart(t)',
         \A t \in Turns : \/ turn'[t].messages = turn[t].messages
                          \/ \A i \in Positions : episodic[i].turn # t
  PROVE  EpisodicInv'
<1>1. EpisodicShape' BY DEF EpisodicInv, EpisodicShape
<1>2. RowsStated'
  <2> SUFFICES ASSUME NEW i \in Positions
              PROVE  FromUser(episodic[i].words, SaidIn(turn'[episodic[i].turn].messages))
    BY DEF RowsStated, Positions
  <2>1. episodic[i] \in RowRecords BY DEF EpisodicInv, EpisodicShape, Positions
  <2>2. turn'[episodic[i].turn].messages = turn[episodic[i].turn].messages
    BY <2>1 DEF RowRecords
  <2> QED BY <2>2 DEF EpisodicInv, RowsStated
<1>3. TurnRemembersOnce' BY DEF EpisodicInv, TurnRemembersOnce
<1> QED BY <1>1, <1>2, <1>3 DEF EpisodicInv

\* A turn none of whose rows or items changes keeps its part.
LEMMA PartUntouched ==
  ASSUME NEW t, TurnPart(t), turn'[t] = turn[t],
         \/ UNCHANGED episodic
         \/ \E row : episodic' = Append(episodic, row) /\ row.turn # t,
         EpisodicShape
  PROVE  TurnPart(t)'
<1>1. CASE UNCHANGED episodic BY <1>1 DEF TurnPart, Positions
<1>2. CASE \E row : episodic' = Append(episodic, row) /\ row.turn # t
  <2>1. PICK row : episodic' = Append(episodic, row) /\ row.turn # t BY <1>2
  <2>2. /\ Len(episodic) \in Nat /\ Len(episodic') = Len(episodic) + 1
        /\ \A i \in Positions : episodic'[i] = episodic[i]
        /\ episodic'[Len(episodic) + 1] = row
    BY <2>1 DEF EpisodicShape, Positions
  <2>3. \A i \in Positions' : episodic'[i].turn = t => i \in Positions /\ episodic'[i] = episodic[i]
    <3> TAKE i \in Positions'
    <3>1. i \in Positions \/ i = Len(episodic) + 1 BY <2>2 DEF Positions
    <3> QED BY <2>1, <2>2, <3>1
  <2> QED BY <2>3 DEF TurnPart
<1> QED BY <1>1, <1>2

\* The record of a turn whose process_episodic ended or was lost.
LEMMA TurnRecordFacts ==
  /\ NewTurn \in TurnRecords /\ NewTurn.at = "waiting"
  /\ Ended \in TurnRecords /\ Ended.at = "done"
  /\ \A messages \in Conversations :
       LET started == [NewTurn EXCEPT !.at = "extracting", !.messages = messages]
       IN  started \in TurnRecords /\ started.at = "extracting" /\ started.messages = messages
<1>1. <<>> \in Seq(Texts) OBVIOUS
<1>2. NewTurn \in TurnRecords /\ NewTurn.at = "waiting" /\ NewTurn.items = <<>>
  BY <1>1 DEF NewTurn, TurnRecords, TurnStates
<1>3. Ended \in TurnRecords /\ Ended.at = "done" BY <1>2 DEF Ended, TurnRecords, TurnStates
<1>4. ASSUME NEW messages \in Conversations
      PROVE  LET started == [NewTurn EXCEPT !.at = "extracting", !.messages = messages]
             IN  /\ started \in TurnRecords /\ started.at = "extracting"
                 /\ started.messages = messages
  <2> DEFINE first == [NewTurn EXCEPT !.at = "extracting"]
             second == [first EXCEPT !.messages = messages]
  <2>1. first \in TurnRecords /\ first.at = "extracting" BY <1>2 DEF TurnRecords, TurnStates
  <2> HIDE DEF first
  <2>2. second \in TurnRecords /\ second.at = "extracting" /\ second.messages = messages
    BY <2>1 DEF TurnRecords
  <2> QED BY <2>2 DEF first
<1> QED BY <1>2, <1>3, <1>4

LEMMA StartKeeps ==
  ASSUME EpisodicInv, NEW t \in Turns, StartEpisodic(t)
  PROVE  EpisodicInv'
<1>1. PICK messages \in Conversations, new \in TurnRecords :
         /\ turn' = [turn EXCEPT ![t] = new]
         /\ \/ new.at = "done"
            \/ new.at = "extracting" /\ new.messages = messages
  <2>1. PICK messages \in Conversations, reply \in Replies :
          turn' = [turn EXCEPT ![t] =
                     IF reply # "long" \/ SkipsExtraction(LastUserMessage(messages))
                     THEN Ended ELSE [NewTurn EXCEPT !.at = "extracting", !.messages = messages]]
    BY DEF StartEpisodic
  <2> DEFINE started == [NewTurn EXCEPT !.at = "extracting", !.messages = messages]
  <2>2. /\ started \in TurnRecords /\ started.at = "extracting" /\ started.messages = messages
        /\ Ended \in TurnRecords /\ Ended.at = "done"
    BY TurnRecordFacts
  <2>3. turn' = [turn EXCEPT ![t] = Ended] \/ turn' = [turn EXCEPT ![t] = started] BY <2>1
  <2> HIDE DEF started
  <2> QED BY <2>2, <2>3
<1>2. turn[t].at = "waiting" /\ UNCHANGED episodic BY DEF StartEpisodic, databaseVars
<1>3. turn \in [Turns -> TurnRecords] BY DEF EpisodicInv, EpisodicShape
<1>4. \A i \in Positions : episodic[i].turn # t BY <1>2 DEF EpisodicInv, TurnPart
<1>5. turn' \in [Turns -> TurnRecords] /\ turn'[t] = new
      /\ \A u \in Turns : u # t => turn'[u] = turn[u]
  BY <1>1, <1>3
<1>6. TurnPart(t)'
  <2>1. new.at \in {"extracting", "done"} BY <1>1
  <2>2. new.at = "extracting" => new.messages \in Conversations BY <1>1
  <2> QED BY <1>2, <1>4, <1>5, <2>1, <2>2 DEF TurnPart, Positions
<1>7. \A u \in Turns : TurnPart(u)'
  <2>1. ASSUME NEW u \in Turns, u # t PROVE TurnPart(u)'
    <3>1. TurnPart(u) /\ turn'[u] = turn[u] /\ EpisodicShape BY <1>5, <2>1 DEF EpisodicInv
    <3> QED BY <1>2, <3>1, PartUntouched
  <2> QED BY <1>6, <2>1
<1> QED BY <1>2, <1>4, <1>5, <1>7, NoRowSaved

LEMMA ExtractKeeps ==
  ASSUME EpisodicInv, NEW t \in Turns, Extract(t)
  PROVE  EpisodicInv'
<1> DEFINE messages == turn[t].messages
           m == LastUserMessage(messages)
           parsed(lines) == ParseMemoryText(lines, m, Source(m), FactLimit(DurableSource(m)))
<1>1. turn[t].at = "extracting" /\ UNCHANGED episodic /\ turn \in [Turns -> TurnRecords]
  BY DEF Extract, EpisodicInv, EpisodicShape, databaseVars
<1>2. messages \in Conversations /\ \A i \in Positions : episodic[i].turn # t
  BY <1>1 DEF EpisodicInv, TurnPart
<1>3. PICK lines \in Extractions :
        turn' = [turn EXCEPT ![t] = IF parsed(lines) = <<>> THEN Ended
                                    ELSE [@ EXCEPT !.at = "saving", !.items = parsed(lines)]]
  BY DEF Extract
<1> DEFINE items == parsed(lines)
<1>4. /\ items \in Seq(Texts) /\ Len(items) \in 0 .. 2
      /\ \A k \in 1 .. Len(items) : FromUser(items[k], SaidIn(messages))
      /\ Len(items) = 2 => ~NearDuplicate(items[2], items[1])
  <2> DEFINE source == Source(m)
             limit == FactLimit(DurableSource(m))
  <2>1. source \subseteq SaidIn(messages) /\ limit \in 1 .. 2 BY <1>2, SourceIsSaid
  <2>2. lines \in Seq(Texts) BY MemoryAssumption DEF Texts
  <2>3. Kept(items, m, source, limit)
    <3>1. limit \in Nat BY <2>1
    <3> HIDE DEF m, source, limit
    <3>2. Kept(ParseMemoryText(lines, m, source, limit), m, source, limit)
      BY <2>2, <3>1, ParseKeeps
    <3> QED BY <3>2 DEF source, limit
  <2> HIDE DEF m, source, limit, items
  <2>4. items \in Seq(Texts) /\ Len(items) \in 0 .. 2
    <3>1. items \in Seq(Texts) /\ Len(items) <= limit BY <2>3 DEF Kept
    <3>2. Len(items) \in Nat BY <3>1
    <3>3. PICK l, b : l = Len(items) /\ b = limit OBVIOUS
    <3>4. l \in Nat /\ b \in 1 .. 2 /\ l <= b BY <2>1, <3>1, <3>2, <3>3
    <3>5. l \in 0 .. 2 BY <3>4
    <3> QED BY <3>1, <3>3, <3>5
  <2>5. ASSUME NEW k \in 1 .. Len(items)
        PROVE  FromUser(items[k], SaidIn(messages))
    <3>1. items[k] \in Texts BY <2>4
    <3>2. ~InventsAnchors(items[k], source) /\ Grounded(items[k], source) BY <2>3 DEF Kept
    <3> QED BY <2>1, <3>1, <3>2, KeptIsSaid
  <2>6. Len(items) = 2 => ~NearDuplicate(items[2], items[1]) BY <2>3 DEF Kept
  <2> QED BY <2>4, <2>5, <2>6
<1> HIDE DEF items
<1>5. PICK new \in TurnRecords :
        /\ turn' = [turn EXCEPT ![t] = new]
        /\ \/ new.at = "done"
           \/ /\ new.at = "saving" /\ new.items = items /\ new.messages = messages
              /\ Len(items) \in 1 .. 2
  <2>1. CASE items = <<>> BY <1>3, <2>1, TurnRecordFacts DEF items
  <2>2. CASE items # <<>>
    <3> DEFINE first == [turn[t] EXCEPT !.at = "saving"]
               second == [first EXCEPT !.items = items]
    <3>1. turn' = [turn EXCEPT ![t] = second] BY <1>3, <2>2 DEF items
    <3>2. first \in TurnRecords /\ first.at = "saving" /\ first.messages = messages
      BY <1>1 DEF TurnRecords, TurnStates
    <3> HIDE DEF first
    <3>3. /\ second \in TurnRecords /\ second.at = "saving" /\ second.messages = messages
          /\ second.items = items
      BY <1>4, <3>2 DEF TurnRecords
    <3>4. Len(items) \in 1 .. 2 BY <1>4, <2>2
    <3> HIDE DEF second
    <3> QED BY <3>1, <3>3, <3>4
  <2> QED BY <2>1, <2>2
<1>6. turn' \in [Turns -> TurnRecords] /\ turn'[t] = new
      /\ \A u \in Turns : u # t => turn'[u] = turn[u]
  BY <1>1, <1>5
<1>7. TurnPart(t)'
  <2>1. CASE new.at = "done" BY <1>6, <2>1 DEF TurnPart
  <2>2. CASE new.at = "saving" /\ new.items = items /\ new.messages = messages
             /\ Len(items) \in 1 .. 2
    BY <1>1, <1>2, <1>4, <1>6, <2>2 DEF TurnPart, Positions
  <2> QED BY <1>5, <2>1, <2>2
<1>8. \A u \in Turns : TurnPart(u)'
  <2>1. ASSUME NEW u \in Turns, u # t PROVE TurnPart(u)'
    <3>1. TurnPart(u) /\ turn'[u] = turn[u] /\ EpisodicShape BY <1>6, <2>1 DEF EpisodicInv
    <3> QED BY <1>1, <3>1, PartUntouched
  <2> QED BY <1>7, <2>1
<1> QED BY <1>1, <1>2, <1>6, <1>8, NoRowSaved

\* Saving a line, or failing to, leaves what is left to save apart from it.
LEMMA SaveKeeps ==
  ASSUME EpisodicInv, NEW t \in Turns, SaveEpisodic(t)
  PROVE  EpisodicInv'
<1> DEFINE items == turn[t].items
           said == SaidIn(turn[t].messages)
<1>1. turn[t].at = "saving" /\ turn \in [Turns -> TurnRecords] /\ episodic \in Seq(RowRecords)
  BY DEF SaveEpisodic, EpisodicInv, EpisodicShape
<1>2. /\ items \in Seq(Texts) /\ Len(items) \in 1 .. 2
      /\ \A k \in 1 .. Len(items) : FromUser(items[k], said)
      /\ Len(items) = 2 => ~NearDuplicate(items[2], items[1])
      /\ \A i \in Positions : episodic[i].turn = t =>
           /\ Len(items) = 1 /\ ~NearDuplicate(items[1], episodic[i].words)
           /\ \A j \in Positions : episodic[j].turn = t => i = j
  BY <1>1 DEF EpisodicInv, TurnPart, TurnRecords
<1>3. /\ turn' \in [Turns -> TurnRecords]
      /\ turn'[t].messages = turn[t].messages /\ turn'[t].items = Tail(items)
      /\ turn'[t].at = IF Len(items) = 1 THEN "done" ELSE "saving"
      /\ \A u \in Turns : u # t => turn'[u] = turn[u]
  <2> DEFINE place == IF Len(items) = 1 THEN "done" ELSE "saving"
             first == [turn[t] EXCEPT !.items = Tail(items)]
             second == [first EXCEPT !.at = place]
  <2>1. first \in TurnRecords /\ first.items = Tail(items) /\ first.messages = turn[t].messages
    <3>1. Tail(items) \in Seq(Texts) BY <1>2
    <3> QED BY <1>1, <3>1 DEF TurnRecords
  <2>2. /\ second \in TurnRecords /\ second.items = Tail(items) /\ second.at = place
        /\ second.messages = turn[t].messages
    <3> HIDE DEF first
    <3> QED BY <2>1 DEF TurnRecords, TurnStates
  <2>3. turn' = [turn EXCEPT ![t] = second] BY <1>1 DEF SaveEpisodic
  <2> HIDE DEF second
  <2> QED BY <1>1, <2>2, <2>3
<1>4. \/ UNCHANGED episodic
      \/ episodic' = Append(episodic, [turn |-> t, words |-> Head(items)])
  BY DEF SaveEpisodic
<1>5. Len(items) = 2 => Len(Tail(items)) = 1 /\ Tail(items)[1] = items[2] BY <1>2
<1>6. Head(items) = items[1] /\ items[1] \in Texts BY <1>2
<1> HIDE DEF items
<1>7. ASSUME UNCHANGED episodic PROVE EpisodicInv'
  <2>1. TurnPart(t)'
    <3>1. CASE Len(items) = 1 BY <1>3, <3>1 DEF TurnPart
    <3>2. CASE Len(items) = 2
      <4>1. \A i \in Positions : episodic[i].turn # t BY <1>2, <3>2
      <4>2. /\ turn'[t].at = "saving" /\ Len(turn'[t].items) = 1 /\ turn'[t].items[1] = items[2]
            /\ SaidIn(turn'[t].messages) = said
        BY SMTT(20), <1>3, <1>5, <3>2
      <4>3. FromUser(items[2], said) BY <1>2, <3>2
      <4> HIDE DEF said
      <4> QED BY <1>7, <4>1, <4>2, <4>3 DEF TurnPart, Positions
    <3> QED BY <1>2, <3>1, <3>2
  <2>2. \A u \in Turns : TurnPart(u)'
    <3>1. ASSUME NEW u \in Turns, u # t PROVE TurnPart(u)'
      <4>1. TurnPart(u) /\ turn'[u] = turn[u] /\ EpisodicShape BY <1>3, <3>1 DEF EpisodicInv
      <4> QED BY <1>7, <4>1, PartUntouched
    <3> QED BY <2>1, <3>1
  <2> QED BY <1>3, <1>7, <2>2, NoRowSaved
<1>8. ASSUME episodic' = Append(episodic, [turn |-> t, words |-> Head(items)])
      PROVE  EpisodicInv'
  <2> DEFINE n == Len(episodic)
  <2>1. PICK row : row = [turn |-> t, words |-> items[1]] OBVIOUS
  <2>2. row \in RowRecords /\ row.turn = t /\ row.words = items[1]
    BY <1>6, <2>1 DEF RowRecords
  <2>3. episodic' = Append(episodic, row) BY <1>6, <1>8, <2>1
  <2>4. /\ n \in Nat /\ Len(episodic') = n + 1 /\ episodic' \in Seq(RowRecords)
        /\ \A i \in Positions : episodic'[i] = episodic[i]
        /\ episodic'[n + 1] = row
    BY <1>1, <2>2, <2>3 DEF Positions
  <2>5. \A i \in Positions' : (i \in Positions /\ episodic'[i] = episodic[i]) \/ i = n + 1
    BY <2>4 DEF Positions
  <2> HIDE DEF n
  <2>6. EpisodicShape' BY <1>3, <2>4 DEF EpisodicShape
  <2>7. RowsStated'
    <3> SUFFICES ASSUME NEW i \in Positions'
                PROVE  FromUser(episodic'[i].words, SaidIn(turn'[episodic'[i].turn].messages))
      BY DEF RowsStated
    <3>1. CASE i \in Positions /\ episodic'[i] = episodic[i]
      <4>1. FromUser(episodic[i].words, SaidIn(turn[episodic[i].turn].messages))
        BY <3>1 DEF EpisodicInv, RowsStated
      <4>2. episodic[i] \in RowRecords BY <1>1, <3>1 DEF Positions
      <4>3. turn'[episodic[i].turn].messages = turn[episodic[i].turn].messages
        BY <1>3, <4>2 DEF RowRecords
      <4> QED BY <3>1, <4>1, <4>3
    <3>2. CASE i = n + 1
      <4>1. FromUser(items[1], said) BY <1>2
      <4> QED BY <1>3, <2>2, <2>4, <3>2, <4>1
    <3> QED BY <2>5, <3>1, <3>2
  <2>8. TurnPart(t)'
    <3>1. CASE Len(items) = 1 BY <1>3, <3>1 DEF TurnPart
    <3>2. CASE Len(items) = 2
      <4>1. \A i \in Positions : episodic[i].turn # t BY <1>2, <3>2
      <4>2. /\ turn'[t].at = "saving" /\ Len(turn'[t].items) = 1 /\ turn'[t].items[1] = items[2]
            /\ SaidIn(turn'[t].messages) = said
        BY SMTT(20), <1>3, <1>5, <3>2
      <4>3. FromUser(items[2], said) /\ ~NearDuplicate(items[2], items[1]) BY <1>2, <3>2
      <4>4. \A i \in Positions' : episodic'[i].turn = t => i = n + 1 BY <2>5, <4>1
      <4>5. episodic'[n + 1].words = items[1] BY <2>2, <2>4
      <4> HIDE DEF said
      <4> QED BY <4>2, <4>3, <4>4, <4>5 DEF TurnPart
    <3> QED BY <1>2, <3>1, <3>2
  <2>9. \A u \in Turns : TurnPart(u)'
    <3>1. ASSUME NEW u \in Turns, u # t PROVE TurnPart(u)'
      <4>1. TurnPart(u) /\ turn'[u] = turn[u] /\ EpisodicShape BY <1>3, <3>1 DEF EpisodicInv
      <4>2. row.turn # u BY <2>2, <3>1
      <4> QED BY <2>3, <4>1, <4>2, PartUntouched
    <3> QED BY <2>8, <3>1
  <2>10. TurnRemembersOnce'
    <3> SUFFICES ASSUME NEW i \in 1 .. Len(episodic'), NEW j \in 1 .. Len(episodic'),
                        i < j, episodic'[i].turn = episodic'[j].turn
                PROVE  /\ ~NearDuplicate(episodic'[j].words, episodic'[i].words)
                       /\ \A k \in (j + 1)..Len(episodic') : episodic'[k].turn # episodic'[i].turn
      BY DEF TurnRemembersOnce
    <3>1. i \in Positions /\ episodic'[i] = episodic[i]
      BY <2>4, <2>5 DEF Positions
    <3>2. CASE j = n + 1
      <4>1. episodic[i].turn = t BY <2>2, <2>4, <3>1, <3>2
      <4>2. ~NearDuplicate(items[1], episodic[i].words) BY <1>2, <3>1, <4>1
      <4> QED BY <2>2, <2>4, <3>1, <3>2, <4>2
    <3>3. CASE j \in Positions /\ episodic'[j] = episodic[j]
      <4>1. /\ ~NearDuplicate(episodic[j].words, episodic[i].words)
            /\ \A k \in (j + 1)..Len(episodic) : episodic[k].turn # episodic[i].turn
        BY <3>1, <3>3 DEF EpisodicInv, TurnRemembersOnce, Positions
      <4>2. episodic[i].turn # t
        <5>1. episodic[j].turn = episodic[i].turn BY <3>1, <3>3
        <5>2. i # j OBVIOUS
        <5> QED BY <1>2, <3>1, <3>3, <5>1, <5>2
      <4>3. ASSUME NEW k \in (j + 1)..Len(episodic')
            PROVE  episodic'[k].turn # episodic'[i].turn
        <5>1. k \in Positions' /\ k > j BY <2>4 DEF Positions
        <5>2. CASE k = n + 1 BY <2>2, <2>4, <3>1, <4>2, <5>2
        <5>3. CASE k \in Positions /\ episodic'[k] = episodic[k]
          BY <3>1, <4>1, <5>1, <5>3 DEF Positions
        <5> QED BY <2>5, <5>1, <5>2, <5>3
      <4> QED BY <3>1, <3>3, <4>1, <4>3
    <3>4. j \in Positions' BY DEF Positions
    <3> QED BY <2>5, <3>2, <3>3, <3>4
  <2> QED BY <2>6, <2>7, <2>9, <2>10 DEF EpisodicInv
<1> QED BY <1>4, <1>7, <1>8 DEF items

\* A process that stops loses what its turns had not saved.
LEMMA LoseKeeps ==
  ASSUME EpisodicInv, LoseTasks, UNCHANGED episodic
  PROVE  EpisodicInv'
<1>1. turn \in [Turns -> TurnRecords] BY DEF EpisodicInv, EpisodicShape
<1>2. ASSUME NEW t \in Turns
      PROVE  /\ turn'[t] \in TurnRecords /\ turn'[t].messages = turn[t].messages
             /\ (turn'[t] = turn[t] \/ turn'[t].at = "lost")
  <2> DEFINE first == [turn[t] EXCEPT !.at = "lost"]
             second == [first EXCEPT !.items = <<>>]
  <2>1. first \in TurnRecords /\ first.at = "lost" /\ first.messages = turn[t].messages
    BY <1>1 DEF TurnRecords, TurnStates
  <2>2. second \in TurnRecords /\ second.at = "lost" /\ second.messages = turn[t].messages
    <3> HIDE DEF first
    <3>1. <<>> \in Seq(Texts) OBVIOUS
    <3> QED BY <2>1, <3>1 DEF TurnRecords
  <2>3. turn'[t] = turn[t] \/ turn'[t] = second BY DEF LoseTasks
  <2> HIDE DEF second
  <2> QED BY <1>1, <2>2, <2>3
<1>3. turn' \in [Turns -> TurnRecords]
  <2>1. DOMAIN turn' = Turns /\ turn' = [t \in Turns |-> turn'[t]] BY DEF LoseTasks
  <2> QED BY <1>2, <2>1
<1>4. ASSUME NEW t \in Turns PROVE TurnPart(t)'
  <2>1. CASE turn'[t] = turn[t] BY <2>1, PartUntouched DEF EpisodicInv
  <2>2. CASE turn'[t].at = "lost" BY <2>2 DEF TurnPart
  <2> QED BY <1>2, <2>1, <2>2
<1> QED BY <1>2, <1>3, <1>4, NoRowSaved

\* Consolidation and the index leave turns and their rows alone.
LEMMA OthersKeep ==
  ASSUME EpisodicInv, UNCHANGED <<turn, episodic>>
  PROVE  EpisodicInv'
<1>1. \A t \in Turns : TurnPart(t)' BY PartUntouched DEF EpisodicInv
<1>2. turn' \in [Turns -> TurnRecords] BY DEF EpisodicInv, EpisodicShape
<1> QED BY <1>1, <1>2, NoRowSaved

LEMMA EpisodicStarts == Init => EpisodicInv
<1> SUFFICES ASSUME Init PROVE EpisodicInv
  OBVIOUS
<1>1. turn = [t \in Turns |-> NewTurn] /\ episodic = <<>> BY DEF Init
<1>2. EpisodicShape
  <2>1. <<>> \in Seq(RowRecords) OBVIOUS
  <2> QED BY <1>1, <2>1, TurnRecordFacts DEF EpisodicShape
<1>3. Positions = {} BY <1>1 DEF Positions
<1>4. \A t \in Turns : TurnPart(t) BY <1>1, <1>3, TurnRecordFacts DEF TurnPart
<1>5. RowsStated BY <1>3 DEF RowsStated
<1>6. TurnRemembersOnce BY <1>3 DEF TurnRemembersOnce, Positions
<1> QED BY <1>2, <1>4, <1>5, <1>6 DEF EpisodicInv

LEMMA EpisodicSteps == EpisodicInv /\ [Next]_vars => EpisodicInv'
<1> SUFFICES ASSUME EpisodicInv, [Next]_vars PROVE EpisodicInv'
  OBVIOUS
<1>1. CASE UNCHANGED vars BY <1>1, OthersKeep DEF vars, databaseVars, taskVars
<1>2. CASE IndexAlone BY <1>2, OthersKeep DEF IndexAlone, databaseVars, taskVars
<1>3. CASE Stop BY <1>3, LoseKeeps DEF Stop, databaseVars
<1>4. ASSUME NEW t \in Turns, StartEpisodic(t) PROVE EpisodicInv' BY <1>4, StartKeeps
<1>5. ASSUME NEW t \in Turns, Extract(t) PROVE EpisodicInv' BY <1>5, ExtractKeeps
<1>6. ASSUME NEW t \in Turns, SaveEpisodic(t) PROVE EpisodicInv' BY <1>6, SaveKeeps
<1>7. ASSUME NEW t \in Turns,
             ReadRecent(t) \/ Consolidate(t) \/ CheckItem(t) \/ InsertSemantic(t)
               \/ EmbeddingFails(t) \/ AddVector(t) \/ Indexed(t)
      PROVE  EpisodicInv'
  <2>1. UNCHANGED <<turn, episodic>>
    BY <1>7 DEF ReadRecent, Consolidate, CheckItem, InsertSemantic, EmbeddingFails,
                AddVector, Indexed, databaseVars
  <2> QED BY <2>1, OthersKeep
<1> QED BY <1>1, <1>2, <1>3, <1>4, <1>5, <1>6, <1>7 DEF Next

\* What turns remember of what their users stated.
THEOREM EpisodicInvariant == MemorySpec => []EpisodicInv
BY EpisodicStarts, EpisodicSteps, PTL DEF MemorySpec

\* What is remembered of a turn comes from the last user message and from
\* nothing around it, and from what was only asked there only in a request to
\* remember or a correction, whatever the model makes of it.
THEOREM RowsAreOwn == MemorySpec => []RememberedIsOwn
<1>1. ASSUME EpisodicInv PROVE RememberedIsOwn
  <2> SUFFICES ASSUME NEW i \in 1 .. Len(episodic)
               PROVE  LET row == episodic[i]
                          message == LastUserMessage(turn[row.turn].messages)
                      IN  /\ ComesFrom(row.words, message, {"statement", "query"})
                          /\ ~ExplicitRequest(message) =>
                               ComesFrom(row.words, message, {"statement"})
    BY DEF RememberedIsOwn
  <2> DEFINE m == LastUserMessage(turn[episodic[i].turn].messages)
             words == episodic[i].words
             From(kinds) == UNION {m.segments[k].words :
                              k \in {j \in 1..Len(m.segments) : m.segments[j].kind \in kinds}}
  <2>1. words \in Texts
    <3>1. episodic[i] \in RowRecords BY <1>1 DEF EpisodicInv, EpisodicShape
    <3> QED BY <3>1 DEF RowRecords
  <2>2. FromUser(words, SaidIn(turn[episodic[i].turn].messages))
    BY <1>1 DEF EpisodicInv, RowsStated, Positions
  <2>3. CASE ExplicitRequest(m)
    <3>1. FromUser(words, From({"statement", "query"})) BY <2>2, <2>3 DEF SaidIn
    <3> QED BY <2>3, <3>1 DEF ComesFrom, FromUser
  <2>4. CASE ~ExplicitRequest(m)
    <3>1. FromUser(words, From({"statement"})) BY <2>2, <2>4 DEF SaidIn
    <3>2. From({"statement"}) \subseteq From({"statement", "query"}) OBVIOUS
    <3>3. FromUser(words, From({"statement", "query"}))
      <4> HIDE DEF words, From
      <4> QED BY <2>1, <3>1, <3>2, FromMore
    <3> QED BY <3>1, <3>3 DEF ComesFrom, FromUser
  <2> QED BY <2>3, <2>4
<1> QED BY <1>1, EpisodicInvariant, PTL

\* A turn saves at most two rows, which do not repeat each other, however the
\* saves of several turns are interleaved.
THEOREM RememberedOnce == MemorySpec => []TurnRemembersOnce
<1>1. EpisodicInv => TurnRemembersOnce BY DEF EpisodicInv
<1> QED BY <1>1, EpisodicInvariant, PTL


-----------------------------------------------------------------------------
(* What consolidations work on                                             *)

\* A consolidation has items while it works through them, and a row of the
\* database while it embeds or indexes one.
Items == [allowed : BOOLEAN, content : Knowledge]
TaskRecords == [at : TaskStates, items : Seq(Items), row : Nat]
Indexes(t) == task[t].at \in {"embedding", "indexing"}

Stored == 1 .. Len(semantic)

TaskPart(t) ==
  /\ task[t].at \in {"checking", "inserting", "embedding", "indexing"} => Len(task[t].items) > 0
  /\ IF Indexes(t) THEN task[t].row \in Stored ELSE task[t].row = 0

\* A turn that has not saved everything has started no consolidation.
TurnsFirst ==
  \A t \in Turns : turn[t].at \in {"waiting", "extracting", "saving"} => task[t].at = "none"

SemanticShape ==
  /\ task \in [Turns -> TaskRecords] /\ semantic \in Seq(Knowledge) /\ Stored \subseteq Rows
  /\ crashes \in Nat /\ failures \in Nat

\* The map names rows of the database, in memory and in the file.
MapOfRows == DOMAIN idToHnsw \subseteq Stored /\ DOMAIN mapFile.labels \subseteq Stored

Reachable(r) ==
  r \in DOMAIN idToHnsw \/ r \in unembedded \/ \E t \in Turns : task[t].row = r

\* In the first life of the process nothing is stored before it serves, and no
\* row that is stored is forgotten, unless something has failed.
FirstLife ==
  /\ step \in {"down"} \cup Starting => Len(semantic) = 0
  /\ step \notin {"exitIndex", "exitMap"}
  /\ \A t \in Turns : task[t].at = "indexing" =>
                        task[t].row \in DOMAIN idToHnsw \/ failures # 0
  /\ \A r \in Stored : Reachable(r) \/ failures # 0

SemanticInv ==
  /\ SemanticShape /\ TurnsFirst /\ (\A t \in Turns : TaskPart(t)) /\ MapOfRows
  /\ crashes = 0 => FirstLife

-----------------------------------------------------------------------------
\* The map of the index changes with no other rows than those of its file,
\* and, once the process has started, with none at all.
LEMMA IndexKeepsRows ==
  ASSUME SemanticInv, Start \/ IndexStep \/ Crash \/ Exit, UNCHANGED <<semantic, unembedded>>
  PROVE  /\ MapOfRows' /\ crashes' \in Nat /\ failures' \in Nat
         /\ failures' = 0 => failures = 0
         /\ crashes' = 0 => /\ crashes = 0
                            /\ step' \in {"down"} \cup Starting => Len(semantic) = 0
                            /\ step' \notin {"exitIndex", "exitMap"}
                            /\ Len(semantic) = 0 \/ idToHnsw' = idToHnsw
<1>1. MapOfRows /\ crashes \in Nat /\ failures \in Nat /\ (crashes = 0 => FirstLife)
  BY DEF SemanticInv, SemanticShape
<1>2. DOMAIN BrokenMap.labels = {} /\ DOMAIN Empty = {} BY DEF BrokenMap, Empty
<1>6. failures' = failures \/ failures' = failures + 1 BY CountsGrow DEF IndexNext
<1>3. MapOfRows'
  <2> USE DEF MapOfRows, Stored
  <2>1. CASE Start \/ Exit BY <1>1, <2>1 DEF Start, Exit, memoryVars
  <2>2. CASE LoadIndex \/ SaveExpanded \/ CheckPair
    BY <1>1, <1>2, <2>2 DEF LoadIndex, SaveExpanded, CheckPair, StartAfresh
  <2>3. CASE ResetMapFile \/ SaveAddedMap \/ SaveExitMap
    BY <1>1, <1>2, <2>3 DEF ResetMapFile, SaveAddedMap, SaveExitMap, SaveIdMap, SavedMap, memoryVars
  <2>4. CASE ResetIndexFile \/ SaveAddedIndex \/ SaveExitIndex \/ Insert
    BY <1>1, <2>4 DEF ResetIndexFile, SaveAddedIndex, SaveExitIndex, Insert, memoryVars
  <2>5. CASE Crash BY <1>1, <1>2, <2>5 DEF Crash, memoryVars
  <2> QED BY <2>1, <2>2, <2>3, <2>4, <2>5 DEF IndexStep
<1>4. \/ crashes' = crashes /\ ~(Exit \/ Crash)
      \/ crashes' = crashes + 1
  <2>1. CASE Exit \/ Crash BY <2>1 DEF Exit, Crash
  <2>2. CASE Start \/ IndexStep
    BY <2>2 DEF Start, IndexStep, LoadIndex, SaveExpanded, CheckPair, ResetMapFile,
                ResetIndexFile, Insert, SaveAddedMap, SaveAddedIndex, SaveExitIndex,
                SaveExitMap, Exit, Crash
  <2> QED BY <2>1, <2>2
<1>5. ASSUME crashes' = 0
      PROVE  /\ crashes = 0
             /\ step' \in {"down"} \cup Starting => Len(semantic) = 0
             /\ step' \notin {"exitIndex", "exitMap"}
             /\ Len(semantic) = 0 \/ idToHnsw' = idToHnsw
  <2>1. crashes = 0 /\ ~(Exit \/ Crash) BY <1>1, <1>4, <1>5
  <2>2. FirstLife BY <1>1, <2>1
  <2> USE DEF FirstLife, Starting
  <2>3. CASE Start \/ LoadIndex \/ SaveExpanded \/ CheckPair
    BY <2>1, <2>2, <2>3 DEF Start, LoadIndex, SaveExpanded, CheckPair, StartAfresh, SaveIndex
  <2>4. CASE ResetMapFile \/ ResetIndexFile
    BY <2>1, <2>2, <2>4 DEF ResetMapFile, ResetIndexFile, SaveIdMap, SaveIndex, memoryVars
  <2>5. CASE Insert \/ SaveAddedMap \/ SaveAddedIndex
    BY <2>1, <2>2, <2>5 DEF Insert, SaveAddedMap, SaveAddedIndex, SaveIdMap, SaveIndex, memoryVars
  <2>6. CASE SaveExitIndex \/ SaveExitMap BY <2>1, <2>2, <2>6 DEF SaveExitIndex, SaveExitMap
  <2> QED BY <2>1, <2>3, <2>4, <2>5, <2>6 DEF IndexStep
<1> QED BY <1>1, <1>3, <1>4, <1>5, <1>6

\* A task whose record is kept keeps its part, when no row is taken away.
LEMMA TaskUntouched ==
  ASSUME NEW t, TaskPart(t), task'[t] = task[t], Stored \subseteq Stored'
  PROVE  TaskPart(t)'
BY DEF TaskPart, Indexes

LEMMA SemanticStarts == Init => SemanticInv
<1> SUFFICES ASSUME Init PROVE SemanticInv
  OBVIOUS
<1>1. /\ task = [t \in Turns |-> NoTask] /\ semantic = <<>> /\ unembedded = {}
      /\ step = "down" /\ crashes = 0 /\ failures = 0 /\ DOMAIN idToHnsw = {} /\ DOMAIN mapFile.labels = {}
  BY DEF Init, IndexInit, Empty
<1>2. NoTask \in TaskRecords /\ NoTask.at = "none" /\ NoTask.row = 0
  <2>1. <<>> \in Seq(Items) OBVIOUS
  <2> QED BY <2>1 DEF NoTask, TaskRecords, TaskStates
<1>3. Len(semantic) = 0 /\ Stored = {} /\ semantic \in Seq(Knowledge) BY <1>1 DEF Stored
<1>4. SemanticShape BY <1>1, <1>2, <1>3 DEF SemanticShape
<1>5. \A t \in Turns : TaskPart(t) BY <1>1, <1>2 DEF TaskPart, Indexes
<1>6. MapOfRows /\ TurnsFirst BY <1>1, <1>2 DEF MapOfRows, TurnsFirst
<1>7. FirstLife BY <1>1, <1>2, <1>3 DEF FirstLife
<1> QED BY <1>4, <1>5, <1>6, <1>7 DEF SemanticInv

\* Steps of the index, the start included.
LEMMA IndexAloneKeeps == ASSUME SemanticInv, IndexAlone PROVE SemanticInv'
<1>1. /\ Start \/ IndexStep
      /\ UNCHANGED <<semantic, unembedded, task, turn>>
  BY DEF IndexAlone, databaseVars, taskVars
<1>2. SemanticShape /\ TurnsFirst /\ (\A t \in Turns : TaskPart(t)) /\ (crashes = 0 => FirstLife)
  BY DEF SemanticInv
<1>3. /\ MapOfRows' /\ crashes' \in Nat /\ failures' \in Nat
      /\ failures' = 0 => failures = 0
      /\ crashes' = 0 => /\ crashes = 0
                         /\ step' \in {"down"} \cup Starting => Len(semantic) = 0
                         /\ step' \notin {"exitIndex", "exitMap"}
                         /\ Len(semantic) = 0 \/ idToHnsw' = idToHnsw
  BY <1>1, IndexKeepsRows
<1>4. Stored' = Stored BY <1>1 DEF Stored
<1>5. SemanticShape' BY <1>1, <1>2, <1>3, <1>4 DEF SemanticShape
<1>6. \A t \in Turns : TaskPart(t)' BY <1>1, <1>2, <1>4, TaskUntouched
<1>7. ASSUME crashes' = 0 PROVE FirstLife'
  <2>1. FirstLife BY <1>2, <1>3, <1>7
  <2>2. CASE Len(semantic) = 0
    <3>1. Stored = {} BY <2>2 DEF Stored
    <3>2. \A t \in Turns : ~Indexes(t) BY <1>2, <3>1 DEF TaskPart
    <3> QED BY <1>1, <1>3, <1>4, <1>7, <2>1, <2>2, <3>1, <3>2 DEF FirstLife, Indexes
  <2>3. CASE idToHnsw' = idToHnsw
    BY <1>1, <1>3, <1>4, <1>7, <2>1, <2>3 DEF FirstLife, Reachable
  <2> QED BY <1>3, <1>7, <2>2, <2>3
<1>8. TurnsFirst' BY <1>1, <1>2 DEF TurnsFirst
<1> QED BY <1>3, <1>5, <1>6, <1>7, <1>8 DEF SemanticInv

\* A process that ends loses its tasks, and its first life is over.
LEMMA StopKeeps == ASSUME SemanticInv, turn \in [Turns -> TurnRecords], Stop PROVE SemanticInv'
<1>1. Crash \/ Exit BY DEF Stop
<1>2. LoseTasks /\ UNCHANGED <<semantic, unembedded>> BY DEF Stop, databaseVars
<1>3. SemanticShape /\ TurnsFirst /\ (\A t \in Turns : TaskPart(t)) BY DEF SemanticInv
<1>4. MapOfRows' /\ crashes' \in Nat /\ failures' \in Nat BY <1>1, <1>2, IndexKeepsRows
<1>5. crashes' # 0 BY <1>1, <1>3 DEF Crash, Exit, SemanticShape
<1>6. [NoTask EXCEPT !.at = "lost"] \in TaskRecords
  <2>1. <<>> \in Seq(Items) OBVIOUS
  <2> QED BY <2>1 DEF NoTask, TaskRecords, TaskStates
<1>7. ASSUME NEW t \in Turns
      PROVE  /\ task'[t] \in TaskRecords
             /\ (task'[t] = task[t] \/ (task'[t].at = "lost" /\ task'[t].row = 0))
  <2>1. task[t] \in TaskRecords BY <1>3 DEF SemanticShape
  <2>2. task'[t] = task[t] \/ task'[t] = [NoTask EXCEPT !.at = "lost"] BY <1>2 DEF LoseTasks
  <2>3. [NoTask EXCEPT !.at = "lost"].at = "lost" /\ [NoTask EXCEPT !.at = "lost"].row = 0
    BY DEF NoTask
  <2> QED BY <1>6, <2>1, <2>2, <2>3
<1>8. Stored' = Stored BY <1>2 DEF Stored
<1>9. SemanticShape'
  <2>1. task' \in [Turns -> TaskRecords] BY <1>2, <1>7 DEF LoseTasks
  <2> QED BY <1>2, <1>3, <1>4, <1>8, <2>1 DEF SemanticShape
<1>10. ASSUME NEW t \in Turns PROVE TaskPart(t)'
  <2>1. CASE task'[t] = task[t] BY <1>3, <1>8, <2>1, TaskUntouched
  <2>2. CASE task'[t].at = "lost" /\ task'[t].row = 0 BY <2>2 DEF TaskPart, Indexes
  <2> QED BY <1>7, <2>1, <2>2
<1>11. TurnsFirst'
  <2> SUFFICES ASSUME NEW t \in Turns, turn'[t].at \in {"waiting", "extracting", "saving"}
              PROVE  task'[t].at = "none"
    BY DEF TurnsFirst
  <2> DEFINE first == [turn[t] EXCEPT !.at = "lost"]
             second == [first EXCEPT !.items = <<>>]
  <2>1. first \in TurnRecords /\ first.at = "lost" BY DEF TurnRecords, TurnStates
  <2>2. second.at = "lost"
    <3> HIDE DEF first
    <3> QED BY <2>1 DEF TurnRecords
  <2>3. turn'[t] = turn[t] \/ turn'[t] = second BY <1>2 DEF LoseTasks
  <2> HIDE DEF second
  <2>4. task[t].at = "none" BY <1>3, <2>2, <2>3 DEF TurnsFirst
  <2> QED BY <1>2, <2>4 DEF LoseTasks
<1> QED BY <1>4, <1>5, <1>9, <1>10, <1>11 DEF SemanticInv

-----------------------------------------------------------------------------
\* A step of one task, or of one turn, that takes no row away.
LEMMA OthersPart ==
  ASSUME SemanticInv, NEW t \in Turns, \A u \in Turns : u # t => task'[u] = task[u],
         TaskPart(t)', Stored \subseteq Stored'
  PROVE  \A u \in Turns : TaskPart(u)'
<1> SUFFICES ASSUME NEW u \in Turns, u # t PROVE TaskPart(u)'
  OBVIOUS
<1>1. TaskPart(u) /\ task'[u] = task[u] BY DEF SemanticInv
<1> QED BY <1>1, TaskUntouched

\* A task that has begun is that of a turn that has saved everything.
LEMMA TurnsStayFirst ==
  ASSUME SemanticInv, NEW t \in Turns, task[t].at # "none", UNCHANGED turn,
         \A u \in Turns : u # t => task'[u] = task[u]
  PROVE  TurnsFirst'
BY DEF SemanticInv, TurnsFirst

\* A task that works on no row, before and after the step.
LEMMA QuietTask ==
  ASSUME SemanticInv, NEW t \in Turns, ~Indexes(t), ~Indexes(t)', TaskPart(t)',
         task' \in [Turns -> TaskRecords], \A u \in Turns : u # t => task'[u] = task[u],
         UNCHANGED <<indexVars, semantic, unembedded>>, TurnsFirst'
  PROVE  SemanticInv'
<1>1. /\ SemanticShape /\ MapOfRows /\ (crashes = 0 => FirstLife) /\ TaskPart(t)
  BY DEF SemanticInv
<1>2. /\ Stored' = Stored
      /\ UNCHANGED <<step, idToHnsw, mapFile, crashes, failures, semantic, unembedded>>
  BY DEF indexVars, memoryVars, Stored
<1>3. \A u \in Turns : TaskPart(u)' BY <1>2, OthersPart
<1>4. SemanticShape' /\ MapOfRows' BY <1>1, <1>2 DEF SemanticShape, MapOfRows
<1>5. ASSUME crashes' = 0 PROVE FirstLife'
  <2>1. FirstLife BY <1>1, <1>2, <1>5
  <2>2. \A u \in Turns : task'[u].at = "indexing" =>
                               task'[u].row \in DOMAIN idToHnsw' \/ failures' # 0
    BY <1>2, <2>1 DEF FirstLife, Indexes
  <2>3. ASSUME NEW r \in Stored, failures' = 0 PROVE Reachable(r)'
    <3>1. Reachable(r) BY <1>2, <2>1, <2>3 DEF FirstLife
    <3>2. task[t].row # r BY <1>1 DEF TaskPart, Stored
    <3> QED BY <1>2, <3>1, <3>2 DEF Reachable
  <2> QED BY <1>2, <2>1, <2>2, <2>3 DEF FirstLife
<1> QED BY <1>3, <1>4, <1>5 DEF SemanticInv

\* The loop over the items goes on, or ends.
LEMMA NextItemFacts ==
  ASSUME NEW t \in Turns, task \in [Turns -> TaskRecords], Len(task[t].items) > 0, NextItem(t)
  PROVE  /\ task' \in [Turns -> TaskRecords] /\ (\A u \in Turns : u # t => task'[u] = task[u])
         /\ task'[t].row = 0 /\ task'[t].at \in {"done", "checking"}
         /\ task'[t].at = "checking" => Len(task'[t].items) > 0
<1> DEFINE rest == Tail(task[t].items)
           next == IF Len(task[t].items) = 1 THEN "done" ELSE "checking"
           first == [task[t] EXCEPT !.items = rest]
           second == [first EXCEPT !.row = 0]
           third == [second EXCEPT !.at = next]
<1>1. task[t] \in TaskRecords OBVIOUS
<1>2. /\ rest \in Seq(Items) /\ next \in {"done", "checking"}
      /\ next = "checking" => Len(rest) > 0
  <2>1. PICK s : s = task[t].items OBVIOUS
  <2>2. s \in Seq(Items) /\ Len(s) > 0 BY <1>1, <2>1 DEF TaskRecords
  <2>3. Tail(s) \in Seq(Items) /\ Len(Tail(s)) = Len(s) - 1 /\ Len(s) \in Nat BY <2>2
  <2>4. rest = Tail(s) /\ next = IF Len(s) = 1 THEN "done" ELSE "checking" BY <2>1
  <2> HIDE DEF rest, next
  <2> QED BY <2>2, <2>3, <2>4
<1>3. task' = [task EXCEPT ![t] = third]
  BY DEF NextItem
<1> HIDE DEF rest, next
<1>4. first \in TaskRecords /\ first.items = rest BY <1>1, <1>2 DEF TaskRecords
<1> HIDE DEF first
<1>5. second \in TaskRecords /\ second.items = rest /\ second.row = 0
  BY <1>4 DEF TaskRecords
<1> HIDE DEF second
<1>6. next \in TaskStates BY <1>2 DEF TaskStates
<1>7. third \in TaskRecords /\ third.items = rest /\ third.row = 0 /\ third.at = next
  BY <1>5, <1>6 DEF TaskRecords
<1> HIDE DEF third
<1>8. task'[t] = third BY <1>3
<1> QED BY <1>2, <1>3, <1>7, <1>8

\* A task that goes on to another of its states.
LEMMA TaskRecordFacts ==
  ASSUME NEW record \in TaskRecords, NEW next \in TaskStates,
         NEW after, after = [record EXCEPT !.at = next]
  PROVE  /\ after \in TaskRecords /\ after.at = next
         /\ after.row = record.row /\ after.items = record.items
BY DEF TaskRecords

LEMMA TurnKeeps ==
  ASSUME SemanticInv, turn \in [Turns -> TurnRecords], NEW t \in Turns,
         StartEpisodic(t) \/ Extract(t)
  PROVE  SemanticInv'
<1>1. /\ UNCHANGED <<indexVars, semantic, unembedded, task>>
      /\ turn[t].at \in {"waiting", "extracting"}
      /\ \A u \in Turns : u # t => turn'[u] = turn[u]
  BY DEF StartEpisodic, Extract, databaseVars
<1>2. SemanticShape /\ TurnsFirst /\ (\A u \in Turns : TaskPart(u)) BY DEF SemanticInv
<1>3. task[t].at = "none" BY <1>1, <1>2 DEF TurnsFirst
<1>4. TurnsFirst' BY <1>1, <1>2, <1>3 DEF TurnsFirst
<1>5. TaskPart(t)' BY <1>1, <1>2, TaskUntouched DEF Stored
<1>6. ~Indexes(t) /\ ~Indexes(t)' BY <1>1, <1>3 DEF Indexes
<1>7. task' \in [Turns -> TaskRecords] BY <1>1, <1>2 DEF SemanticShape
<1> QED BY <1>1, <1>4, <1>5, <1>6, <1>7, QuietTask

LEMMA SaveStartsTask ==
  ASSUME SemanticInv, turn \in [Turns -> TurnRecords], NEW t \in Turns, SaveEpisodic(t)
  PROVE  SemanticInv'
<1>1. SemanticShape /\ TurnsFirst /\ (\A u \in Turns : TaskPart(u)) BY DEF SemanticInv
<1>2. turn[t].at = "saving" /\ UNCHANGED <<indexVars, semantic, unembedded>>
  BY DEF SaveEpisodic
<1>3. task[t].at = "none" BY <1>1, <1>2 DEF TurnsFirst
<1>4. task[t] \in TaskRecords BY <1>1 DEF SemanticShape
<1>5. PICK next \in {"reading", "none"} :
        /\ next = IF Len(turn[t].items) = 1 THEN "reading" ELSE "none"
        /\ task' = [task EXCEPT ![t].at = next]
  BY DEF SaveEpisodic
<1>6. PICK record : record = [task[t] EXCEPT !.at = next] OBVIOUS
<1>7. record \in TaskRecords /\ record.at = next /\ record.row = task[t].row
  <2>1. next \in TaskStates BY <1>5 DEF TaskStates
  <2> QED BY <1>4, <1>6, <2>1, TaskRecordFacts
<1>8. task' = [task EXCEPT ![t] = record] BY <1>5, <1>6
<1>9. /\ task' \in [Turns -> TaskRecords] /\ task'[t] = record
      /\ \A u \in Turns : u # t => task'[u] = task[u]
  BY <1>1, <1>7, <1>8 DEF SemanticShape
<1>10. TaskPart(t)' /\ ~Indexes(t) /\ ~Indexes(t)'
  BY <1>1, <1>3, <1>5, <1>7, <1>9 DEF TaskPart, Indexes
<1>11. TurnsFirst'
  <2> SUFFICES ASSUME NEW u \in Turns, turn'[u].at \in {"waiting", "extracting", "saving"}
              PROVE  task'[u].at = "none"
    BY DEF TurnsFirst
  <2>1. CASE u # t
    <3>1. turn'[u] = turn[u] BY <2>1 DEF SaveEpisodic
    <3> QED BY <1>1, <1>9, <2>1, <3>1 DEF TurnsFirst
  <2>2. CASE u = t
    <3> DEFINE after == IF Len(turn[t].items) = 1 THEN "done" ELSE "saving"
               first == [turn[t] EXCEPT !.items = Tail(turn[t].items)]
    <3>1. turn' = [turn EXCEPT ![t] = [first EXCEPT !.at = after]] BY DEF SaveEpisodic
    <3>2. DOMAIN first = DOMAIN turn[t] OBVIOUS
    <3>3. "at" \in DOMAIN turn[t] BY DEF TurnRecords
    <3> HIDE DEF first
    <3>4. [first EXCEPT !.at = after].at = after BY <3>2, <3>3
    <3>5. turn'[t].at = after BY <3>1, <3>4
    <3>6. Len(turn[t].items) # 1 BY <2>2, <3>5
    <3> QED BY <1>5, <1>7, <1>9, <2>2, <3>6
  <2> QED BY <2>1, <2>2
<1> QED BY <1>2, <1>9, <1>10, <1>11, QuietTask

\* Reading, asking the model, and dropping an item.
LEMMA ReadingKeeps ==
  ASSUME SemanticInv, NEW t \in Turns, ReadRecent(t) \/ Consolidate(t) \/ CheckItem(t)
  PROVE  SemanticInv'
<1>1. SemanticShape /\ (\A u \in Turns : TaskPart(u)) BY DEF SemanticInv
<1>2. /\ UNCHANGED <<indexVars, semantic, unembedded, turn>>
      /\ task[t].at \in {"reading", "consolidating", "checking"}
  BY DEF ReadRecent, Consolidate, CheckItem, databaseVars
<1>3. task[t] \in TaskRecords /\ task[t].row = 0 /\ ~Indexes(t)
  BY <1>1, <1>2 DEF SemanticShape, TaskPart, Indexes
<1>4. ASSUME NEW record \in TaskRecords, task' = [task EXCEPT ![t] = record], record.row = 0,
             record.at \notin {"embedding", "indexing"},
             record.at \in {"checking", "inserting"} => Len(record.items) > 0
      PROVE  SemanticInv'
  <2>1. /\ task' \in [Turns -> TaskRecords] /\ task'[t] = record
        /\ \A u \in Turns : u # t => task'[u] = task[u]
    BY <1>1, <1>4 DEF SemanticShape
  <2>2. TaskPart(t)' /\ ~Indexes(t)' BY <1>4, <2>1 DEF TaskPart, Indexes
  <2>3. TurnsFirst' BY <1>2, <2>1, TurnsStayFirst
  <2> QED BY <1>2, <1>3, <2>1, <2>2, <2>3, QuietTask
<1>5. CASE ReadRecent(t)
  <2>1. PICK next \in {"done", "consolidating"} : task' = [task EXCEPT ![t].at = next]
    BY <1>5 DEF ReadRecent
  <2>2. PICK record : record = [task[t] EXCEPT !.at = next] OBVIOUS
  <2>3. record \in TaskRecords /\ record.at = next /\ record.row = 0
    <3>1. next \in TaskStates BY <2>1 DEF TaskStates
    <3> QED BY <1>3, <2>2, <3>1, TaskRecordFacts
  <2>4. task' = [task EXCEPT ![t] = record] BY <2>1, <2>2
  <2> QED BY <1>4, <2>1, <2>3, <2>4
<1>6. CASE Consolidate(t)
  <2>1. PICK items \in Consolidations :
          task' = [task EXCEPT ![t].items = items,
                               ![t].at = IF items = <<>> THEN "done" ELSE "checking"]
    BY <1>6 DEF Consolidate
  <2>2. items \in Seq(Items) BY <2>1, MemoryAssumption DEF Items
  <2>3. PICK next \in {"done", "checking"} :
          /\ next = IF items = <<>> THEN "done" ELSE "checking"
          /\ next = "checking" => Len(items) > 0
    BY <2>2
  <2>4. PICK first : first = [task[t] EXCEPT !.items = items] OBVIOUS
  <2>5. first \in TaskRecords /\ first.items = items /\ first.row = 0
    BY <1>3, <2>2, <2>4 DEF TaskRecords
  <2>6. PICK record : record = [first EXCEPT !.at = next] OBVIOUS
  <2>7. record \in TaskRecords /\ record.at = next /\ record.row = 0 /\ record.items = items
    <3>1. next \in TaskStates BY <2>3 DEF TaskStates
    <3> QED BY <2>5, <2>6, <3>1, TaskRecordFacts
  <2>8. task' = [task EXCEPT ![t] = record] BY <2>1, <2>3, <2>4, <2>6
  <2> QED BY <1>4, <2>3, <2>7, <2>8
<1>7. CASE CheckItem(t)
  <2>1. task[t].at = "checking" /\ Len(task[t].items) > 0
    BY <1>1, <1>7 DEF CheckItem, TaskPart
  <2>2. CASE task' = [task EXCEPT ![t].at = "inserting"]
    <3>1. PICK next : next = "inserting" OBVIOUS
    <3>2. PICK record : record = [task[t] EXCEPT !.at = next] OBVIOUS
    <3>3. /\ record \in TaskRecords /\ record.at = next /\ record.row = 0
          /\ record.items = task[t].items
      <4>1. next \in TaskStates BY <3>1 DEF TaskStates
      <4> QED BY <1>3, <3>2, <4>1, TaskRecordFacts
    <3>4. task' = [task EXCEPT ![t] = record] BY <2>2, <3>1, <3>2
    <3> QED BY <1>4, <2>1, <3>1, <3>3, <3>4
  <2>3. CASE NextItem(t)
    <3>1. task \in [Turns -> TaskRecords] BY <1>1 DEF SemanticShape
    <3>2. /\ task' \in [Turns -> TaskRecords] /\ (\A u \in Turns : u # t => task'[u] = task[u])
          /\ task'[t].row = 0 /\ task'[t].at \in {"done", "checking"}
          /\ task'[t].at = "checking" => Len(task'[t].items) > 0
      BY <2>1, <2>3, <3>1, NextItemFacts
    <3>3. TaskPart(t)' /\ ~Indexes(t)' BY <3>2 DEF TaskPart, Indexes
    <3>4. TurnsFirst' BY <1>2, <3>2, TurnsStayFirst
    <3> QED BY <1>2, <1>3, <3>2, <3>3, <3>4, QuietTask
  <2> QED BY <1>7, <2>2, <2>3 DEF CheckItem
<1> QED BY <1>5, <1>6, <1>7

\* A new row, which its own task is working on from then on.
LEMMA InsertKeeps ==
  ASSUME SemanticInv, NEW t \in Turns, InsertSemantic(t)
  PROVE  SemanticInv'
<1>1. /\ SemanticShape /\ MapOfRows /\ (crashes = 0 => FirstLife)
      /\ \A u \in Turns : TaskPart(u)
  BY DEF SemanticInv
<1>2. /\ task[t].at = "inserting" /\ Len(task[t].items) > 0 /\ task[t] \in TaskRecords
      /\ UNCHANGED <<step, idToHnsw, mapFile, crashes, failures, unembedded, turn>>
      /\ task[t].row = 0 /\ ~Indexes(t)
  BY <1>1 DEF InsertSemantic, TaskPart, SemanticShape, indexVars, memoryVars, Indexes
<1>3. CASE NextItem(t) /\ UNCHANGED semantic
  <2>1. task \in [Turns -> TaskRecords] BY <1>1 DEF SemanticShape
  <2>2. /\ task' \in [Turns -> TaskRecords] /\ (\A u \in Turns : u # t => task'[u] = task[u])
        /\ task'[t].row = 0 /\ task'[t].at \in {"done", "checking"}
        /\ task'[t].at = "checking" => Len(task'[t].items) > 0
    BY <1>2, <1>3, <2>1, NextItemFacts
  <2>3. TaskPart(t)' /\ ~Indexes(t)' BY <2>2 DEF TaskPart, Indexes
  <2>4. TurnsFirst' BY <1>2, <2>2, TurnsStayFirst
  <2>5. UNCHANGED indexVars BY DEF InsertSemantic
  <2> QED BY <1>2, <1>3, <2>2, <2>3, <2>4, <2>5, QuietTask
<1>4. ASSUME Len(semantic) + 1 \in Rows,
             semantic' = Append(semantic, Head(task[t].items).content),
             task' = [task EXCEPT ![t].at = "embedding", ![t].row = Len(semantic) + 1]
      PROVE  SemanticInv'
  <2>1. PICK n : n = Len(semantic) OBVIOUS
  <2>2. PICK content : content = Head(task[t].items).content OBVIOUS
  <2>3. n \in Nat /\ content \in Knowledge
    <3>1. PICK s : s = task[t].items OBVIOUS
    <3>2. s \in Seq(Items) /\ Len(s) > 0 BY <1>2, <3>1 DEF TaskRecords
    <3>3. Head(s) \in Items BY <3>2
    <3>4. Head(s).content \in Knowledge BY <3>3 DEF Items
    <3> QED BY <1>1, <2>1, <2>2, <3>1, <3>4 DEF SemanticShape
  <2>4. semantic' \in Seq(Knowledge) /\ Len(semantic') = n + 1
    BY <1>1, <1>4, <2>1, <2>2, <2>3 DEF SemanticShape
  <2>5. Stored' = Stored \cup {n + 1} /\ n + 1 \in Rows /\ n + 1 # 0
    BY <1>4, <2>1, <2>3, <2>4 DEF Stored
  <2>6. PICK next : next = "embedding" OBVIOUS
  <2>7. PICK first : first = [task[t] EXCEPT !.at = next] OBVIOUS
  <2>8. first \in TaskRecords /\ first.at = next /\ first.items = task[t].items
    <3>1. next \in TaskStates BY <2>6 DEF TaskStates
    <3> QED BY <1>2, <2>7, <3>1, TaskRecordFacts
  <2>9. PICK record : record = [first EXCEPT !.row = n + 1] OBVIOUS
  <2>10. /\ record \in TaskRecords /\ record.at = next /\ record.items = task[t].items
         /\ record.row = n + 1
    BY <2>3, <2>8, <2>9 DEF TaskRecords
  <2>11. task' = [task EXCEPT ![t] = record] BY <1>4, <2>1, <2>6, <2>7, <2>9
  <2>12. /\ task' \in [Turns -> TaskRecords] /\ task'[t] = record
         /\ \A u \in Turns : u # t => task'[u] = task[u]
    BY <1>1, <2>10, <2>11 DEF SemanticShape
  <2>13. TaskPart(t)' BY <1>2, <2>5, <2>6, <2>10, <2>12 DEF TaskPart, Indexes
  <2>14. \A u \in Turns : TaskPart(u)' BY <2>5, <2>12, <2>13, OthersPart
  <2>15. TurnsFirst' BY <1>2, <2>12, TurnsStayFirst
  <2>16. SemanticShape' /\ MapOfRows'
    BY <1>1, <1>2, <2>4, <2>5, <2>12 DEF SemanticShape, MapOfRows
  <2>17. ASSUME crashes' = 0 PROVE FirstLife'
    <3>1. FirstLife BY <1>1, <1>2, <2>17
    <3>2. step' \notin {"down", "exitIndex", "exitMap"} \cup Starting
      BY <1>2 DEF InsertSemantic, Serving, Starting
    <3>3. \A u \in Turns : task'[u].at = "indexing" =>
                               task'[u].row \in DOMAIN idToHnsw' \/ failures' # 0
      BY <1>2, <2>6, <2>10, <2>12, <3>1 DEF FirstLife
    <3>4. ASSUME NEW r \in Stored', failures' = 0 PROVE Reachable(r)'
      <4>1. CASE r = n + 1 BY <2>10, <2>12, <4>1 DEF Reachable
      <4>2. CASE r \in Stored
        <5>1. Reachable(r) /\ r # 0 BY <1>2, <3>1, <3>4, <4>2 DEF FirstLife, Stored
        <5> QED BY <1>2, <2>12, <5>1 DEF Reachable
      <4> QED BY <2>5, <4>1, <4>2
    <3> QED BY <3>2, <3>3, <3>4 DEF FirstLife
  <2> QED BY <2>14, <2>15, <2>16, <2>17 DEF SemanticInv
<1> QED BY <1>3, <1>4 DEF InsertSemantic

\* A row whose task lets go of it is in the map, or known not to be embedded.
LEMMA RowIsLeft ==
  ASSUME SemanticInv, NEW t \in Turns, Indexes(t), NextItem(t),
         UNCHANGED <<indexVars, semantic, turn>>,
         \/ unembedded' = unembedded \cup {task[t].row}
         \/ task[t].at = "indexing" /\ UNCHANGED unembedded
  PROVE  SemanticInv'
<1>1. /\ SemanticShape /\ MapOfRows /\ (crashes = 0 => FirstLife)
      /\ \A u \in Turns : TaskPart(u)
  BY DEF SemanticInv
<1>2. task \in [Turns -> TaskRecords] /\ Len(task[t].items) > 0
  BY <1>1 DEF SemanticShape, TaskPart, Indexes
<1>3. /\ task' \in [Turns -> TaskRecords] /\ (\A u \in Turns : u # t => task'[u] = task[u])
      /\ task'[t].row = 0 /\ task'[t].at \in {"done", "checking"}
      /\ task'[t].at = "checking" => Len(task'[t].items) > 0
  BY <1>2, NextItemFacts
<1>4. TaskPart(t)' BY <1>3 DEF TaskPart, Indexes
<1>5. TurnsFirst' BY <1>3, TurnsStayFirst DEF Indexes
<1>6. Stored' = Stored /\ UNCHANGED <<step, idToHnsw, mapFile, crashes, failures, semantic>>
  BY DEF indexVars, memoryVars, Stored
<1>7. \A u \in Turns : TaskPart(u)' BY <1>3, <1>4, <1>6, OthersPart
<1>8. SemanticShape' /\ MapOfRows' BY <1>1, <1>3, <1>6 DEF SemanticShape, MapOfRows
<1>9. ASSUME crashes' = 0 PROVE FirstLife'
  <2>1. FirstLife BY <1>1, <1>6, <1>9
  <2>2. \A u \in Turns : task'[u].at = "indexing" =>
                               task'[u].row \in DOMAIN idToHnsw' \/ failures' # 0
    BY <1>3, <1>6, <2>1 DEF FirstLife
  <2>3. ASSUME NEW r \in Stored, failures' = 0 PROVE Reachable(r)'
    <3>1. Reachable(r) BY <1>6, <2>1, <2>3 DEF FirstLife
    <3>2. CASE task[t].row = r
      <4>1. r \in unembedded' \/ r \in DOMAIN idToHnsw
        BY <1>6, <2>1, <2>3, <3>2 DEF FirstLife
      <4> QED BY <1>6, <4>1 DEF Reachable
    <3>3. CASE task[t].row # r BY <1>3, <1>6, <3>1, <3>3 DEF Reachable
    <3> QED BY <3>2, <3>3
  <2> QED BY <1>6, <2>1, <2>2, <2>3 DEF FirstLife
<1> QED BY <1>5, <1>7, <1>8, <1>9 DEF SemanticInv

LEMMA LeavingKeeps ==
  ASSUME SemanticInv, NEW t \in Turns, EmbeddingFails(t) \/ Indexed(t)
  PROVE  SemanticInv'
<1>1. CASE EmbeddingFails(t) BY <1>1, RowIsLeft DEF EmbeddingFails, Indexes
<1>2. CASE Indexed(t) BY <1>2, RowIsLeft DEF Indexed, Indexes, databaseVars
<1> QED BY <1>1, <1>2

\* The row of a task enters the map under its own id.
LEMMA AddKeeps ==
  ASSUME SemanticInv, NEW t \in Turns, AddVector(t)
  PROVE  SemanticInv' /\ \E row \in Rows : AddToHnsw(row)
<1>1. /\ SemanticShape /\ MapOfRows /\ (crashes = 0 => FirstLife)
      /\ \A u \in Turns : TaskPart(u)
  BY DEF SemanticInv
<1>2. PICK row : row = task[t].row OBVIOUS
<1>3. /\ task[t].at = "embedding" /\ row \in Stored /\ row \in Rows /\ AddToHnsw(row)
      /\ UNCHANGED <<semantic, unembedded, turn>> /\ Len(task[t].items) > 0
      /\ task[t] \in TaskRecords
  BY <1>1, <1>2 DEF AddVector, TaskPart, Indexes, databaseVars, SemanticShape
<1>4. /\ DOMAIN idToHnsw \subseteq DOMAIN idToHnsw'
      /\ DOMAIN idToHnsw' \subseteq DOMAIN idToHnsw \cup {row}
      /\ step' \in {"idle", "inserting"}
      /\ UNCHANGED <<mapFile, crashes>> /\ failures \in Nat /\ failures' \in Nat
      /\ failures' = 0 => failures = 0 /\ row \in DOMAIN idToHnsw'
  <2>1. failures \in Nat /\ UNCHANGED <<mapFile, crashes>>
    BY <1>1, <1>3 DEF AddToHnsw, SemanticShape
  <2>2. CASE row \in DOMAIN idToHnsw BY <1>3, <2>1, <2>2 DEF AddToHnsw
  <2>3. CASE row \notin DOMAIN idToHnsw /\ Fails /\ UNCHANGED <<step, idToHnsw>>
    BY <1>3, <2>1, <2>3 DEF AddToHnsw, Fails
  <2>4. CASE /\ row \notin DOMAIN idToHnsw /\ UNCHANGED failures /\ step' = "inserting"
             /\ idToHnsw' = [r \in DOMAIN idToHnsw \cup {row} |->
                               IF r = row THEN nextLabel + 1 ELSE idToHnsw[r]]
    BY <2>1, <2>4
  <2> QED BY <1>3, <2>2, <2>3, <2>4 DEF AddToHnsw
<1>5. PICK next : next = "indexing" OBVIOUS
<1>6. PICK record : record = [task[t] EXCEPT !.at = next] OBVIOUS
<1>7. /\ record \in TaskRecords /\ record.at = next /\ record.row = row
      /\ record.items = task[t].items
  <2>1. next \in TaskStates BY <1>5 DEF TaskStates
  <2> QED BY <1>2, <1>3, <1>6, <2>1, TaskRecordFacts
<1>8. task' = [task EXCEPT ![t] = record] BY <1>5, <1>6 DEF AddVector
<1>9. /\ task' \in [Turns -> TaskRecords] /\ task'[t] = record
      /\ \A u \in Turns : u # t => task'[u] = task[u]
  BY <1>1, <1>7, <1>8 DEF SemanticShape
<1>10. Stored' = Stored BY <1>3 DEF Stored
<1>11. TaskPart(t)' BY <1>3, <1>5, <1>7, <1>9, <1>10 DEF TaskPart, Indexes
<1>12. \A u \in Turns : TaskPart(u)' BY <1>9, <1>10, <1>11, OthersPart
<1>13. TurnsFirst' BY <1>3, <1>9, TurnsStayFirst
<1>14. SemanticShape' /\ MapOfRows'
  BY <1>1, <1>3, <1>4, <1>9, <1>10 DEF SemanticShape, MapOfRows
<1>15. ASSUME crashes' = 0 PROVE FirstLife'
  <2>1. FirstLife BY <1>1, <1>4, <1>15
  <2>2. \A u \in Turns : task'[u].at = "indexing" =>
                               task'[u].row \in DOMAIN idToHnsw' \/ failures' # 0
    BY <1>4, <1>7, <1>9, <2>1 DEF FirstLife
  <2>3. ASSUME NEW r \in Stored, failures' = 0 PROVE Reachable(r)'
    <3>1. Reachable(r) BY <1>4, <2>1, <2>3 DEF FirstLife
    <3> QED BY <1>2, <1>3, <1>4, <1>7, <1>9, <3>1 DEF Reachable
  <2> QED BY <1>4, <1>10, <2>2, <2>3 DEF FirstLife, Starting
<1> QED BY <1>3, <1>12, <1>13, <1>14, <1>15 DEF SemanticInv

-----------------------------------------------------------------------------
MemoryInv == EpisodicInv /\ SemanticInv /\ IndexInv

\* What the memory does to the index is what the index by itself may do.
LEMMA IndexInMemory == SemanticInv /\ [Next]_vars => [IndexNext]_indexVars
<1> SUFFICES ASSUME SemanticInv, [Next]_vars PROVE [IndexNext]_indexVars
  OBVIOUS
<1>1. CASE UNCHANGED vars BY <1>1 DEF vars
<1>2. CASE IndexAlone BY <1>2 DEF IndexAlone, IndexNext
<1>3. CASE Stop BY <1>3 DEF Stop, IndexNext
<1>4. ASSUME NEW t \in Turns, AddVector(t) PROVE IndexNext
  BY <1>4, AddKeeps DEF IndexNext
<1>5. ASSUME NEW t \in Turns,
             StartEpisodic(t) \/ Extract(t) \/ SaveEpisodic(t) \/ ReadRecent(t)
               \/ Consolidate(t) \/ CheckItem(t) \/ InsertSemantic(t)
               \/ EmbeddingFails(t) \/ Indexed(t)
      PROVE  UNCHANGED indexVars
  BY <1>5 DEF StartEpisodic, Extract, SaveEpisodic, ReadRecent, Consolidate, CheckItem,
              InsertSemantic, EmbeddingFails, Indexed
<1> QED BY <1>1, <1>2, <1>3, <1>4, <1>5 DEF Next

LEMMA SemanticSteps == EpisodicInv /\ SemanticInv /\ [Next]_vars => SemanticInv'
<1> SUFFICES ASSUME EpisodicInv, SemanticInv, [Next]_vars PROVE SemanticInv'
  OBVIOUS
<1>0. turn \in [Turns -> TurnRecords] BY DEF EpisodicInv, EpisodicShape
<1>1. CASE UNCHANGED vars
  BY <1>1 DEF vars, databaseVars, taskVars, indexVars, memoryVars, SemanticInv,
              SemanticShape, TurnsFirst, TaskPart, Indexes, Stored, MapOfRows, FirstLife,
              Reachable
<1>2. CASE IndexAlone BY <1>2, IndexAloneKeeps
<1>3. CASE Stop BY <1>0, <1>3, StopKeeps
<1>4. ASSUME NEW t \in Turns, StartEpisodic(t) \/ Extract(t) PROVE SemanticInv'
  BY <1>0, <1>4, TurnKeeps
<1>5. ASSUME NEW t \in Turns, SaveEpisodic(t) PROVE SemanticInv' BY <1>0, <1>5, SaveStartsTask
<1>6. ASSUME NEW t \in Turns, ReadRecent(t) \/ Consolidate(t) \/ CheckItem(t)
      PROVE  SemanticInv'
  BY <1>6, ReadingKeeps
<1>7. ASSUME NEW t \in Turns, InsertSemantic(t) PROVE SemanticInv' BY <1>7, InsertKeeps
<1>8. ASSUME NEW t \in Turns, EmbeddingFails(t) \/ Indexed(t) PROVE SemanticInv'
  BY <1>8, LeavingKeeps
<1>9. ASSUME NEW t \in Turns, AddVector(t) PROVE SemanticInv' BY <1>9, AddKeeps
<1> QED BY <1>1, <1>2, <1>3, <1>4, <1>5, <1>6, <1>7, <1>8, <1>9 DEF Next

\* Turns, rows, consolidations and the index, however they interleave.
THEOREM MemoryInvariant == MemorySpec => []MemoryInv
<1>1. Init => MemoryInv
  BY EpisodicStarts, SemanticStarts, IndexStarts DEF Init, MemoryInv
<1>2. MemoryInv /\ [Next]_vars => MemoryInv'
  BY EpisodicSteps, SemanticSteps, IndexInMemory, IndexKeepsInv DEF MemoryInv
<1> QED BY <1>1, <1>2, PTL DEF MemorySpec

\* In the first life of the process, and as long as nothing of the index has
\* failed, every row of semantic memory is in the index's map, being worked
\* on, or known not to be embedded.
THEOREM RowsSearchable == MemorySpec => []EveryRowSearchable
<1>1. SemanticInv => EveryRowSearchable
  BY DEF SemanticInv, FirstLife, Reachable, Stored, EveryRowSearchable
<1> QED BY <1>1, MemoryInvariant, PTL DEF MemoryInv

\* A search with the memory around it never answers a row with the vector of
\* another row, as long as nothing has failed or the process has not ended.
THEOREM MemoryPairMatches == MemorySpec => []PairMatches
<1>1. IndexInv => PairMatches BY HitsInFirstLife DEF IndexInv, StepInv, PairMatches
<1> QED BY <1>1, MemoryInvariant, PTL DEF MemoryInv

-----------------------------------------------------------------------------
(* What a query is given                                                   *)

\* Every neighbour is a row of the map with its own vector, and no two are
\* of the same row.
LEMMA HitsAreRows ==
  ASSUME IndexInv, SemanticInv, step = "idle", failures = 0 \/ crashes = 0
  PROVE  /\ \A hit \in Hits : /\ hit.matched = hit.found /\ hit.found \in Stored
                              /\ hit = [found |-> hit.found, matched |-> hit.found]
         /\ IsFiniteSet(Hits)
<1>1. IsFiniteSet(DOMAIN idToHnsw) /\ DOMAIN idToHnsw \subseteq Stored
  BY DEF IndexInv, LabelsBounded, SemanticInv, MapOfRows
<1>0. \A hit \in Hits : hit.found = hit.matched
  <2>1. CASE crashes = 0 BY <2>1, HitsInFirstLife DEF IndexInv
  <2>2. CASE failures = 0
    <3>1. OwnPair(index, idToHnsw) BY <2>2 DEF IndexInv, StepInv
    <3> QED BY <3>1 DEF Hits, OwnPair
  <2> QED BY <2>1, <2>2
<1>2. \A hit \in Hits : \E r \in DOMAIN idToHnsw : hit = [found |-> r, matched |-> r]
  BY <1>0 DEF Hits
<1>3. IsFiniteSet(Hits)
  <2> DEFINE rows == DOMAIN idToHnsw
             hits == {[found |-> r, matched |-> r] : r \in rows}
             f == [r \in rows |-> [found |-> r, matched |-> r]]
  <2>1. f \in Surjection(rows, hits) BY DEF Surjection
  <2>2. IsFiniteSet(hits) BY <1>1, <2>1, FS_Surjection
  <2>3. Hits \subseteq hits BY <1>2
  <2> QED BY <2>2, <2>3, FS_Subset
<1> QED BY <1>1, <1>2, <1>3

\* A selection of at most TopK ids, or nothing.
LEMMA RerankIsFew ==
  ASSUME NEW candidates, NEW answer \in Answers
  PROVE  /\ IsFiniteSet(Rerank(candidates, answer))
         /\ Cardinality(Rerank(candidates, answer)) <= TopK
<1> DEFINE ids == answer.ids
<1>1. ids \in Seq(Rows)
  <2>1. ids \in Selections
    <3>1. <<>> \in Selections BY DEF Selections
    <3>2. CASE answer \in [parsed : {TRUE}, ids : Selections] BY <3>2
    <3>3. CASE answer = [parsed |-> FALSE, ids |-> <<>>] BY <3>1, <3>3
    <3> QED BY <3>2, <3>3 DEF Answers
  <2>2. CASE ids = <<>>
    <3>1. <<>> \in Seq(Rows) OBVIOUS
    <3> QED BY <2>2, <3>1
  <2>3. CASE \E r \in Rows : ids = <<r>>
    <3>1. PICK r \in Rows : ids = <<r>> BY <2>3
    <3> QED BY <3>1
  <2>4. CASE \E r, q \in Rows : ids = <<r, q>>
    <3>1. PICK r, q \in Rows : ids = <<r, q>> BY <2>4
    <3> QED BY <3>1
  <2> QED BY <2>1, <2>2, <2>3, <2>4 DEF Selections
<1> HIDE DEF ids
<1>2. TopK \in Nat BY MemoryAssumption
<1>3. CASE Rerank(candidates, answer) = {} BY <1>2, <1>3, FS_EmptySet
<1>4. CASE Rerank(candidates, answer) # {}
  <2>1. Rerank(candidates, answer) = Range(ids) /\ Len(ids) <= TopK
    BY <1>4 DEF Rerank, ids
  <2>2. PICK n \in Nat : n = Len(ids) BY <1>1
  <2>3. IsFiniteSet(1 .. n) /\ Cardinality(1 .. n) = n
    <3>1. n \in Int /\ 1 \in Int /\ (n > 0 \/ n = 0) OBVIOUS
    <3>2. /\ IsFiniteSet(1 .. n)
          /\ Cardinality(1 .. n) = IF 1 > n THEN 0 ELSE n - 1 + 1
      BY ONLY <3>1, FS_Interval
    <3> QED BY <3>1, <3>2
  <2> DEFINE f == [i \in 1 .. n |-> ids[i]]
  <2>4. DOMAIN ids = 1 .. n BY <1>1, <2>2
  <2>5. f \in Surjection(1 .. n, Range(ids)) BY <2>4 DEF Surjection, Range
  <2>6. IsFiniteSet(Range(ids)) /\ Cardinality(Range(ids)) <= n
    BY <2>3, <2>5, FS_Surjection
  <2>7. Cardinality(Range(ids)) \in Nat BY <2>6, FS_CardinalityType
  <2> QED BY <1>2, <2>1, <2>2, <2>6, <2>7
<1> QED BY <1>3, <1>4

\* What is given of the accepted neighbours is a part of them, at most TopK.
LEMMA RetrievedIsFew ==
  ASSUME IndexInv, SemanticInv, step = "idle", failures = 0 \/ crashes = 0,
         NEW mode, NEW distance, NEW lookup,
         NEW result \in Retrievals(mode, distance, lookup, Answers)
  PROVE  result \subseteq Accepted(mode, distance, lookup) /\ Cardinality(result) <= TopK
<1> DEFINE accepted == Accepted(mode, distance, lookup)
           candidates == {h.found : h \in accepted}
<1>1. /\ accepted \subseteq Hits /\ IsFiniteSet(accepted)
      /\ \A hit \in accepted : hit = [found |-> hit.found, matched |-> hit.found]
  <2>1. accepted \subseteq Hits BY DEF Accepted
  <2> QED BY <2>1, HitsAreRows, FS_Subset
<1>2. TopK \in Nat BY MemoryAssumption
<1>3. \/ \E answer \in Answers :
           result = {hit \in accepted : hit.found \in Rerank(candidates, answer)}
      \/ result \in SUBSET accepted /\ Cardinality(result) = Min({TopK, Cardinality(accepted)})
  BY DEF Retrievals
<1> HIDE DEF accepted, candidates
<1>4. ASSUME NEW answer \in Answers,
             result = {hit \in accepted : hit.found \in Rerank(candidates, answer)}
      PROVE  result \subseteq accepted /\ Cardinality(result) <= TopK
  <2>1. PICK ids : ids = Rerank(candidates, answer) OBVIOUS
  <2>2. IsFiniteSet(ids) /\ Cardinality(ids) <= TopK BY <2>1, RerankIsFew
  <2>3. result \subseteq accepted /\ \A hit \in result : hit.found \in ids BY <1>4, <2>1
  <2> DEFINE f == [hit \in result |-> hit.found]
  <2>4. f \in [result -> ids] BY <2>3
  <2>5. \A a, b \in result : f[a] = f[b] => a = b BY <1>1, <2>3
  <2> HIDE DEF f
  <2>6. f \in Injection(result, ids) BY <2>4, <2>5 DEF Injection, IsInjective
  <2>7. IsFiniteSet(result) /\ Cardinality(result) <= Cardinality(ids)
    BY <2>2, <2>6, FS_Injection
  <2>8. Cardinality(result) \in Nat /\ Cardinality(ids) \in Nat
    BY <2>2, <2>7, FS_CardinalityType
  <2> QED BY <1>2, <2>2, <2>3, <2>7, <2>8
<1>5. ASSUME result \in SUBSET accepted,
             Cardinality(result) = Min({TopK, Cardinality(accepted)})
      PROVE  result \subseteq accepted /\ Cardinality(result) <= TopK
  <2>1. PICK c \in Nat : c = Cardinality(accepted) BY <1>1, FS_CardinalityType
  <2>2. PICK k \in Nat : k = TopK BY <1>2
  <2>3. PICK m : m = Min({k, c}) OBVIOUS
  <2>4. m = CHOOSE x \in {k, c} : \A y \in {k, c} : x <= y BY <2>3 DEF Min
  <2>5. \E x \in {k, c} : \A y \in {k, c} : x <= y OBVIOUS
  <2>6. m \in {k, c} /\ \A y \in {k, c} : m <= y BY <2>4, <2>5
  <2>7. Cardinality(result) = m BY <1>5, <2>1, <2>2, <2>3
  <2> QED BY <1>5, <2>2, <2>6, <2>7
<1> QED BY <1>3, <1>4, <1>5 DEF accepted

\* What a query is given is at most TopK rows, within its distance by their
\* own vectors, semantic ones unless the statement that reads them raised, and
\* nothing for a query that needs none: in the first life of the process
\* whatever fails in the index, and afterwards as long as nothing has.
THEOREM RetrievalIsRelevant == MemorySpec => []RetrievedIsRelevant
<1>1. ASSUME MemoryInv PROVE RetrievedIsRelevant
  <2> SUFFICES ASSUME step = "idle", failures = 0 \/ crashes = 0, NEW mode \in QueryModes,
                      NEW distance \in [Searched -> {"close", "loose", "far"}],
                      NEW lookup \in [Searched -> Lookups],
                      NEW result \in Retrievals(mode, distance, lookup, Answers)
              PROVE  /\ Cardinality(result) <= TopK
                     /\ mode = "skip" => result = {}
                     /\ \A hit \in result :
                          /\ distance[hit.found] \in Gate(mode)
                          /\ \/ lookup[hit.found] # "answered"
                             \/ FetchMemoryRow(hit.found, "answered") =
                                  {[kind |-> "semantic", content |-> semantic[hit.found]]}
    BY DEF RetrievedIsRelevant
  <2>1. IndexInv /\ SemanticInv BY <1>1 DEF MemoryInv
  <2>2. result \subseteq Accepted(mode, distance, lookup) /\ Cardinality(result) <= TopK
    BY <2>1, RetrievedIsFew
  <2>3. ASSUME NEW hit \in result
        PROVE  /\ distance[hit.found] \in Gate(mode) /\ hit.found \in Stored
    BY <2>1, <2>2, HitsAreRows DEF Accepted
  <2>4. mode = "skip" => result = {} BY <2>3 DEF Gate
  <2>5. ASSUME NEW hit \in result
        PROVE  FetchMemoryRow(hit.found, "answered")
                 = {[kind |-> "semantic", content |-> semantic[hit.found]]}
    BY <2>3 DEF FetchMemoryRow, Stored
  <2> QED BY <2>2, <2>3, <2>4, <2>5
<1> QED BY <1>1, MemoryInvariant, PTL

=============================================================================
