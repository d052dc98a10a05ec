------------------------ MODULE GenerationCleanupProofs ------------------------
(***************************************************************************)
(* Proofs about GenerationCleanup for any directories, generations and     *)
(* manifests, any number of deaths and any interference.                   *)
(*                                                                         *)
(* The safety properties follow from CInv, which says at each step which   *)
(* directory the command holds, what it read there and what the pending    *)
(* row says of it.  Somebody outside may falsify any of that between two   *)
(* steps; what survives is stated of directories the runtime made, and a   *)
(* directory that was taken away under a descriptor is empty for good.     *)
(*                                                                         *)
(* QuietInv says what holds in addition while nobody interfered; on it     *)
(* rest the admission of the own tree and the refinement of DataGeneration.*)
(***************************************************************************)

EXTENDS GenerationCleanup, TLAPS

DeletePCs  == {"scan", "remove", "check", "unmark"}
PublishPCs == {"sweep", "write", "rename"}

\* Only a directory with a name holds anything.
Dead(i) == marker[i] = None /\ files[i] = {}

DeadInv == \A i \in Inodes : i \notin outside \cup {root} => Dead(i)

\* What the command holds and knows at its step; a directory it holds is the
\* one at the path, unless somebody put another one there.
HandsInv ==
  /\ pc \in IdlePCs \cup {"pending", "open", "evaluate", "materialize", "session"} =>
       held = None
  /\ pc \in {"intent", "revalidate", "rmdir"} \cup DeletePCs \cup PublishPCs => held # None
  /\ pc \in IdlePCs \cup {"pending", "open", "evaluate"} => seen = None
  /\ pc \in {"intent", "session"} => seen # None
  /\ held # None /\ root # None /\ root \notin outside => root = held

\* A pending row stands from the intent to the completion, and only then;
\* what is persistent is in it by a purge.
RowInv ==
  /\ pc \in DeletePCs \cup {"revalidate", "rmdir", "complete"} => pending # None
  /\ pc \in {"open", "intent", "evaluate", "materialize", "session"} \cup PublishPCs =>
       pending = None
  /\ pending # None /\ Keeps(pending.marker) => pending.purge
  /\ pc = "intent" /\ Keeps(seen) => from = "clean" /\ kind = "purge"

\* The directory under deletion carries the marker of the intent to the end.
DeletionInv ==
  /\ pc = "intent" => marker[held] = seen \/ held \notin outside \cup {root}
  /\ pc \in DeletePCs =>
       /\ held = pending.root
       /\ marker[held] = pending.marker \/ held \notin outside \cup {root}
  /\ pc = "unmark" => files[held] \cap Gens = {}
  /\ pc = "complete" => root = None \/ root \in outside

\* A publication replaces no marker but the one it evaluated, and a session
\* writes into the generation it published or adopted.
PublicationInv ==
  /\ pc = "materialize" /\ root # None /\ root \notin outside => marker[root] \in {None, seen}
  /\ pc \in PublishPCs /\ held \notin outside => marker[held] \in {None, seen}
  /\ pc = "session" /\ root # None /\ root \notin outside => marker[root] = seen
  /\ pc \in {"materialize", "session"} \cup PublishPCs /\ seen # None =>
       /\ seen.gen \in Gens \ deleted
       /\ Keeps(seen) => manifest \in Keeping

\* Every generation in a marker or a row was issued, or comes from elsewhere.
Known(m) == m \in issued \/ m.gen = "elsewhere"

HistoryInv ==
  /\ \A m \in issued : m.gen \in Gens /\ m.owner = "own"
  /\ \A i \in Inodes :
       marker[i] # None =>
         Known(marker[i]) /\ (marker[i].owner = "own" => marker[i] \in issued)
  /\ seen # None => Known(seen)
  /\ pending # None => Known(pending.marker)
  /\ \A g \in deleted : g = "elsewhere" \/ \E m \in issued : m.gen = g

CInv ==
  /\ TypeOK
  /\ DeadInv
  /\ HandsInv
  /\ RowInv
  /\ DeletionInv
  /\ PublicationInv
  /\ HistoryInv
  /\ PayloadIsMarked
  /\ DeletedIsGone

\* Without interference the path names the directory a step is about, and
\* every state of it is one that the code continues.
Quiet ==
  /\ pc # "refused"
  /\ outside = {}
  /\ \A i \in Inodes : "foreign" \notin files[i] /\ (marker[i] # None => marker[i] \in issued)
  /\ pc \in {"intent"} \cup DeletePCs \cup PublishPCs => root = held
  /\ pending # None =>
       /\ pending.marker \in issued
       /\ pending.marker.gen \notin deleted
       /\ root # None =>
            /\ root = pending.root
            /\ \/ marker[root] = pending.marker
               \/ Dead(root) /\ pc \notin DeletePCs
  /\ pc = "remove" => files[held] \subseteq names
  /\ pc \in {"check", "unmark"} => files[held] = {}
  /\ pc \in {"revalidate", "rmdir"} => root = held /\ Dead(held)
  /\ pc \in {"materialize"} \cup PublishPCs =>
       /\ seen # None => root # None
       /\ root # None => marker[root] = seen

QuietInv == tampers = 0 => Quiet

-----------------------------------------------------------------------------
(* Types.                                                                  *)

USE GenerationAssumption, NoneAssumption
    DEF IdlePCs, PCs, Kinds, Files, DeletePCs, PublishPCs, treeVars, rowVars, localVars,
        auxVars, Go, Release, Stop, Refuse, Deny, Return

\* What somebody outside puts at the path is a marker, or none, and files.
LEMMA StrangersType ==
  ASSUME TypeOK, HistoryInv, NEW dir \in Strangers
  PROVE  /\ dir[1] \in Markers \cup {None} /\ dir[2] \subseteq Files
         /\ dir[1] # None => dir[1] \in issued \/ dir[1].gen = "elsewhere"
         /\ dir[1] # None /\ dir[1].owner = "own" => dir[1] \in issued
<1> DEFINE any == CHOOSE m \in Manifests : TRUE
           alien(o) == [gen |-> "elsewhere", owner |-> o, manifest |-> any]
<1>1. any \in Manifests
  BY DEF TypeOK
<1>2. \A o \in {"other", "oldabi"} :
        alien(o) \in Markers /\ alien(o).owner = o /\ alien(o).gen = "elsewhere"
  BY <1>1 DEF Markers
<1>3. \/ dir \in {<<None, {}>>, <<None, {"foreign"}>>}
      \/ \E o \in {"other", "oldabi"} : dir = <<alien(o), {"foreign"}>>
      \/ \E m \in issued : dir = <<m, {m.gen}>>
  BY Zenon DEF Strangers
<1>4. CASE dir \in {<<None, {}>>, <<None, {"foreign"}>>}
  BY <1>4
<1>5. CASE \E o \in {"other", "oldabi"} : dir = <<alien(o), {"foreign"}>>
  <2>1. PICK o \in {"other", "oldabi"} : dir = <<alien(o), {"foreign"}>>
    BY <1>5
  <2>2. dir[1] = alien(o) /\ dir[2] = {"foreign"}
    BY <2>1
  <2>3. alien(o) \in Markers /\ alien(o).owner = o /\ alien(o).gen = "elsewhere"
    BY <1>2
  <2> HIDE DEF alien
  <2>4. QED
    BY <2>2, <2>3
<1>6. CASE \E m \in issued : dir = <<m, {m.gen}>>
  <2>1. PICK m \in issued : dir = <<m, {m.gen}>>
    BY <1>6
  <2>2. dir[1] = m /\ dir[2] = {m.gen} /\ m \in Markers
    BY <2>1 DEF TypeOK
  <2>3. m.gen \in Gens
    BY <2>1 DEF HistoryInv
  <2>4. QED
    BY <2>1, <2>2, <2>3
<1>7. QED
  BY <1>3, <1>4, <1>5, <1>6

\* No step leaves the types of the variables.
LEMMA TypeStep == CInv /\ [Next]_vars => TypeOK'
<1> SUFFICES ASSUME CInv, [Next]_vars PROVE TypeOK'
  OBVIOUS
<1> USE DEF CInv, TypeOK
<1>1. CASE Begin \/ Retire \/ Die
  BY <1>1 DEF Begin, Retire, Die, Fault
<1>2. CASE PublishFails
  BY <1>2 DEF PublishFails, Fault, HandsInv
<1>3. CASE NothingPending \/ ResumeAbsent \/ ResumeMarked \/ ResumeEmpty \/
           ResumeRefused
  BY <1>3 DEF NothingPending, ResumeAbsent, ResumeMarked, ResumeEmpty, ResumeRefused
<1>4. CASE NoGeneration \/ OpenRefused \/ Retain \/ NeedsPurge \/ IntentRefused
  BY <1>4 DEF NoGeneration, OpenRefused, Retain, NeedsPurge, IntentRefused, NeverMarked,
       OpensOwn
<1>5. CASE Authorize
  BY <1>5 DEF Authorize, OpensOwn, Markers
<1>6. CASE RecordIntent
  BY <1>6 DEF RecordIntent, HandsInv, Records
<1>7. CASE Scan \/ (\E f \in Files : RemoveEntry(f)) \/ RemoveMarker
  BY <1>7 DEF Scan, RemoveEntry, RemoveMarker, HandsInv
<1>8. CASE ContentsRemoved \/ Unexpected \/ CheckedEmpty \/ MarkerGone \/ Revalidate
  BY <1>8 DEF ContentsRemoved, Unexpected, CheckedEmpty, MarkerGone, Revalidate
<1>9. CASE RemoveRoot \/ RemoveRootFails
  BY <1>9 DEF RemoveRoot, RemoveRootFails
<1>10. CASE Complete
  BY <1>10 DEF Complete, RowInv, Records, Markers
<1>11. CASE EvaluateFresh \/ EvaluateOwn \/ EvaluateWeaker \/ EvaluateRefused
  BY <1>11 DEF EvaluateFresh, EvaluateOwn, EvaluateWeaker, EvaluateRefused, NeverMarked,
       Weakens, Recorded
<1>12. CASE Materialize \/ PublicationRefused
  BY <1>12 DEF Materialize, PublicationRefused, Live
<1>13. CASE Sweep \/ WriteTemporary
  BY <1>13 DEF Sweep, WriteTemporary, Linked, HandsInv
<1>14. CASE \E g \in Gens : Rename(g)
  BY <1>14 DEF Rename, HandsInv, Markers
<1>15. CASE WritePayload
  BY <1>15 DEF WritePayload, HandsInv, PublicationInv
<1>16. CASE MoveAway \/ RemoveAll \/ DropFile
  BY <1>16 DEF MoveAway, RemoveAll, DropFile, Tamper
<1>17. ASSUME NEW i \in Inodes, NEW dir \in Strangers, Place(i, dir) PROVE TypeOK'
  BY <1>17, StrangersType DEF Place, Tamper, Live
<1>18. CASE UNCHANGED vars
  <2>1. UNCHANGED <<pc, from, kind, manifest, root, marker, files, held, seen, names,
                    pending, deleted, issued, outside, tampers, faults>>
    BY <1>18 DEF vars
  <2>2. QED
    BY <2>1
<1>19. QED
  BY <1>1, <1>2, <1>3, <1>4, <1>5, <1>6, <1>7, <1>8, <1>9, <1>10, <1>11, <1>12, <1>13,
       <1>14, <1>15, <1>16, <1>17, <1>18 DEF Next, Work, Delete, Prepare, Interfere

-----------------------------------------------------------------------------
(* The inductive invariant.                                                *)

\* No step leaves the invariant.
LEMMA InvariantStep == CInv /\ [Next]_vars => CInv'
<1> SUFFICES ASSUME CInv, [Next]_vars PROVE CInv'
  OBVIOUS
<1>0. TypeOK'
  BY TypeStep
<1> USE DEF TypeOK, CInv, DeadInv, Dead, HandsInv, RowInv, DeletionInv, PublicationInv,
        HistoryInv, Known, PayloadIsMarked, DeletedIsGone, Keeps, Markers, Records
<1>1. CASE Begin
  BY <1>0, <1>1 DEF Begin
<1>2. CASE Retire
  BY <1>0, <1>2 DEF Retire
<1>3. CASE Die
  BY <1>0, <1>3 DEF Die, Fault
<1>4. CASE PublishFails
  BY <1>0, <1>4 DEF PublishFails, Fault
<1>5. CASE NothingPending
  BY <1>0, <1>5 DEF NothingPending
<1>6. CASE ResumeAbsent
  BY <1>0, <1>6 DEF ResumeAbsent
<1>7. CASE ResumeMarked
  BY <1>0, <1>7 DEF ResumeMarked
<1>8. CASE ResumeEmpty
  BY <1>0, <1>8 DEF ResumeEmpty
<1>9. CASE ResumeRefused
  BY <1>0, <1>9 DEF ResumeRefused
<1>10. CASE NoGeneration
  BY <1>0, <1>10 DEF NoGeneration, NeverMarked
<1>11. CASE OpenRefused
  BY <1>0, <1>11 DEF OpenRefused
<1>12. CASE Retain
  BY <1>0, <1>12 DEF Retain, OpensOwn
<1>13. CASE NeedsPurge
  BY <1>0, <1>13 DEF NeedsPurge, OpensOwn
<1>14. CASE Authorize
  BY <1>0, <1>14 DEF Authorize, OpensOwn
<1>15. CASE IntentRefused
  BY <1>0, <1>15 DEF IntentRefused
<1>16. CASE RecordIntent
  <2> DEFINE purge == from = "clean" /\ kind = "purge"
             row == [marker |-> seen, root |-> held, purge |-> purge]
  <2>1. purge \in BOOLEAN /\ seen \in Markers /\ held \in Inodes
    BY <1>16 DEF RecordIntent
  <2>2. row.marker = seen /\ row.root = held
    BY Zenon
  <2>3. row.purge <=> from = "clean" /\ kind = "purge"
    BY Zenon
  <2> HIDE DEF purge
  <2>4. row \in Records /\ row # None
    BY <2>1
  <2>5. pending' = row
    BY <1>16, Zenon DEF RecordIntent, purge
  <2> HIDE DEF row
  <2>6. QED
    BY <1>0, <1>16, <2>1, <2>2, <2>3, <2>4, <2>5 DEF RecordIntent
<1>17. CASE Scan
  BY <1>0, <1>17 DEF Scan
<1>18. CASE \E f \in Files : RemoveEntry(f)
  BY <1>0, <1>18 DEF RemoveEntry
<1>19. CASE ContentsRemoved
  BY <1>0, <1>19 DEF ContentsRemoved
<1>20. CASE Unexpected
  BY <1>0, <1>20 DEF Unexpected
<1>21. CASE CheckedEmpty
  BY <1>0, <1>21 DEF CheckedEmpty
<1>22. CASE RemoveMarker
  BY <1>0, <1>22 DEF RemoveMarker
<1>23. CASE MarkerGone
  BY <1>0, <1>23 DEF MarkerGone
<1>24. CASE Revalidate
  BY <1>0, <1>24 DEF Revalidate
<1>25. CASE RemoveRoot
  BY <1>0, <1>25 DEF RemoveRoot
<1>26. CASE RemoveRootFails
  BY <1>0, <1>26 DEF RemoveRootFails
<1>27. CASE Complete
  BY <1>0, <1>27 DEF Complete
<1>28. CASE EvaluateFresh
  BY <1>0, <1>28 DEF EvaluateFresh, NeverMarked
<1>29. CASE EvaluateOwn
  BY <1>0, <1>29 DEF EvaluateOwn, Weakens, Recorded
<1>30. CASE EvaluateWeaker
  BY <1>0, <1>30 DEF EvaluateWeaker
<1>31. CASE EvaluateRefused
  BY <1>0, <1>31 DEF EvaluateRefused
<1>32. CASE Materialize
  BY <1>0, <1>32 DEF Materialize, Live
<1>33. CASE Sweep
  BY <1>0, <1>33 DEF Sweep
<1>34. CASE PublicationRefused
  BY <1>0, <1>34 DEF PublicationRefused
<1>35. CASE WriteTemporary
  BY <1>0, <1>35 DEF WriteTemporary, Linked
<1>36. ASSUME NEW g \in Gens, Rename(g) PROVE CInv'
  <2> DEFINE m == [gen |-> g, owner |-> "own", manifest |-> manifest]
  <2>1. /\ m \in Markers /\ m.gen = g /\ m.owner = "own" /\ m.manifest = manifest
        /\ m # None
    BY DEF Rename
  <2>2. /\ held \in Inodes /\ held \in outside \cup {root}
        /\ IF seen = None THEN g \in FreshGens ELSE g = seen.gen
        /\ marker' = [marker EXCEPT ![held] = m]
        /\ files' = [files EXCEPT ![held] = @ \ {"temp"}]
        /\ issued' = issued \cup {m}
        /\ seen' = m /\ held' = None /\ pc = "rename" /\ pc' = "session"
        /\ UNCHANGED <<from, kind, manifest, root, names, rowVars, auxVars>>
    BY <1>36 DEF Rename, Linked
  <2> HIDE DEF m
  <2>3. g \notin deleted
    BY <2>2 DEF FreshGens
  <2>4. DeadInv' /\ HandsInv' /\ RowInv' /\ DeletionInv'
    BY <1>0, <2>1, <2>2
  <2>5. PublicationInv'
    BY <1>0, <2>1, <2>2, <2>3
  <2>6. HistoryInv'
    BY <1>0, <2>1, <2>2
  <2>7. PayloadIsMarked'
    BY <1>0, <2>1, <2>2
  <2>8. DeletedIsGone'
    BY <1>0, <2>1, <2>2, <2>3
  <2>9. QED
    BY <1>0, <2>4, <2>5, <2>6, <2>7, <2>8
<1>37. CASE WritePayload
  BY <1>0, <1>37 DEF WritePayload
<1>38. CASE MoveAway
  BY <1>0, <1>38 DEF MoveAway, Tamper
<1>39. CASE RemoveAll
  BY <1>0, <1>39 DEF RemoveAll, Tamper
<1>40. CASE DropFile
  BY <1>0, <1>40 DEF DropFile, Tamper
<1>41. ASSUME NEW i \in Inodes, NEW dir \in Strangers, Place(i, dir) PROVE CInv'
  BY <1>0, <1>41, StrangersType DEF Place, Tamper, Live
<1>42. CASE UNCHANGED vars
  BY <1>0, <1>42 DEF vars
<1>43. QED
  BY <1>1, <1>2, <1>3, <1>4, <1>5, <1>6, <1>7, <1>8, <1>9, <1>10, <1>11, <1>12, <1>13,
       <1>14, <1>15, <1>16, <1>17, <1>18, <1>19, <1>20, <1>21, <1>22, <1>23, <1>24,
       <1>25, <1>26, <1>27, <1>28, <1>29, <1>30, <1>31, <1>32, <1>33, <1>34, <1>35,
       <1>36, <1>37, <1>38, <1>39, <1>40, <1>41, <1>42, Zenon
     DEF Next, Work, Delete, Prepare, Interfere

\* The invariant holds whatever dies and whoever interferes.
THEOREM CleanupInvariance == Spec => []CInv
<1>1. Init => CInv
  BY DEF Init, TypeOK, CInv, DeadInv, Dead, HandsInv, RowInv, DeletionInv,
     PublicationInv, HistoryInv, PayloadIsMarked, DeletedIsGone
<1>2. QED
  BY <1>1, InvariantStep, PTL DEF Spec

\* No tree the runtime made holds payload without its generation's marker.
THEOREM PayloadKeepsMarker == Spec => []PayloadIsMarked
<1>1. CInv => PayloadIsMarked
  BY DEF CInv
<1>2. QED
  BY <1>1, CleanupInvariance, PTL

\* A completed deletion left nothing of its generation.
THEOREM DeletionIsTrue == Spec => []DeletedIsGone
<1>1. CInv => DeletedIsGone
  BY DEF CInv
<1>2. QED
  BY <1>1, CleanupInvariance, PTL

-----------------------------------------------------------------------------
(* What a step may delete.                                                 *)

\* The runtime empties only the directory of its intent, under the marker of
\* its intent, and what is persistent only after a purge, whatever somebody
\* put at the path.  The removal of a directory that is empty already is no
\* part of this.
THEOREM DeletionIsIntended == Spec => DeletesOnlyIntended
<1> DEFINE Intended ==
      \A i \in Inodes :
        RuntimeStep /\ Removed(i) # {} =>
          /\ pending # None /\ i = pending.root /\ marker[i] = pending.marker
          /\ Keeps(marker[i]) => pending.purge
<1>1. CInv /\ [Next]_vars => [Intended]_vars
  <2>1. SUFFICES ASSUME CInv, Next, NEW i \in Inodes, RuntimeStep, Removed(i) # {}
                 PROVE  /\ pending # None /\ i = pending.root /\ marker[i] = pending.marker
                        /\ Keeps(marker[i]) => pending.purge
    OBVIOUS
  <2>2. ~ Interfere
    BY <2>1 DEF RuntimeStep, Interfere, MoveAway, RemoveAll, DropFile, Place, Tamper
  <2>3. ASSUME NEW f \in Files, RemoveEntry(f)
        PROVE  i = held /\ f \in files[i] /\ pc \in DeletePCs
    BY <2>1, <2>3 DEF CInv, TypeOK, RemoveEntry, Removed
  <2>4. ~ (Prepare \/ PublishFails)
    BY <2>1 DEF CInv, TypeOK, DeadInv, Dead, HandsInv, Removed, Live, Prepare,
         EvaluateFresh, EvaluateOwn, EvaluateWeaker, EvaluateRefused, Materialize, Sweep,
         PublicationRefused, WriteTemporary, Rename, PublishFails, Fault
  <2>5. ~ (Begin \/ WritePayload \/ Retire \/ Die)
    BY <2>1 DEF CInv, TypeOK, Removed, Begin, WritePayload, Retire, Die
  <2>6. \E f \in Files : RemoveEntry(f)
    BY <2>1, <2>2, <2>4, <2>5
       DEF Removed, Next, Work, Delete, NothingPending, ResumeAbsent, ResumeMarked,
           ResumeEmpty, ResumeRefused, NoGeneration, OpenRefused, Retain, NeedsPurge,
           Authorize, IntentRefused, RecordIntent, Scan, ContentsRemoved, Unexpected,
           CheckedEmpty, RemoveMarker, MarkerGone, Revalidate, RemoveRoot,
           RemoveRootFails, Complete
  <2>7. i = held /\ files[i] # {} /\ pc \in DeletePCs
    BY <2>3, <2>6
  <2>8. i = pending.root /\ marker[i] = pending.marker
    <3>1. /\ held = pending.root
          /\ marker[held] = pending.marker \/ held \notin outside \cup {root}
      BY <2>1, <2>7 DEF CInv, DeletionInv
    <3>2. held \in outside \cup {root}
      <4>1. DeadInv /\ i \in Inodes
        BY <2>1, Zenon DEF CInv
      <4>2. QED
        BY <2>7, <4>1 DEF DeadInv, Dead
    <3>3. QED
      BY <2>7, <3>1, <3>2
  <2>9. QED
    BY <2>1, <2>7, <2>8 DEF CInv, RowInv
<1>2. QED
  BY <1>1, CleanupInvariance, PTL DEF Spec, DeletesOnlyIntended

-----------------------------------------------------------------------------
(* The tree nobody interfered with.                                        *)

\* Without interference no step leaves the states the code continues.
LEMMA QuietStep == CInv /\ QuietInv /\ [Next]_vars => QuietInv'
<1> SUFFICES ASSUME CInv, QuietInv, [Next]_vars, tampers' = 0 PROVE Quiet'
  BY DEF QuietInv
<1>0. CInv' /\ tampers = 0 /\ Quiet
  <2>1. CInv'
    BY InvariantStep
  <2>2. tampers = 0
    BY DEF CInv, TypeOK, Next, Begin, Work, Delete, Prepare, NothingPending, ResumeAbsent,
       ResumeMarked, ResumeEmpty, ResumeRefused, NoGeneration, OpenRefused, Retain,
       NeedsPurge, Authorize, IntentRefused, RecordIntent, Scan, RemoveEntry,
       ContentsRemoved, Unexpected, CheckedEmpty, RemoveMarker, MarkerGone, Revalidate,
       RemoveRoot, RemoveRootFails, Complete, EvaluateFresh, EvaluateOwn, EvaluateWeaker,
       EvaluateRefused, Materialize, Sweep, PublicationRefused, WriteTemporary, Rename,
       WritePayload, Retire, Die, PublishFails, Fault, Interfere, MoveAway, RemoveAll,
       DropFile, Place, Tamper, vars
  <2>3. QED
    BY <2>1, <2>2 DEF QuietInv
<1> USE DEF TypeOK, CInv, DeadInv, Dead, HandsInv, RowInv, DeletionInv, PublicationInv,
        HistoryInv, PayloadIsMarked, DeletedIsGone, Keeps, Markers, Records, Quiet
<1>1. CASE Begin
  BY <1>0, <1>1 DEF Begin
<1>2. CASE Retire
  BY <1>0, <1>2 DEF Retire
<1>3. CASE Die
  BY <1>0, <1>3 DEF Die, Fault
<1>4. CASE PublishFails
  BY <1>0, <1>4 DEF PublishFails, Fault
<1>5. CASE NothingPending
  BY <1>0, <1>5 DEF NothingPending
<1>6. CASE ResumeAbsent
  BY <1>0, <1>6 DEF ResumeAbsent
<1>7. CASE ResumeMarked
  BY <1>0, <1>7 DEF ResumeMarked
<1>8. CASE ResumeEmpty
  BY <1>0, <1>8 DEF ResumeEmpty
<1>9. CASE ResumeRefused
  BY <1>0, <1>9 DEF ResumeRefused
<1>10. CASE NoGeneration
  BY <1>0, <1>10 DEF NoGeneration, NeverMarked
<1>11. CASE OpenRefused
  BY <1>0, <1>11 DEF OpenRefused
<1>12. CASE Retain
  BY <1>0, <1>12 DEF Retain, OpensOwn
<1>13. CASE NeedsPurge
  BY <1>0, <1>13 DEF NeedsPurge, OpensOwn
<1>14. CASE Authorize
  BY <1>0, <1>14 DEF Authorize, OpensOwn
<1>15. CASE IntentRefused
  BY <1>0, <1>15 DEF IntentRefused, Recorded
<1>16. CASE RecordIntent
  BY <1>0, <1>16 DEF RecordIntent
<1>17. CASE Scan
  BY <1>0, <1>17 DEF Scan
<1>18. CASE \E f \in Files : RemoveEntry(f)
  BY <1>0, <1>18 DEF RemoveEntry
<1>19. CASE ContentsRemoved
  BY <1>0, <1>19 DEF ContentsRemoved
<1>20. CASE Unexpected
  BY <1>0, <1>20 DEF Unexpected
<1>21. CASE CheckedEmpty
  BY <1>0, <1>21 DEF CheckedEmpty
<1>22. CASE RemoveMarker
  BY <1>0, <1>22 DEF RemoveMarker
<1>23. CASE MarkerGone
  BY <1>0, <1>23 DEF MarkerGone
<1>24. CASE Revalidate
  BY <1>0, <1>24 DEF Revalidate
<1>25. CASE RemoveRoot
  BY <1>0, <1>25 DEF RemoveRoot
<1>26. CASE RemoveRootFails
  BY <1>0, <1>26 DEF RemoveRootFails
<1>27. CASE Complete
  BY <1>0, <1>27 DEF Complete
<1>28. CASE EvaluateFresh
  BY <1>0, <1>28 DEF EvaluateFresh, NeverMarked
<1>29. CASE EvaluateOwn
  BY <1>0, <1>29 DEF EvaluateOwn, Weakens, Recorded
<1>30. CASE EvaluateWeaker
  BY <1>0, <1>30 DEF EvaluateWeaker
<1>31. CASE EvaluateRefused
  BY <1>0, <1>31 DEF EvaluateRefused, Recorded
<1>32. CASE Materialize
  BY <1>0, <1>32 DEF Materialize, Live
<1>33. CASE Sweep
  BY <1>0, <1>33 DEF Sweep
<1>34. CASE PublicationRefused
  BY <1>0, <1>34 DEF PublicationRefused, Linked
<1>35. CASE WriteTemporary
  BY <1>0, <1>35 DEF WriteTemporary, Linked
<1>36. CASE \E g \in Gens : Rename(g)
  BY <1>0, <1>36 DEF Rename
<1>37. CASE WritePayload
  BY <1>0, <1>37 DEF WritePayload
<1>38. CASE Interfere
  BY <1>0, <1>38 DEF Interfere, MoveAway, RemoveAll, DropFile, Place, Tamper
<1>39. CASE UNCHANGED vars
  BY <1>0, <1>39 DEF vars
<1>40. QED
  BY <1>1, <1>2, <1>3, <1>4, <1>5, <1>6, <1>7, <1>8, <1>9, <1>10, <1>11, <1>12, <1>13,
       <1>14, <1>15, <1>16, <1>17, <1>18, <1>19, <1>20, <1>21, <1>22, <1>23, <1>24,
       <1>25, <1>26, <1>27, <1>28, <1>29, <1>30, <1>31, <1>32, <1>33, <1>34, <1>35,
       <1>36, <1>37, <1>38, <1>39 DEF Next, Work, Delete, Prepare

\* A quiet tree stays quiet, whatever dies.
THEOREM QuietInvariance == Spec => []QuietInv
<1>1. Init => QuietInv
  BY DEF Init, QuietInv, Quiet
<1>2. QED
  BY <1>1, QuietStep, CleanupInvariance, PTL DEF Spec

\* Without interference the runtime never refuses its own tree.
THEOREM OwnTreeStaysAdmitted == Spec => []OwnTreeIsAdmitted
<1>1. QuietInv => OwnTreeIsAdmitted
  BY DEF QuietInv, Quiet, OwnTreeIsAdmitted
<1>2. QED
  BY <1>1, QuietInvariance, PTL

-----------------------------------------------------------------------------
(* The refinement of DataGeneration.                                       *)

\* The generation at the path, its retention and the generation under deletion,
\* as the refinement reads them.
GenerationAt == IF root # None /\ marker[root] # None THEN marker[root].gen ELSE None
KeptAt       == root # None /\ marker[root] # None /\ Keeps(marker[root])
Doomed       == IF pending # None THEN pending.marker.gen ELSE None

\* A directory operation that moves no marker and no row shows the slot nothing.
LEMMA OperationStutters ==
  ASSUME UNCHANGED <<GenerationAt, KeptAt, Doomed, deleted>>
  PROVE  UNCHANGED Generation!vars
  BY DEF GenerationAt, KeptAt, Doomed, Generation!vars

\* Each other step is one of DataGeneration.
LEMMA CleanupGenerationStep ==
  ASSUME CInv, QuietInv, tampers = 0, tampers' = 0, [Next]_vars
  PROVE  [Generation!Next]_(Generation!vars)
<1>0. Quiet /\ tampers = 0 /\ tampers' = 0
  BY DEF QuietInv
<1> USE DEF CInv, TypeOK, Quiet
<1> USE DEF GenerationAt, KeptAt, Doomed
<1>1. CASE RecordIntent
  <2>1. /\ seen # None /\ pending = None /\ root \in Inodes /\ marker[root] = seen
        /\ seen.gen \in Gens \ deleted
    BY <1>0, <1>1
       DEF RecordIntent, Recorded, HandsInv, RowInv, DeletionInv, HistoryInv
  <2>2. pending'.marker = seen /\ pending' # None
    BY <1>1, InvariantStep DEF RecordIntent, RowInv
  <2>3. UNCHANGED <<GenerationAt, KeptAt, deleted>>
    BY <1>1 DEF RecordIntent
  <2>4. GenerationAt = seen.gen /\ Doomed = None /\ Doomed' = seen.gen
    BY <2>1, <2>2
  <2>5. Generation!Intend
    BY <2>1, <2>3, <2>4 DEF Generation!Intend
  <2>6. QED
    BY <2>5 DEF Generation!Next
<1>2. CASE RemoveMarker
  <2>1. /\ pending # None /\ root \in Inodes /\ marker[root] = pending.marker
        /\ pending.marker # None /\ pending.marker.gen \in Gens
    BY <1>0, <1>2 DEF RemoveMarker, HandsInv, RowInv, HistoryInv, Records, Dead
  <2>2. root' = root /\ marker'[root] = None /\ pending' = pending /\ deleted' = deleted
    BY <1>0, <1>2, <2>1 DEF RemoveMarker
  <2>3. GenerationAt = Doomed /\ Doomed # None /\ UNCHANGED <<Doomed, deleted>>
    BY <2>1, <2>2
  <2>4. GenerationAt' = None /\ KeptAt' = FALSE
    BY <2>2
  <2>5. Generation!Remove
    BY <2>3, <2>4 DEF Generation!Remove
  <2>6. QED
    BY <2>5 DEF Generation!Next
<1>3. CASE Complete
  <2>1. pending # None /\ pending.marker.gen \in Gens /\ root = None
    BY <1>0, <1>3 DEF Complete, RowInv, HistoryInv, DeletionInv
  <2>2. UNCHANGED <<GenerationAt, KeptAt>>
    BY <1>3 DEF Complete
  <2>3. /\ GenerationAt = None /\ Doomed = pending.marker.gen /\ Doomed # None
        /\ Doomed' = None /\ deleted' = deleted \cup {Doomed}
    BY <1>3, <2>1 DEF Complete
  <2>4. Generation!Complete
    BY <2>2, <2>3 DEF Generation!Complete
  <2>5. QED
    BY <2>4 DEF Generation!Next
<1>4. CASE RemoveRoot
  BY <1>4, OperationStutters DEF RemoveRoot, GenerationAt, KeptAt, Doomed
<1>5. CASE Materialize
  BY <1>5, OperationStutters DEF Materialize, Live, GenerationAt, KeptAt, Doomed
<1>6. ASSUME NEW g \in Gens, Rename(g) PROVE [Generation!Next]_(Generation!vars)
  <2> DEFINE m == [gen |-> g, owner |-> "own", manifest |-> manifest]
  <2>1. m.gen = g /\ m.manifest = manifest /\ m # None
    BY DEF Markers
  <2>2. /\ root \in Inodes /\ root' = root /\ marker'[root] = m
        /\ marker[root] = seen
        /\ IF seen = None THEN g \in FreshGens ELSE g = seen.gen
        /\ pending = None /\ UNCHANGED <<pending, deleted>>
    BY <1>0, <1>6 DEF Rename, HandsInv, RowInv
  <2>3. seen # None /\ Keeps(seen) => manifest \in Keeping
    BY <1>6 DEF Rename, PublicationInv
  <2> HIDE DEF m
  <2>4. /\ GenerationAt' = g /\ g # None
        /\ Doomed = None /\ UNCHANGED <<Doomed, deleted>>
    BY <2>1, <2>2
  <2>5. KeptAt' \in BOOLEAN /\ (KeptAt' <=> manifest \in Keeping)
    BY <2>1, <2>2 DEF Keeps
  <2>6. CASE seen = None
    <3>1. GenerationAt = None /\ g \notin deleted
      BY <2>2, <2>6 DEF FreshGens, HistoryInv
    <3>2. Generation!Publish(g)
      BY <2>4, <2>5, <3>1 DEF Generation!Publish
    <3>3. QED
      BY <3>2 DEF Generation!Next
  <2>7. CASE seen # None
    <3>1. UNCHANGED GenerationAt /\ GenerationAt # None
      BY <2>2, <2>4, <2>7
    <3>2. KeptAt \in BOOLEAN /\ (KeptAt => manifest \in Keeping)
      BY <2>2, <2>3, <2>7
    <3>3. CASE KeptAt' = TRUE
      <4>1. Generation!Promote
        BY <2>4, <3>1, <3>3 DEF Generation!Promote
      <4>2. QED
        BY <4>1 DEF Generation!Next
    <3>4. CASE KeptAt' = FALSE
      <4>1. KeptAt = FALSE
        BY <2>5, <3>2, <3>4
      <4>2. QED
        BY <2>4, <3>1, <3>4, <4>1, OperationStutters
    <3>5. QED
      BY <2>5, <3>3, <3>4
  <2>8. QED
    BY <2>6, <2>7
<1>7. CASE UNCHANGED <<root, marker, pending, deleted>>
  BY <1>7, OperationStutters DEF GenerationAt, KeptAt, Doomed
<1>8. UNCHANGED <<root, marker, pending, deleted>>
      \/ RecordIntent \/ RemoveMarker \/ Complete \/ RemoveRoot \/ Materialize
      \/ \E g \in Gens : Rename(g)
  BY <1>0 DEF Next, Begin, Work, Delete, Prepare, NothingPending, ResumeAbsent,
     ResumeMarked, ResumeEmpty, ResumeRefused, NoGeneration, OpenRefused, Retain,
     NeedsPurge, Authorize, IntentRefused, Scan, RemoveEntry, ContentsRemoved,
     Unexpected, CheckedEmpty, MarkerGone, Revalidate, RemoveRootFails, EvaluateFresh,
     EvaluateOwn, EvaluateWeaker, EvaluateRefused, Sweep, PublicationRefused,
     WriteTemporary, WritePayload, Retire, Die, PublishFails, Fault, Interfere, MoveAway,
     RemoveAll, DropFile, Place, Tamper, vars
<1>9. QED
  BY <1>1, <1>2, <1>3, <1>4, <1>5, <1>6, <1>7, <1>8

\* Without interference the directory operations, wherever they are cut off,
\* keep the promise made to the rest of the slot.
THEOREM CleanupKeepsGeneration == Spec /\ [](tampers = 0) => ImplementsGeneration
<1>1. Init => Generation!Init
  BY DEF Init, Generation!Init
<1>2. CInv /\ QuietInv /\ tampers = 0 /\ (tampers = 0)' /\ [Next]_vars =>
        [Generation!Next]_(Generation!vars)
  BY CleanupGenerationStep
<1>3. QED
  BY <1>1, <1>2, CleanupInvariance, QuietInvariance, PTL
     DEF Spec, ImplementsGeneration, Generation!Spec

================================================================================
