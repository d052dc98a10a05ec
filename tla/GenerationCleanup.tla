--------------------------- MODULE GenerationCleanup ---------------------------
(***************************************************************************)
(* The application-data directory of one slot, one directory operation at  *)
(* a time: how a run publishes the marker that makes the tree a data       *)
(* generation, and how recovery, retention and clean delete a generation   *)
(* payload first, marker next, root last, between two registry commits.    *)
(*                                                                         *)
(* One command at a time works on the tree (SlotSession shows that the     *)
(* slot lock and recovery see to it).  The process may die before any      *)
(* step; a step that fails leaves what a death leaves, with one exception, *)
(* PublishFails.  Host power loss is not modelled: the runtime claims      *)
(* recovery from process death only.                                       *)
(*                                                                         *)
(* Somebody outside the runtime may move the tree away, remove it, put     *)
(* another one in its place (a backup, a tree of another owner, anything   *)
(* unmarked) and drop files into it, at any time.                          *)
(*                                                                         *)
(* Abstractions.                                                           *)
(*  - A file is named by what it holds: the payload of a generation, a     *)
(*    marker temporary, something foreign.  Nested directories are files.  *)
(*  - A manifest stands for everything a marker records of it; it decides  *)
(*    the retention.                                                       *)
(*  - An inode number is reused as soon as no directory and no descriptor  *)
(*    of the command uses it.                                              *)
(***************************************************************************)

EXTENDS Naturals

CONSTANTS
  Gens,        \* data generations
  Inodes,      \* device and inode numbers of directories
  Manifests,   \* manifests the slot is used with
  Keeping,     \* those that keep application data (persistence "persistent")
  None,        \* no directory, no marker, no row
  MaxTampers,  \* bound: how often somebody interferes
  MaxFaults    \* bound: how often the runtime dies or a publication fails

ASSUME GenerationAssumption ==
  /\ Keeping \subseteq Manifests
  /\ None \notin Gens \cup Inodes
  /\ {"temp", "foreign", "elsewhere"} \cap Gens = {}
  /\ MaxTampers \in Nat
  /\ MaxFaults \in Nat

VARIABLES
  pc,        \* the step the command at work is about to take
  from,      \* which call works on the tree: recovery, retirement, clean
  kind,      \* the command: run, down, clean, or clean --purge
  manifest,  \* the manifest it was given
  root,      \* the directory at the tree's path
  marker,    \* marker[i]: the state marker in directory i
  files,     \* files[i]: what else directory i holds
  held,      \* the directory the command holds a descriptor of
  seen,      \* the marker it read there; in a session, the session's own
  names,     \* the entries remove_contents still has to remove
  pending,   \* the pending row of cleanups
  deleted,   \* generations with a completed row
  issued,    \* markers published so far: what a backup may contain
  outside,   \* directories somebody else moved or made
  tampers, faults

treeVars  == <<root, marker, files>>
rowVars   == <<pending, deleted>>
localVars == <<held, seen, names>>
auxVars   == <<outside, tampers, faults>>
vars == <<pc, from, kind, manifest, treeVars, localVars, rowVars, issued, auxVars>>

Markers == [gen : Gens \cup {"elsewhere"}, owner : {"own", "other", "oldabi"},
            manifest : Manifests]
Records == [marker : Markers, purge : BOOLEAN, root : Inodes]
Files   == Gens \cup {"temp", "foreign"}
Kinds   == {"run", "down", "clean", "purge"}

ASSUME NoneAssumption == None \notin Markers \cup Records

IdlePCs == {"idle", "refused", "denied"}
PCs == IdlePCs \cup
       {"pending", "open", "intent", "scan", "remove", "check", "unmark",
        "revalidate", "rmdir", "complete",
        "evaluate", "materialize", "sweep", "write", "rename", "session"}

TypeOK ==
  /\ pc \in PCs
  /\ from \in {"recover", "retire", "clean"}
  /\ kind \in Kinds
  /\ manifest \in Manifests
  /\ root \in Inodes \cup {None}
  /\ marker \in [Inodes -> Markers \cup {None}]
  /\ files \in [Inodes -> SUBSET Files]
  /\ held \in Inodes \cup {None}
  /\ seen \in Markers \cup {None}
  /\ names \subseteq Files
  /\ pending \in Records \cup {None}
  /\ deleted \subseteq Gens \cup {"elsewhere"}
  /\ issued \subseteq Markers
  /\ outside \subseteq Inodes
  /\ tampers \in 0..MaxTampers
  /\ faults \in 0..MaxFaults

\* The slot was never used; the command kept in kind and manifest is arbitrary.
Init ==
  /\ pc = "idle"
  /\ from = "recover"
  /\ kind = "down"
  /\ manifest \in Manifests
  /\ root = None
  /\ marker = [i \in Inodes |-> None]
  /\ files = [i \in Inodes |-> {}]
  /\ held = None /\ seen = None /\ names = {}
  /\ pending = None /\ deleted = {}
  /\ issued = {} /\ outside = {}
  /\ tampers = 0 /\ faults = 0

-----------------------------------------------------------------------------
(* Parts of steps.                                                         *)

\* A row of cleanups names the generation, pending or completed.
Recorded(g) == g \in deleted \/ (pending # None /\ pending.marker.gen = g)

Keeps(m)   == m.manifest \in Keeping
Live       == outside \cup ({root, held} \ {None})
Go(step)   == pc' = step /\ UNCHANGED <<from, kind, manifest, issued, auxVars>>
Release    == held' = None /\ seen' = None /\ names' = {}
Stop(step) == Go(step) /\ Release /\ UNCHANGED <<treeVars, rowVars>>

\* Contradictory or foreign state: the command ends and nothing is touched.
Refuse == Stop("refused")

\* The recorded retention forbids what was asked.
Deny == Stop("denied")

\* The call is over: a run goes on to prepare the tree, a clean to its own
\* deletion, everything else is done.
Return ==
  /\ Release
  /\ UNCHANGED <<kind, manifest, issued, auxVars>>
  /\ \/ /\ from = "recover" /\ kind = "run"
        /\ pc' = "evaluate" /\ from' = from
     \/ /\ from = "recover" /\ kind \in {"clean", "purge"}
        /\ pc' = "pending" /\ from' = "clean"
     \/ /\ from # "recover" \/ kind = "down"
        /\ pc' = "idle" /\ from' = from

\* Generations a fresh tree may still get; in the code a random token, here
\* bounded by Gens.
FreshGens == {g \in Gens : \A m \in issued : m.gen # g}

\* A command has acquired the slot and settled its processes.  The last bound:
\* no run begins when no generation is left for it.
Begin ==
  /\ pc \in IdlePCs
  /\ pc' = "pending"
  /\ from' = "recover"
  /\ kind' \in Kinds
  /\ kind' = "run" => FreshGens # {}
  /\ manifest' \in Manifests
  /\ UNCHANGED <<treeVars, localVars, rowVars, issued, auxVars>>

-----------------------------------------------------------------------------
(* Deletion: resume_pending, open_marked, delete_generation.               *)

NothingPending ==
  /\ pc = "pending"
  /\ pending = None
  /\ Go("open")
  /\ UNCHANGED <<treeVars, localVars, rowVars>>

\* Mutant: an absent root is nothing to do.
ResumeForgets ==
  /\ pc = "pending"
  /\ pending # None /\ root = None
  /\ Return
  /\ UNCHANGED <<treeVars, rowVars>>

\* The pending deletion's root is already gone.
ResumeAbsent ==
  /\ pc = "pending"
  /\ pending # None /\ root = None
  /\ Go("complete")
  /\ UNCHANGED <<treeVars, localVars, rowVars>>

\* Mutants: the root's marker is not compared; a marked root counts as deleted.
ResumeAnyMarker ==
  /\ pc = "pending"
  /\ pending # None /\ root = pending.root
  /\ held' = root
  /\ Go("scan")
  /\ UNCHANGED <<treeVars, seen, names, rowVars>>

ResumeCompletes ==
  /\ pc = "pending"
  /\ pending # None /\ root = pending.root
  /\ marker[root] = pending.marker
  /\ Go("complete")
  /\ UNCHANGED <<treeVars, localVars, rowVars>>

\* The very root of the intent, under the very marker: deletion goes on.
ResumeMarked ==
  /\ pc = "pending"
  /\ pending # None /\ root = pending.root
  /\ marker[root] = pending.marker
  /\ held' = root
  /\ Go("scan")
  /\ UNCHANGED <<treeVars, seen, names, rowVars>>

\* The payload and the marker were removed, the root was not.
ResumeEmpty ==
  /\ pc = "pending"
  /\ pending # None /\ root = pending.root
  /\ marker[root] = None /\ files[root] = {}
  /\ held' = root
  /\ Go("revalidate")
  /\ UNCHANGED <<treeVars, seen, names, rowVars>>

\* A replaced root, another generation, or a markerless root with content.
ResumeRefused ==
  /\ pc = "pending"
  /\ pending # None /\ root # None
  /\ \/ root # pending.root
     \/ marker[root] \notin {pending.marker, None}
     \/ marker[root] = None /\ files[root] # {}
  /\ Refuse

\* No tree, or what an interrupted first publication leaves of one.
NeverMarked == root # None => marker[root] = None /\ files[root] \subseteq {"temp"}

\* No tree, or one that never became a generation: nothing to delete.
NoGeneration ==
  /\ pc = "open"
  /\ NeverMarked
  /\ Return
  /\ UNCHANGED <<treeVars, rowVars>>

\* Unmarked content, a marker of another owner; for retention, of another ABI.
OpenRefused ==
  /\ pc = "open"
  /\ root # None
  /\ IF marker[root] = None
       THEN ~ files[root] \subseteq {"temp"}
       ELSE \/ marker[root].owner = "other"
            \/ marker[root].owner = "oldabi" /\ from # "clean"
  /\ Refuse

\* The slot's own generation lies at the path.
OpensOwn ==
  /\ pc = "open"
  /\ root # None /\ marker[root] # None
  /\ \/ marker[root].owner = "own"
     \/ marker[root].owner = "oldabi" /\ from = "clean"

\* Retention keeps a persistent generation.
Retain ==
  /\ OpensOwn
  /\ from # "clean" /\ Keeps(marker[root])
  /\ Return
  /\ UNCHANGED <<treeVars, rowVars>>

\* clean without --purge does not delete it either.
NeedsPurge ==
  /\ OpensOwn
  /\ from = "clean" /\ kind # "purge" /\ Keeps(marker[root])
  /\ Deny

Authorize ==
  /\ OpensOwn
  /\ Keeps(marker[root]) => from = "clean" /\ kind = "purge"
  /\ held' = root /\ seen' = marker[root]
  /\ Go("intent")
  /\ UNCHANGED <<treeVars, names, rowVars>>

\* refuse_deleted_generation, before an intent.
IntentRefused ==
  /\ pc = "intent"
  /\ Recorded(seen.gen)
  /\ Refuse

RecordIntent ==
  /\ pc = "intent"
  /\ ~ Recorded(seen.gen)
  /\ pending' = [marker |-> seen, root |-> held,
                 purge |-> from = "clean" /\ kind = "purge"]
  /\ Go("scan")
  /\ UNCHANGED <<treeVars, localVars, deleted>>

\* Mutant: the marker goes first.
ScanMarkerToo ==
  /\ pc = "scan"
  /\ names' = files[held]
  /\ marker' = [marker EXCEPT ![held] = None]
  /\ Go("remove")
  /\ UNCHANGED <<root, files, held, seen, rowVars>>

\* remove_contents reads the entries once; the marker is not one of them.
Scan ==
  /\ pc = "scan"
  /\ names' = files[held]
  /\ Go("remove")
  /\ UNCHANGED <<treeVars, held, seen, rowVars>>

RemoveEntry(f) ==
  /\ pc = "remove"
  /\ f \in names
  /\ files' = [files EXCEPT ![held] = @ \ {f}]
  /\ names' = names \ {f}
  /\ Go("remove")
  /\ UNCHANGED <<root, marker, held, seen, rowVars>>

ContentsRemoved ==
  /\ pc = "remove"
  /\ names = {}
  /\ Go("check")
  /\ UNCHANGED <<treeVars, localVars, rowVars>>

\* Entries that appeared since the scan keep the marker, and the row pending.
Unexpected ==
  /\ pc = "check"
  /\ files[held] # {}
  /\ Refuse

CheckedEmpty ==
  /\ pc = "check"
  /\ files[held] = {}
  /\ Go("unmark")
  /\ UNCHANGED <<treeVars, localVars, rowVars>>

RemoveMarker ==
  /\ pc = "unmark"
  /\ marker[held] # None
  /\ marker' = [marker EXCEPT ![held] = None]
  /\ Go("revalidate")
  /\ UNCHANGED <<root, files, localVars, rowVars>>

MarkerGone ==
  /\ pc = "unmark"
  /\ marker[held] = None
  /\ Refuse

\* remove_root looks the held root up at its path once more.
Revalidate ==
  /\ pc = "revalidate"
  /\ IF root = held /\ held = pending.root
       THEN /\ Go("rmdir")
            /\ UNCHANGED <<treeVars, localVars, rowVars>>
       ELSE Refuse

\* unlinkat(AT_REMOVEDIR) removes whatever lies at the path, if it is empty.
RemoveRoot ==
  /\ pc = "rmdir"
  /\ root # None /\ marker[root] = None /\ files[root] = {}
  /\ root' = None
  /\ outside' = outside \ {root}
  /\ pc' = "complete"
  /\ UNCHANGED <<from, kind, manifest, marker, files, localVars, rowVars,
                 issued, tampers, faults>>

RemoveRootFails ==
  /\ pc = "rmdir"
  /\ root # None => marker[root] # None \/ files[root] # {}
  /\ Refuse

Complete ==
  /\ pc = "complete"
  /\ deleted' = deleted \cup {pending.marker.gen}
  /\ pending' = None
  /\ Return
  /\ UNCHANGED treeVars

Delete ==
  \/ NothingPending \/ ResumeAbsent \/ ResumeMarked \/ ResumeEmpty \/ ResumeRefused
  \/ NoGeneration \/ OpenRefused \/ Retain \/ NeedsPurge \/ Authorize
  \/ IntentRefused \/ RecordIntent
  \/ Scan \/ (\E f \in Files : RemoveEntry(f)) \/ ContentsRemoved
  \/ Unexpected \/ CheckedEmpty \/ RemoveMarker \/ MarkerGone
  \/ Revalidate \/ RemoveRoot \/ RemoveRootFails \/ Complete

-----------------------------------------------------------------------------
(* Preparation: evaluate_slot_marker, publish_slot_marker; the session.    *)

Weakens(m) == Keeps(m) /\ manifest \notin Keeping

EvaluateFresh ==
  /\ pc = "evaluate"
  /\ NeverMarked
  /\ Go("materialize")
  /\ UNCHANGED <<treeVars, localVars, rowVars>>

AdoptWeaker ==
  /\ pc = "evaluate"
  /\ root # None /\ marker[root] # None
  /\ marker[root].owner = "own"
  /\ ~ Recorded(marker[root].gen)
  /\ seen' = marker[root]
  /\ Go(IF marker[root].manifest = manifest THEN "session" ELSE "materialize")
  /\ UNCHANGED <<treeVars, held, names, rowVars>>

\* The generation is adopted as it is, or with its provenance refreshed.
EvaluateOwn ==
  /\ pc = "evaluate"
  /\ root # None /\ marker[root] # None
  /\ marker[root].owner = "own"
  /\ ~ Weakens(marker[root])
  /\ ~ Recorded(marker[root].gen)
  /\ seen' = marker[root]
  /\ Go(IF marker[root].manifest = manifest THEN "session" ELSE "materialize")
  /\ UNCHANGED <<treeVars, held, names, rowVars>>

EvaluateWeaker ==
  /\ pc = "evaluate"
  /\ root # None /\ marker[root] # None
  /\ marker[root].owner = "own" /\ Weakens(marker[root])
  /\ Deny

EvaluateRefused ==
  /\ pc = "evaluate"
  /\ root # None
  /\ IF marker[root] = None
       THEN ~ files[root] \subseteq {"temp"}
       ELSE \/ marker[root].owner # "own"
            \/ ~ Weakens(marker[root]) /\ Recorded(marker[root].gen)
  /\ Refuse

\* The directory at the path is opened, or made under any free inode.
Materialize ==
  /\ pc = "materialize"
  /\ IF root # None
       THEN held' = root /\ UNCHANGED treeVars
       ELSE \E i \in Inodes \ Live :
              /\ root' = i /\ held' = i
              /\ marker' = [marker EXCEPT ![i] = None]
              /\ files' = [files EXCEPT ![i] = {}]
  /\ Go("sweep")
  /\ UNCHANGED <<seen, names, rowVars>>

\* Temporaries of an interrupted publication are removed.
Sweep ==
  /\ pc = "sweep"
  /\ files' = [files EXCEPT ![held] = @ \ {"temp"}]
  /\ Go("write")
  /\ UNCHANGED <<root, marker, localVars, rowVars>>

\* The held directory still has a name somewhere; a removed one takes no file.
Linked == held \in outside \cup {root}

PublicationRefused ==
  /\ pc \in {"write", "rename"}
  /\ ~ Linked
  /\ Refuse

WriteTemporary ==
  /\ pc = "write"
  /\ Linked
  /\ files' = [files EXCEPT ![held] = @ \cup {"temp"}]
  /\ Go("rename")
  /\ UNCHANGED <<root, marker, localVars, rowVars>>

\* The rename makes the generation, a fresh one or the one seen before.
Rename(g) ==
  LET m == [gen |-> g, owner |-> "own", manifest |-> manifest] IN
  /\ pc = "rename"
  /\ Linked
  /\ IF seen = None THEN g \in FreshGens ELSE g = seen.gen
  /\ marker' = [marker EXCEPT ![held] = m]
  /\ files' = [files EXCEPT ![held] = @ \ {"temp"}]
  /\ issued' = issued \cup {m}
  /\ seen' = m /\ held' = None
  /\ pc' = "session"
  /\ UNCHANGED <<from, kind, manifest, root, names, rowVars, auxVars>>

\* Workloads of the session put data into the tree they find at its path.
WritePayload ==
  /\ pc = "session"
  /\ root # None
  /\ seen.gen \notin files[root]
  /\ files' = [files EXCEPT ![root] = @ \cup {seen.gen}]
  /\ Go("session")
  /\ UNCHANGED <<root, marker, localVars, rowVars>>

\* Its processes are settled; finalization applies the retention.
Retire ==
  /\ pc = "session"
  /\ pc' = "pending" /\ from' = "retire"
  /\ Release
  /\ UNCHANGED <<kind, manifest, treeVars, rowVars, issued, auxVars>>

Prepare ==
  \/ EvaluateFresh \/ EvaluateOwn \/ EvaluateWeaker \/ EvaluateRefused
  \/ Materialize \/ Sweep \/ PublicationRefused \/ WriteTemporary
  \/ (\E g \in Gens : Rename(g))

Work == Delete \/ Prepare \/ WritePayload \/ Retire

-----------------------------------------------------------------------------
(* Failures and interference.                                              *)

Fault ==
  /\ pc \notin IdlePCs
  /\ faults < MaxFaults
  /\ faults' = faults + 1
  /\ pc' = "idle"
  /\ Release
  /\ UNCHANGED <<from, kind, manifest, root, marker, rowVars, issued, outside, tampers>>

\* The process dies, or the step fails and its error ends the command.
Die == Fault /\ UNCHANGED files

\* A publication that fails takes its own temporary away.
PublishFails ==
  /\ pc = "rename"
  /\ Fault
  /\ files' = [files EXCEPT ![held] = @ \ {"temp"}]

Tamper ==
  /\ tampers < MaxTampers
  /\ tampers' = tampers + 1
  /\ UNCHANGED <<pc, from, kind, manifest, localVars, rowVars, issued, faults>>

\* Somebody moves the tree away.
MoveAway ==
  /\ Tamper
  /\ root # None
  /\ root' = None
  /\ outside' = outside \cup {root}
  /\ UNCHANGED <<marker, files>>

\* Somebody removes the tree with everything in it.
RemoveAll ==
  /\ Tamper
  /\ root # None
  /\ root' = None
  /\ marker' = [marker EXCEPT ![root] = None]
  /\ files' = [files EXCEPT ![root] = {}]
  /\ outside' = outside \ {root}

\* What a directory from outside may hold: nothing, unmarked files, the tree
\* of another owner or of another runtime ABI, a backup of a generation.
Strangers ==
  LET alien(o) == [gen |-> "elsewhere", owner |-> o,
                   manifest |-> CHOOSE m \in Manifests : TRUE]
  IN  {<<None, {}>>, <<None, {"foreign"}>>}
        \cup {<<alien(o), {"foreign"}>> : o \in {"other", "oldabi"}}
        \cup {<<m, {m.gen}>> : m \in issued}

Place(i, dir) ==
  /\ Tamper
  /\ root = None
  /\ i \in Inodes \ Live
  /\ root' = i
  /\ marker' = [marker EXCEPT ![i] = dir[1]]
  /\ files' = [files EXCEPT ![i] = dir[2]]
  /\ outside' = outside \cup {i}

DropFile ==
  /\ Tamper
  /\ root # None
  /\ files' = [files EXCEPT ![root] = @ \cup {"foreign"}]
  /\ UNCHANGED <<root, marker, outside>>

Interfere ==
  \/ MoveAway \/ RemoveAll \/ DropFile
  \/ \E i \in Inodes, dir \in Strangers : Place(i, dir)

-----------------------------------------------------------------------------
Next == Begin \/ Work \/ Die \/ PublishFails \/ Interfere

Spec == Init /\ [][Next]_vars

\* A command at work goes on until it ends or dies.
FairSpec == Spec /\ WF_vars(Work)

-----------------------------------------------------------------------------
(* Properties.                                                             *)

\* A step of the runtime; interference leaves both variables alone.
RuntimeStep == <<pc, names>>' # <<pc, names>>

Removed(i) == (files[i] \ files'[i]) \ {"temp"}

\* The runtime removes a file only from the directory its committed intent
\* names by inode, while that directory carries the intent's own marker: a
\* replacement of the tree, even under a reused inode, is never emptied.  What is
\* marked persistent goes only under an intent that records the purge, whoever
\* resumes it.  This is about contents: the final removal of a directory, which
\* the host refuses unless it is empty, takes its entry by name after a check
\* (cleanup.rs: authorize, resume_pending, remove_contents, remove_root).
DeletesOnlyIntended ==
  [][\A i \in Inodes :
       RuntimeStep /\ Removed(i) # {} =>
         /\ pending # None /\ i = pending.root /\ marker[i] = pending.marker
         /\ Keeps(marker[i]) => pending.purge]_vars

\* No tree the runtime made holds payload without the marker of its generation,
\* at any step of publication, deletion or resumption: a death never leaves
\* data nobody may delete (cleanup.rs: finish_deletion, "keeps the root marker
\* until every payload entry is gone").
PayloadIsMarked ==
  \A i \in Inodes \ outside :
    files[i] \cap Gens \subseteq IF marker[i] = None THEN {} ELSE {marker[i].gen}

\* A completed deletion is true: nothing of the generation is left but what
\* somebody outside moved away or restored (cleanup.rs: complete).
DeletedIsGone ==
  \A g \in deleted, i \in Inodes \ outside :
    g \notin files[i] /\ (marker[i] # None => marker[i].gen # g)

\* Without interference the runtime never refuses its own tree, wherever its
\* predecessors died: every state they leave is one that recovery, retention
\* or preparation knows how to continue (cleanup.rs: resume_pending; marker.rs:
\* refuse_unmarked_state_root).
OwnTreeIsAdmitted ==
  tampers = 0 => pc # "refused"

\* If commands keep coming, a pending deletion is completed
\* (cleanup.rs: "a pending intent is resumed by the same operation").
DeletionCompletes ==
  ([]<>(pc = "pending")) => (pending # None ~> pending = None)

\* Without interference the directory operations implement the promise made
\* to the rest of the slot.
Generation == INSTANCE DataGeneration WITH
  Generations <- Gens,
  Nothing     <- None,
  data        <- IF root # None /\ marker[root] # None THEN marker[root].gen ELSE None,
  keep        <- root # None /\ marker[root] # None /\ Keeps(marker[root]),
  pending     <- IF pending # None THEN pending.marker.gen ELSE None,
  deleted     <- deleted

ImplementsGeneration == Generation!Spec

=============================================================================
