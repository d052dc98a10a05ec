--------------------------- MODULE ServiceStartProofs ---------------------------
(***************************************************************************)
(* What ServiceStart guarantees for any number of owners and addresses,    *)
(* any endpoints, retries, faults and trees.                               *)
(*                                                                         *)
(* SInv is StateType, which is TypeOK without the history of the rounds,   *)
(* and, of each owner, seven parts.                                        *)
(*  - Launching: which steps have a child, and which a row that owes it.   *)
(*  - Ending: what containment and capture proved stays true of a tree     *)
(*    that goes on by itself.                                              *)
(*  - Guarded: the startup locks are all held between the last one taken   *)
(*    and the ready commit.                                                *)
(*  - Checking: the keys of a round that are done succeeded in that round. *)
(*  - Trying: where the probe process, its row and its result are.         *)
(*  - Owing and Settling: TreeIsOwed and VerdictIsObserved, of one owner.  *)
(* A step of one owner keeps what is said of the others (OthersInv), since *)
(* a lock is only taken when free and freed by who holds it; the host only *)
(* moves a tree and its probe forward (Hosted).                            *)
(*                                                                         *)
(* RInv, beside it, is of the listeners of a round, whose observations     *)
(* are made of many steps (Scanning, Witnessing).  Its core: a witness     *)
(* that was once not held between the two observations is lost, and what   *)
(* is lost stays lost, since sockets and helpers only go forward (Ageing). *)
(* So a socket that the second observation sees to be the witness's was    *)
(* held all the time, or belongs to a process that moved, which lends      *)
(* nothing.                                                                *)
(***************************************************************************)
EXTENDS ServiceStart, SequenceTheorems, TLAPS

\* The elements of a sequence.
Elements(s) == {s[i] : i \in DOMAIN s}

\* Steps before there is a child.
BarePCs  == {"absent", "lock", "bind", "intent", "prepare", "spawn"}

\* Steps between the commit of the row and its terminal.
OwingPCs == {"release", "launch", "grace"} \cup CheckPCs
              \cup {"up", "stop", "contain", "capture", "settle"}

\* Steps of one probe, from its row to its credit.
RunPCs == {"admit", "watch", "finish", "record", "credit"}

\* Steps of an observation after its candidates were listed, and those in one of them.
ScanPCs == {"look", "sight", "recheck"}
InsidePCs == {"sight", "recheck"}

\* The steps of an owner, and what ends its preparation, its session and itself.
Moving(o) == OwnerStep(o) \/ PrepareEnds(o) \/ Choose(o) \/ Crash(o)

\* Which step the child and its row belong to.
Launching(o) ==
  /\ pc[o] \in BarePCs => leader[o] = "none"
  /\ pc[o] \in BarePCs \cup {"register"} => row[o] = NoRow
  /\ pc[o] \in OwingPCs => row[o].owned = "unresolved"
  /\ pc[o] = "drop" => row[o].owned # "none"
  /\ row[o].owned = "settled" => contained[o] /\ captured[o]

\* What containment and capture proved stays true of the tree.
Ending(o) ==
  /\ contained[o] => /\ pc[o] \in {"capture", "settle", "drop"} \cup EndPCs
                     /\ leader[o] = "dead"
                     /\ HelperLives(o) => Away(o) /\ o \notin known
  /\ captured[o]  => /\ pc[o] \in {"settle", "drop"} \cup EndPCs
                     /\ leader[o] \in {"none", "dead"}
                     /\ HelperLives(o) => helper[o] = "mute"

\* Locks are taken one after the other and kept until the ready commit.
Guarded(o) ==
  /\ pc[o] = "lock" => \A p \in Endpoints(o) : lock[p] = o \/ p \in Elements(todo[o])
  /\ phase[o] = "ready" /\ pc[o] \notin {"lock"} \cup EndPCs =>
       \A p \in Endpoints(o) : lock[p] = o

\* A success of the current round.
Fresh(o, k) == Credited(probeRow[o][k]) /\ probeRow[o][k].attempt = attempt[o]

\* Keys are checked one after the other, and each that is done is fresh.
Checking(o) ==
  /\ pc[o] \in RunPCs \cup {"probe"} =>
       /\ todo[o] # <<>> /\ Elements(todo[o]) \subseteq Probed(o)
       /\ \A k \in Probed(o) : k \in Elements(todo[o]) \/ Fresh(o, k)
  /\ pc[o] \in InsidePCs => at[o] \in Tree

\* Where the probe process and its row are.
Trying(o) ==
  /\ pc[o] \notin {"admit", "watch", "finish", "credit"} \cup StopPCs \cup EndPCs =>
       probe[o] = "none"
  /\ pc[o] = "watch" => probe[o] \in {"running", "passed", "failed"}
  /\ pc[o] \in RunPCs =>
       key[o] = Head(todo[o]) /\ probeRow[o][key[o]].attempt = attempt[o]
  /\ pc[o] \in {"admit", "watch", "finish", "record"} =>
       probeRow[o][key[o]].owned = "unresolved"
  /\ pc[o] \in {"admit", "watch"} => probeRow[o][key[o]].outcome = "none"
  /\ pc[o] \in {"finish", "record"} => probeRow[o][key[o]].outcome \in {"none", result[o]}
  /\ pc[o] = "credit" /\ probeRow[o][key[o]].owned = "settled" =>
       probeRow[o][key[o]].status = Verdict(o)

\* What owes a tree: TreeIsOwed, of one owner.
Owing(o) ==
  row[o].owned # "unresolved" =>
    /\ leader[o] \in {"none", "gate", "dead"}
    /\ HelperLives(o) => helper[o] = "mute" /\ o \notin known

\* What settles a probe: VerdictIsObserved, of one owner.
Settling(o) ==
  \A k \in Probed(o) :
    probeRow[o][k].owned = "settled" =>
      /\ probeRow[o][k].outcome \in {"none", probeRow[o][k].status}
      /\ k = key[o] => probe[o] = "none"

\* All that is said of one owner.
OwnerInv(o) ==
  Launching(o) /\ Ending(o) /\ Guarded(o) /\ Checking(o) /\ Trying(o) /\ Owing(o)
    /\ Settling(o)

\* Type correctness in parts.
ControlType ==
  /\ pc \in [Owners -> PCs]
  /\ todo \in [Owners -> Seq(Ports \cup {None})]
  /\ lock \in [Ports -> Owners \cup {None, Other}]
  /\ phase \in [Owners -> {"ready", "health"}]
  /\ attempt \in [Owners -> 0..(MaxAttempts - 1)]
  /\ policy \in [Owners -> Policies]

\* The observations of a round.
RoundsType ==
  /\ queue \in [Owners -> SUBSET Tree]
  /\ at \in [Owners -> Tree \cup {None}]
  /\ unread \in [Owners -> SUBSET Ports]
  /\ DOMAIN sighting = Owners /\ DOMAIN found = Owners /\ DOMAIN witness = Owners
  /\ \A o \in Owners : /\ sighting[o] \in [Endpoints(o) -> Nat]
                        /\ found[o] \in Sights(o) /\ witness[o] \in Sights(o)

\* The probes and their rows.
ProbesType ==
  /\ probe \in [Owners -> {"none", "gate", "running", "passed", "failed"}]
  /\ DOMAIN key = Owners /\ \A o \in Owners : key[o] \in Probed(o)
  /\ result \in [Owners -> Outcomes \cup {"error"}]
  /\ DOMAIN probeRow = Owners
  /\ \A o \in Owners : probeRow[o] \in [Probed(o) -> ProbeRows]

\* The trees and the sockets.
HostType ==
  /\ leader \in [Owners -> {"none", "gate", "released", "live", "dead"}]
  /\ helper \in [Owners -> {"none", "in", "out", "mute", "dead"}]
  /\ holder \in [Ports -> {Free, Other} \cup (Owners \X {"leader", "helper"})]
  /\ socket \in [Ports -> Nat] /\ \A p \in Ports : socket[p] <= MaxSockets[p]

\* The results of containment and capture.
EndingType == contained \in [Owners -> BOOLEAN] /\ captured \in [Owners -> BOOLEAN]

\* The evidence about trees.
TrackerType == known \subseteq Owners /\ strayed \subseteq Strict \cap known

\* The process rows.
RowType == row \in [Owners -> Rows]

\* TypeOK but for the history of the rounds.
StateType ==
  /\ ControlType /\ RoundsType /\ EndingType /\ TrackerType /\ HostType
  /\ RowType /\ ProbesType /\ canceled \subseteq Owners

\* The inductive invariant.
SInv == StateType /\ \A o \in Owners : OwnerInv(o)

-----------------------------------------------------------------------------
\* The keys of an owner are a sequence that is not empty.
LEMMA KeysType ==
  ASSUME NEW o \in Owners
  PROVE  /\ Keys(o) \in Seq(Ports \cup {None}) /\ Keys(o) # <<>>
         /\ Elements(Keys(o)) = Probed(o)
         /\ Wants[o] \in Seq(Ports)
         /\ Wants[o] \in Seq(Ports \cup {None})
         /\ Endpoints(o) \subseteq Ports
         /\ Endpoints(o) = Elements(Wants[o])
<1>1. Wants[o] \in Seq(Ports)
  BY ServiceAssumption
<1>2. Wants[o] \in Seq(Ports \cup {None})
  BY <1>1
<1>3. Keys(o) \in Seq(Ports \cup {None}) /\ Keys(o) # <<>>
  <2>1. CASE Wants[o] = <<>>
    <3>1. <<None>> \in Seq(Ports \cup {None}) /\ <<None>> # <<>>
      OBVIOUS
    <3>2. QED
      BY <2>1, <3>1 DEF Keys
  <2>2. CASE Wants[o] # <<>>
    BY <1>2, <2>2 DEF Keys
  <2>3. QED
    BY <2>1, <2>2
<1>4. Elements(Keys(o)) = Probed(o) /\ Endpoints(o) = Elements(Wants[o])
  BY Zenon DEF Elements, Probed, Endpoints
<1>5. Endpoints(o) \subseteq Ports
  BY <1>1 DEF Endpoints
<1>6. QED
  BY <1>1, <1>2, <1>3, <1>4, <1>5

\* What is left of a sequence without its head.
LEMMA TailLoses ==
  ASSUME NEW S, NEW s \in Seq(S), s # <<>>
  PROVE  /\ Head(s) \in S /\ Tail(s) \in Seq(S) /\ Head(s) \in Elements(s)
         /\ Elements(s) = {Head(s)} \cup Elements(Tail(s))
<1>1. Len(s) \in Nat \ {0} /\ DOMAIN s = 1..Len(s) /\ Head(s) = s[1] /\ s[1] \in S
  BY HeadTailProperties
<1>2. /\ Tail(s) \in Seq(S) /\ Len(Tail(s)) = Len(s) - 1
      /\ \A i \in 1..Len(Tail(s)) : Tail(s)[i] = s[i + 1]
  BY HeadTailProperties
<1>3. DOMAIN Tail(s) = 1..(Len(s) - 1)
  BY <1>2, <1>1
<1>4. ASSUME NEW i \in DOMAIN s
      PROVE  s[i] = Head(s) \/ s[i] \in Elements(Tail(s))
  <2>1. CASE i = 1
    BY <2>1, <1>1
  <2>2. CASE i # 1
    <3>1. i - 1 \in DOMAIN Tail(s) /\ Tail(s)[i - 1] = s[i]
      BY <2>2, <1>1, <1>2, <1>3
    <3>2. QED
      BY <3>1 DEF Elements
  <2>3. QED
    BY <2>1, <2>2
<1>5. ASSUME NEW i \in DOMAIN Tail(s)
      PROVE  Tail(s)[i] \in Elements(s)
  <2>1. i + 1 \in DOMAIN s /\ Tail(s)[i] = s[i + 1]
    BY <1>1, <1>2, <1>3
  <2>2. QED
    BY <2>1 DEF Elements
<1>6. Head(s) \in Elements(s)
  BY <1>1 DEF Elements
<1>7. QED
  BY <1>1, <1>2, <1>4, <1>5, <1>6 DEF Elements

-----------------------------------------------------------------------------
\* What a step of one owner leaves of another one's control.
ControlKept(q) ==
  /\ pc'[q] = pc[q] /\ todo'[q] = todo[q] /\ phase'[q] = phase[q]
  /\ attempt'[q] = attempt[q] /\ policy'[q] = policy[q]
  /\ \A p \in Ports : lock[p] = q => lock'[p] = q

\* The control of an owner changes as a whole, at that owner.
LEMMA DriverStep ==
  ASSUME ControlType, NEW o \in Owners,
         pc' \in [Owners -> PCs], \A q \in Owners \ {o} : pc'[q] = pc[q],
         todo' \in [Owners -> Seq(Ports \cup {None})],
         \A q \in Owners \ {o} : todo'[q] = todo[q],
         phase' \in [Owners -> {"ready", "health"}],
         \A q \in Owners \ {o} : phase'[q] = phase[q],
         attempt' \in [Owners -> 0..(MaxAttempts - 1)],
         \A q \in Owners \ {o} : attempt'[q] = attempt[q],
         policy' \in [Owners -> Policies],
         \A q \in Owners \ {o} : policy'[q] = policy[q],
         \/ UNCHANGED lock
         \/ lock' = Freed(o)
         \/ \E p \in Ports : lock[p] = None /\ lock' = [lock EXCEPT ![p] = o]
  PROVE  ControlType' /\ \A q \in Owners \ {o} : ControlKept(q)
<1>1. lock \in [Ports -> Owners \cup {None, Other}] /\ None \notin Owners
  BY ServiceAssumption DEF ControlType
<1>2. /\ lock' \in [Ports -> Owners \cup {None, Other}]
      /\ \A q \in Owners \ {o} : \A p \in Ports : lock[p] = q => lock'[p] = q
  <2>1. CASE UNCHANGED lock
    BY <2>1, <1>1
  <2>2. CASE lock' = Freed(o)
    BY <2>2, <1>1 DEF Freed
  <2>3. CASE \E p \in Ports : lock[p] = None /\ lock' = [lock EXCEPT ![p] = o]
    BY <2>3, <1>1
  <2>4. QED
    BY <2>1, <2>2, <2>3
<1>3. QED
  BY <1>2 DEF ControlType, ControlKept

\* Everything but the locks, where only the step is taken.
LEMMA GotoStep ==
  ASSUME ControlType, NEW o \in Owners, NEW step \in PCs, Goto(o, step)
  PROVE  /\ pc' \in [Owners -> PCs] /\ pc'[o] = step
         /\ \A q \in Owners \ {o} : pc'[q] = pc[q]
BY DEF ControlType, Goto

\* Leaving the loops is control of the owner alone.
LEMMA LoopsStep ==
  ASSUME ControlType, NEW o \in Owners, LeaveLoops(o)
  PROVE  /\ todo' \in [Owners -> Seq(Ports \cup {None})]
         /\ \A q \in Owners \ {o} : todo'[q] = todo[q]
         /\ attempt' \in [Owners -> 0..(MaxAttempts - 1)]
         /\ \A q \in Owners \ {o} : attempt'[q] = attempt[q]
<1>1. <<>> \in Seq(Ports \cup {None}) /\ 0 \in 0..(MaxAttempts - 1)
  BY ServiceAssumption
<1>2. QED
  BY <1>1 DEF ControlType, LeaveLoops

\* The same of the composite control steps.
LEMMA RefuseStep ==
  ASSUME ControlType, NEW o \in Owners, Refuse(o)
  PROVE  ControlType' /\ (\A q \in Owners \ {o} : ControlKept(q)) /\ pc'[o] = "refused"
<1>1. "refused" \in PCs
  BY DEF PCs, EndPCs
<1>2. Goto(o, "refused") /\ lock' = Freed(o) /\ UNCHANGED <<todo, phase, attempt, policy>>
  BY DEF Refuse
<1>3. /\ pc' \in [Owners -> PCs] /\ pc'[o] = "refused"
      /\ \A q \in Owners \ {o} : pc'[q] = pc[q]
  BY <1>1, <1>2, GotoStep
<1>4. /\ todo \in [Owners -> Seq(Ports \cup {None})] /\ phase \in [Owners -> {"ready", "health"}]
      /\ attempt \in [Owners -> 0..(MaxAttempts - 1)] /\ policy \in [Owners -> Policies]
  BY DEF ControlType
<1>5. ControlType' /\ \A q \in Owners \ {o} : ControlKept(q)
  BY <1>2, <1>3, <1>4, DriverStep
<1>6. QED
  BY <1>3, <1>5

\* The choice of a teardown for a start that failed.
LEMMA FailStep ==
  ASSUME ControlType, NEW o \in Owners, Fail(o)
  PROVE  /\ ControlType' /\ \A q \in Owners \ {o} : ControlKept(q)
         /\ pc'[o] = "contain" /\ lock' = lock /\ phase' = phase
<1>1. "contain" \in PCs /\ {"failed", "canceled"} \subseteq Policies
  BY DEF PCs, StopPCs, Policies
<1>2. Goto(o, "contain") /\ LeaveLoops(o) /\ UNCHANGED <<lock, phase>>
  BY DEF Fail
<1>3. \E why \in Policies : policy' = [policy EXCEPT ![o] = why]
  BY <1>1 DEF Fail
<1>4. policy' \in [Owners -> Policies] /\ \A q \in Owners \ {o} : policy'[q] = policy[q]
  BY <1>3 DEF ControlType
<1>5. phase \in [Owners -> {"ready", "health"}]
  BY DEF ControlType
<1>6. /\ pc' \in [Owners -> PCs] /\ pc'[o] = "contain"
      /\ \A q \in Owners \ {o} : pc'[q] = pc[q]
  BY <1>1, <1>2, GotoStep
<1>7. /\ todo' \in [Owners -> Seq(Ports \cup {None})]
      /\ \A q \in Owners \ {o} : todo'[q] = todo[q]
      /\ attempt' \in [Owners -> 0..(MaxAttempts - 1)]
      /\ \A q \in Owners \ {o} : attempt'[q] = attempt[q]
  BY <1>2, LoopsStep
<1>8. ControlType' /\ \A q \in Owners \ {o} : ControlKept(q)
  BY <1>2, <1>4, <1>5, <1>6, <1>7, DriverStep
<1>9. QED
  BY <1>2, <1>6, <1>8

\* A step that goes on and changes nothing else of the control.
LEMMA PlainStep ==
  ASSUME ControlType, NEW o \in Owners, NEW step \in PCs, Goto(o, step),
         UNCHANGED <<todo, lock, phase, attempt, policy>>
  PROVE  ControlType' /\ (\A q \in Owners \ {o} : ControlKept(q)) /\ pc'[o] = step
<1>1. /\ pc' \in [Owners -> PCs] /\ pc'[o] = step
      /\ \A q \in Owners \ {o} : pc'[q] = pc[q]
  BY GotoStep
<1>2. QED
  BY <1>1 DEF ControlType, ControlKept

\* Another attempt, or the failure of the last one.
LEMMA RetryStep ==
  ASSUME ControlType, NEW o \in Owners, Retry(o)
  PROVE  /\ ControlType' /\ \A q \in Owners \ {o} : ControlKept(q)
         /\ pc'[o] \in {"wait", "contain"} /\ lock' = lock /\ phase' = phase
<1>1. CASE attempt[o] + 1 < MaxAttempts
  <2>1. /\ Goto(o, "wait") /\ UNCHANGED <<todo, lock, phase, policy>>
        /\ attempt' = [attempt EXCEPT ![o] = @ + 1]
    BY <1>1 DEF Retry
  <2>2. /\ attempt' \in [Owners -> 0..(MaxAttempts - 1)]
        /\ \A q \in Owners \ {o} : attempt'[q] = attempt[q]
    BY <2>1, <1>1, ServiceAssumption DEF ControlType
  <2>3. "wait" \in PCs
    BY DEF PCs, CheckPCs
  <2>4. /\ pc' \in [Owners -> PCs] /\ pc'[o] = "wait"
        /\ \A q \in Owners \ {o} : pc'[q] = pc[q]
    BY <2>1, <2>3, GotoStep
  <2>5. /\ todo \in [Owners -> Seq(Ports \cup {None})]
        /\ phase \in [Owners -> {"ready", "health"}] /\ policy \in [Owners -> Policies]
    BY DEF ControlType
  <2>6. ControlType' /\ \A q \in Owners \ {o} : ControlKept(q)
    BY <2>1, <2>2, <2>4, <2>5, DriverStep
  <2>7. QED
    BY <2>1, <2>4, <2>6
<1>2. CASE ~(attempt[o] + 1 < MaxAttempts)
  BY <1>2, FailStep DEF Retry
<1>3. QED
  BY <1>1, <1>2

\* A step that takes the next element of a loop.
LEMMA NextStep ==
  ASSUME ControlType, NEW o \in Owners, todo[o] # <<>>,
         todo' = [todo EXCEPT ![o] = Tail(@)]
  PROVE  /\ todo' \in [Owners -> Seq(Ports \cup {None})]
         /\ \A q \in Owners \ {o} : todo'[q] = todo[q]
<1>1. todo[o] \in Seq(Ports \cup {None})
  BY DEF ControlType
<1>2. Tail(todo[o]) \in Seq(Ports \cup {None})
  BY <1>1, TailLoses
<1>3. QED
  BY <1>2 DEF ControlType

\* The steps before a launch.
LEMMA PrelaunchControl ==
  ASSUME ControlType, NEW o \in Owners, Prelaunch(o) \/ PrepareEnds(o)
  PROVE  ControlType' /\ \A q \in Owners \ {o} : ControlKept(q)
<1>t. /\ pc \in [Owners -> PCs] /\ todo \in [Owners -> Seq(Ports \cup {None})]
      /\ phase \in [Owners -> {"ready", "health"}]
      /\ attempt \in [Owners -> 0..(MaxAttempts - 1)] /\ policy \in [Owners -> Policies]
  BY DEF ControlType
<1>p. {"bind", "intent", "prepare", "spawn"} \subseteq PCs
  BY DEF PCs, StartPCs
<1>1. CASE TakeLock(o) /\ todo[o] = <<>>
  <2>1. /\ Goto(o, "bind") /\ todo' = [todo EXCEPT ![o] = Wants[o]]
        /\ UNCHANGED <<lock, phase, attempt, policy>>
    BY <1>1 DEF TakeLock
  <2>2. /\ pc' \in [Owners -> PCs] /\ \A q \in Owners \ {o} : pc'[q] = pc[q]
    BY <2>1, <1>p, GotoStep
  <2>3. /\ todo' \in [Owners -> Seq(Ports \cup {None})]
        /\ \A q \in Owners \ {o} : todo'[q] = todo[q]
    BY <2>1, <1>t, KeysType
  <2>4. QED
    BY <2>1, <2>2, <2>3, <1>t, DriverStep
<1>2. CASE TakeLock(o) /\ todo[o] # <<>>
  <2>1. /\ lock[Head(todo[o])] = None /\ lock' = [lock EXCEPT ![Head(todo[o])] = o]
        /\ todo' = [todo EXCEPT ![o] = Tail(@)] /\ UNCHANGED <<pc, phase, attempt, policy>>
    BY <1>2 DEF TakeLock
  <2>2. /\ todo' \in [Owners -> Seq(Ports \cup {None})]
        /\ \A q \in Owners \ {o} : todo'[q] = todo[q]
    BY <2>1, <1>2, NextStep
  <2>3. UNCHANGED lock \/ \E p \in Ports : lock[p] = None /\ lock' = [lock EXCEPT ![p] = o]
    <3>1. CASE Head(todo[o]) \in Ports
      BY <3>1, <2>1
    <3>2. CASE Head(todo[o]) \notin Ports
      BY <3>2, <2>1 DEF ControlType
    <3>3. QED
      BY <3>1, <3>2
  <2>4. QED
    BY <2>1, <2>2, <2>3, <1>t, DriverStep
<1>3. CASE Preflight(o) /\ todo[o] = <<>>
  <2>1. Goto(o, "intent") /\ UNCHANGED <<todo, lock, phase, attempt, policy>>
    BY <1>3 DEF Preflight
  <2>2. QED
    BY <2>1, <1>p, PlainStep
<1>4. CASE Preflight(o) /\ todo[o] # <<>>
  <2>1. /\ todo' = [todo EXCEPT ![o] = Tail(@)]
        /\ UNCHANGED <<pc, lock, phase, attempt, policy>>
    BY <1>4 DEF Preflight
  <2>2. /\ todo' \in [Owners -> Seq(Ports \cup {None})]
        /\ \A q \in Owners \ {o} : todo'[q] = todo[q]
    BY <2>1, <1>4, NextStep
  <2>3. QED
    BY <2>1, <2>2, <1>t, DriverStep
<1>5. CASE StartFails(o)
  BY <1>5, RefuseStep DEF StartFails
<1>6. CASE Intend(o)
  <2>1. /\ \E step \in {"prepare", "spawn"} : Goto(o, step)
        /\ UNCHANGED <<todo, lock, phase, attempt, policy>>
    BY <1>6 DEF Intend
  <2>2. QED
    BY <2>1, <1>p, PlainStep
<1>7. CASE PrepareCut(o)
  BY <1>7, RefuseStep DEF PrepareCut
<1>8. CASE PrepareEnds(o)
  BY <1>8, <1>p, PlainStep, RefuseStep DEF PrepareEnds
<1>9. QED
  BY <1>1, <1>2, <1>3, <1>4, <1>5, <1>6, <1>7, <1>8 DEF Prelaunch

\* A step of an observation goes on, tries again, or fails.
LEMMA LookControl ==
  ASSUME ControlType, NEW o \in Owners, Look(o)
  PROVE  /\ ControlType' /\ \A q \in Owners \ {o} : ControlKept(q)
         /\ lock' = lock /\ phase' = phase
         /\ pc[o] \in LookPCs
         /\ pc'[o] \in ScanPCs \cup {"probe", "wait", "commit", "contain"}
<1>p. LookPCs \cup ScanPCs \cup {"probe", "commit"} \subseteq PCs
  BY DEF PCs, CheckPCs, LookPCs, ScanPCs, ProbePCs
<1>1. CASE List(o)
  <2>1. pc[o] = "list" /\ Goto(o, "look") /\ UNCHANGED <<todo, lock, phase, attempt, policy>>
    BY <1>1 DEF List
  <2>2. QED
    BY <2>1, <1>p, PlainStep DEF LookPCs, ScanPCs
<1>2. CASE Inspect(o)
  <2>1. /\ pc[o] = "look" /\ (Goto(o, "sight") \/ UNCHANGED pc)
        /\ UNCHANGED <<todo, lock, phase, attempt, policy>>
    BY <1>2 DEF Inspect
  <2>2. CASE Goto(o, "sight")
    BY <2>1, <2>2, <1>p, PlainStep DEF LookPCs, ScanPCs
  <2>3. CASE UNCHANGED pc
    BY <2>1, <2>3 DEF ControlType, ControlKept, LookPCs, ScanPCs
  <2>4. QED
    BY <2>1, <2>2, <2>3
<1>3. CASE Sight(o) \/ Recheck(o)
  <2>1. pc[o] \in {"sight", "recheck"} /\ UNCHANGED driver
    BY <1>3 DEF Sight, Recheck
  <2>2. QED
    BY <2>1 DEF driver, ControlType, ControlKept, LookPCs, ScanPCs
<1>4. CASE Dump(o)
  <2>1. /\ pc[o] = "sight" /\ Goto(o, "recheck")
        /\ UNCHANGED <<todo, lock, phase, attempt, policy>>
    BY <1>4 DEF Dump
  <2>2. QED
    BY <2>1, <1>p, PlainStep DEF LookPCs, ScanPCs
<1>5. CASE Admit(o)
  <2>1. /\ pc[o] = "recheck" /\ Goto(o, "look")
        /\ UNCHANGED <<todo, lock, phase, attempt, policy>>
    BY <1>5 DEF Admit
  <2>2. QED
    BY <2>1, <1>p, PlainStep DEF LookPCs, ScanPCs
<1>6. CASE LookFails(o)
  <2>1. pc[o] \in LookPCs /\ Fail(o)
    BY <1>6 DEF LookFails, LookPCs
  <2>2. QED
    BY <2>1, FailStep
<1>7. CASE Conclude(o)
  <2>0. pc[o] = "look" /\ "look" \in LookPCs
    BY <1>7 DEF Conclude, LookPCs
  <2>1. CASE Initial(o)
    <3>1. /\ Goto(o, "probe") /\ todo' = [todo EXCEPT ![o] = Keys(o)]
          /\ UNCHANGED <<lock, phase, attempt, policy>>
      BY <2>1 DEF Initial
    <3>2. /\ pc' \in [Owners -> PCs] /\ pc'[o] = "probe"
          /\ \A q \in Owners \ {o} : pc'[q] = pc[q]
      BY <3>1, <1>p, GotoStep
    <3>3. /\ todo' \in [Owners -> Seq(Ports \cup {None})]
          /\ \A q \in Owners \ {o} : todo'[q] = todo[q]
      BY <3>1, KeysType DEF ControlType
    <3>4. /\ phase \in [Owners -> {"ready", "health"}]
          /\ attempt \in [Owners -> 0..(MaxAttempts - 1)] /\ policy \in [Owners -> Policies]
      BY DEF ControlType
    <3>5. ControlType' /\ \A q \in Owners \ {o} : ControlKept(q)
      BY <3>1, <3>2, <3>3, <3>4, DriverStep
    <3>6. QED
      BY <2>0, <3>1, <3>2, <3>5
  <2>2. CASE Final(o)
    <3>1. Goto(o, "commit") /\ UNCHANGED <<todo, lock, phase, attempt, policy>>
      BY <2>2 DEF Final
    <3>2. QED
      BY <2>0, <3>1, <1>p, PlainStep
  <2>3. CASE Missing(o)
    BY <2>0, <2>3, RetryStep DEF Missing
  <2>4. QED
    BY <1>7, <2>1, <2>2, <2>3 DEF Conclude
<1>8. QED
  BY <1>1, <1>2, <1>3, <1>4, <1>5, <1>6, <1>7 DEF Look

\* A check step goes on, tries again, or fails.
LEMMA CheckControl ==
  ASSUME ControlType, NEW o \in Owners, CheckStep(o)
  PROVE  /\ ControlType' /\ \A q \in Owners \ {o} : ControlKept(q)
         /\ lock' = lock /\ phase' = phase
         /\ pc[o] \in LookPCs \cup {"round", "wait", "commit", "write"}
         /\ pc'[o] \in LookPCs \cup {"round", "probe", "wait", "commit", "write", "contain"}
<1>p. {"list", "round", "probe", "wait", "commit", "write"} \subseteq PCs
  BY DEF PCs, CheckPCs, LookPCs, ProbePCs
<1>1. CASE Round(o)
  <2>1. pc[o] = "round" /\ UNCHANGED <<lock, phase, attempt, policy>>
    BY <1>1 DEF Round
  <2>2. CASE Endpoints(o) = {}
    <3>1. Goto(o, "probe") /\ todo' = [todo EXCEPT ![o] = Keys(o)]
      BY <1>1, <2>2 DEF Round
    <3>2. /\ pc' \in [Owners -> PCs] /\ pc'[o] = "probe"
          /\ \A q \in Owners \ {o} : pc'[q] = pc[q]
      BY <3>1, <1>p, GotoStep
    <3>3. /\ todo' \in [Owners -> Seq(Ports \cup {None})]
          /\ \A q \in Owners \ {o} : todo'[q] = todo[q]
      BY <3>1, KeysType DEF ControlType
    <3>4. /\ phase \in [Owners -> {"ready", "health"}]
          /\ attempt \in [Owners -> 0..(MaxAttempts - 1)] /\ policy \in [Owners -> Policies]
      BY DEF ControlType
    <3>5. ControlType' /\ \A q \in Owners \ {o} : ControlKept(q)
      BY <2>1, <3>2, <3>3, <3>4, DriverStep
    <3>6. QED
      BY <2>1, <3>2, <3>5
  <2>3. CASE Endpoints(o) # {}
    <3>1. Goto(o, "list") /\ UNCHANGED <<todo, lock, phase, attempt, policy>>
      BY <1>1, <2>3 DEF Round
    <3>2. QED
      BY <2>1, <3>1, <1>p, PlainStep DEF LookPCs
  <2>4. QED
    BY <2>2, <2>3
<1>2. CASE Look(o)
  BY <1>2, LookControl DEF LookPCs, ScanPCs
<1>3. CASE Wait(o)
  <2>1. pc[o] = "wait" /\ Goto(o, "round") /\ UNCHANGED <<todo, lock, phase, attempt, policy>>
    BY <1>3 DEF Wait
  <2>2. QED
    BY <2>1, <1>p, PlainStep
<1>4. CASE Commit(o)
  <2>1. /\ pc[o] = "commit" /\ Goto(o, "write")
        /\ UNCHANGED <<todo, lock, phase, attempt, policy>>
    BY <1>4 DEF Commit
  <2>2. QED
    BY <2>1, <1>p, PlainStep
<1>5. CASE CheckFails(o)
  <2>1. pc[o] \in {"round", "wait", "commit", "write"} /\ Fail(o)
    BY <1>5 DEF CheckFails, Depart
  <2>2. QED
    BY <2>1, FailStep
<1>6. QED
  BY <1>1, <1>2, <1>3, <1>4, <1>5 DEF CheckStep

\* A probe step goes on, tries again, or fails.
LEMMA ProbeControl ==
  ASSUME ControlType, NEW o \in Owners, Checking(o), ProbeStep(o)
  PROVE  /\ ControlType' /\ \A q \in Owners \ {o} : ControlKept(q)
         /\ lock' = lock /\ phase' = phase
         /\ pc[o] \in RunPCs \cup {"probe"}
         /\ pc'[o] \in RunPCs \cup {"probe", "list", "commit", "wait", "contain"}
<1>p. RunPCs \cup {"probe", "list", "commit"} \subseteq PCs
  BY DEF PCs, CheckPCs, LookPCs, ProbePCs, RunPCs
<1>1. CASE StartProbe(o)
  <2>1. /\ pc[o] = "probe" /\ Goto(o, "admit")
        /\ UNCHANGED <<todo, lock, phase, attempt, policy>>
    BY <1>1 DEF StartProbe
  <2>2. QED
    BY <2>1, <1>p, PlainStep DEF RunPCs
<1>2. CASE ProbeFails(o)
  BY <1>2, FailStep DEF ProbeFails, Depart
<1>3. CASE AdmitProbe(o)
  <2>1. /\ pc[o] = "admit" /\ (Goto(o, "watch") \/ Goto(o, "finish"))
        /\ UNCHANGED <<todo, lock, phase, attempt, policy>>
    BY <1>3 DEF AdmitProbe
  <2>2. QED
    BY <2>1, <1>p, PlainStep DEF RunPCs
<1>4. CASE WatchProbe(o)
  <2>1. /\ pc[o] = "watch" /\ Goto(o, "finish")
        /\ UNCHANGED <<todo, lock, phase, attempt, policy>>
    BY <1>4 DEF WatchProbe
  <2>2. QED
    BY <2>1, <1>p, PlainStep DEF RunPCs
<1>5. CASE FinishProbe(o)
  <2>1. /\ pc[o] = "finish" /\ (Goto(o, "record") \/ Goto(o, "credit"))
        /\ UNCHANGED <<todo, lock, phase, attempt, policy>>
    BY <1>5 DEF FinishProbe
  <2>2. QED
    BY <2>1, <1>p, PlainStep DEF RunPCs
<1>6. CASE RecordProbe(o)
  <2>1. /\ pc[o] = "record" /\ Goto(o, "credit")
        /\ UNCHANGED <<todo, lock, phase, attempt, policy>>
    BY <1>6 DEF RecordProbe
  <2>2. QED
    BY <2>1, <1>p, PlainStep DEF RunPCs
<1>7. CASE CreditProbe(o)
  <2>1. pc[o] = "credit" /\ pc[o] \in RunPCs
    BY <1>7 DEF CreditProbe, RunPCs
  <2>2. CASE Retry(o) \/ Fail(o)
    BY <2>1, <2>2, RetryStep, FailStep
  <2>3. CASE ~(Retry(o) \/ Fail(o))
    <3>1. /\ todo' = [todo EXCEPT ![o] = Tail(@)]
          /\ \E step \in {"list", "commit", "probe"} : Goto(o, step)
          /\ UNCHANGED <<lock, phase, attempt, policy>>
      BY <1>7, <2>3 DEF CreditProbe, Depart
    <3>2. todo[o] # <<>>
      BY <2>1 DEF Checking
    <3>3. /\ todo' \in [Owners -> Seq(Ports \cup {None})]
          /\ \A q \in Owners \ {o} : todo'[q] = todo[q]
      BY <3>1, <3>2, NextStep
    <3>4. PICK step \in {"list", "commit", "probe"} : Goto(o, step)
      BY <3>1
    <3>5. /\ pc' \in [Owners -> PCs] /\ pc'[o] \in {"list", "commit", "probe"}
          /\ \A q \in Owners \ {o} : pc'[q] = pc[q]
      BY <3>4, <1>p, GotoStep
    <3>6. /\ phase \in [Owners -> {"ready", "health"}]
          /\ attempt \in [Owners -> 0..(MaxAttempts - 1)] /\ policy \in [Owners -> Policies]
      BY DEF ControlType
    <3>7. ControlType' /\ \A q \in Owners \ {o} : ControlKept(q)
      BY <3>1, <3>3, <3>5, <3>6, DriverStep
    <3>8. QED
      BY <2>1, <3>1, <3>5, <3>7
  <2>4. QED
    BY <2>2, <2>3
<1>8. QED
  BY <1>1, <1>2, <1>3, <1>4, <1>5, <1>6, <1>7 DEF ProbeStep

\* The control of any step of an owner.
LEMMA OwnerControl ==
  ASSUME ControlType, NEW o \in Owners, Checking(o), Moving(o)
  PROVE  ControlType' /\ \A q \in Owners \ {o} : ControlKept(q)
<1>p. PCs = StartPCs \cup CheckPCs \cup {"up"} \cup StopPCs \cup EndPCs
  BY DEF PCs
<1>t. /\ todo \in [Owners -> Seq(Ports \cup {None})] /\ policy \in [Owners -> Policies]
      /\ phase \in [Owners -> {"ready", "health"}]
      /\ attempt \in [Owners -> 0..(MaxAttempts - 1)]
  BY DEF ControlType
<1>1. CASE Prelaunch(o) \/ PrepareEnds(o)
  BY <1>1, PrelaunchControl
<1>2. CASE SpawnGate(o)
  BY <1>2, <1>p, PlainStep DEF SpawnGate, StartPCs
<1>3. CASE Register(o)
  BY <1>3, <1>p, PlainStep DEF Register, StartPCs
<1>4. CASE RegisterFails(o)
  BY <1>4, RefuseStep DEF RegisterFails
<1>5. CASE Release(o)
  BY <1>5, <1>p, PlainStep DEF Release, StartPCs
<1>6. CASE Launched(o)
  BY <1>6, <1>p, PlainStep DEF Launched, StartPCs
<1>7. CASE LaunchFails(o)
  BY <1>7, FailStep DEF LaunchFails
<1>8. CASE Grace(o)
  <2>1. \/ UNCHANGED driver
        \/ Goto(o, "round") /\ UNCHANGED <<todo, lock, phase, attempt, policy>>
        \/ Fail(o)
    BY <1>8 DEF Grace, Depart
  <2>2. CASE UNCHANGED driver
    BY <2>2 DEF driver, ControlType, ControlKept
  <2>3. CASE Goto(o, "round") /\ UNCHANGED <<todo, lock, phase, attempt, policy>>
    BY <2>3, <1>p, PlainStep DEF CheckPCs
  <2>4. QED
    BY <2>1, <2>2, <2>3, FailStep
<1>9. CASE CheckStep(o)
  BY <1>9, CheckControl
<1>10. CASE ProbeStep(o)
  BY <1>10, ProbeControl
<1>11. CASE WriteCheck(o)
  <2>1. /\ \E step \in {"unguard", "up"} : Goto(o, step)
        /\ UNCHANGED <<todo, lock, phase, attempt, policy>>
    BY <1>11 DEF WriteCheck
  <2>2. {"unguard", "up"} \subseteq PCs
    BY <1>p DEF CheckPCs
  <2>3. QED
    BY <2>1, <2>2, PlainStep
<1>12. CASE Unguard(o)
  <2>1. /\ lock' = Freed(o) /\ phase' = [phase EXCEPT ![o] = "health"]
        /\ attempt' = [attempt EXCEPT ![o] = 0] /\ Goto(o, "round")
        /\ UNCHANGED <<todo, policy>>
    BY <1>12 DEF Unguard
  <2>2. pc' \in [Owners -> PCs] /\ \A q \in Owners \ {o} : pc'[q] = pc[q]
    BY <2>1, <1>p, GotoStep DEF CheckPCs
  <2>3. /\ phase' \in [Owners -> {"ready", "health"}]
        /\ \A q \in Owners \ {o} : phase'[q] = phase[q]
    BY <2>1, <1>t
  <2>4. /\ attempt' \in [Owners -> 0..(MaxAttempts - 1)]
        /\ \A q \in Owners \ {o} : attempt'[q] = attempt[q]
    BY <2>1, <1>t, ServiceAssumption
  <2>5. QED
    BY <2>1, <2>2, <2>3, <2>4, <1>t, DriverStep
<1>13. CASE Choose(o) \/ Stop(o)
  <2>1. /\ \E how \in {"stop", "cancel", "failed"} : policy' = [policy EXCEPT ![o] = how]
        /\ Goto(o, "stop") \/ Goto(o, "contain")
        /\ UNCHANGED <<todo, lock, phase, attempt>>
    BY <1>13 DEF Choose, Stop
  <2>2. pc' \in [Owners -> PCs] /\ \A q \in Owners \ {o} : pc'[q] = pc[q]
    BY <2>1, <1>p, GotoStep DEF StopPCs
  <2>3. policy' \in [Owners -> Policies] /\ \A q \in Owners \ {o} : policy'[q] = policy[q]
    BY <2>1, <1>t DEF Policies
  <2>4. QED
    BY <2>1, <2>2, <2>3, <1>t, DriverStep
<1>14. CASE Contain(o)
  BY <1>14, <1>p, PlainStep DEF Contain, StopPCs
<1>15. CASE Capture(o)
  BY <1>15, <1>p, PlainStep DEF Capture, StopPCs
<1>16. CASE Settle(o)
  BY <1>16, <1>p, PlainStep DEF Settle, StopPCs
<1>17. CASE Drop(o)
  <2>1. lock' = Freed(o) /\ Goto(o, "ended") /\ UNCHANGED <<todo, phase, attempt, policy>>
    BY <1>17 DEF Drop
  <2>2. pc' \in [Owners -> PCs] /\ \A q \in Owners \ {o} : pc'[q] = pc[q]
    BY <2>1, <1>p, GotoStep DEF EndPCs
  <2>3. QED
    BY <2>1, <2>2, <1>t, DriverStep
<1>18. CASE Crash(o)
  <2>1. /\ lock' = Freed(o) /\ Goto(o, "crashed") /\ LeaveLoops(o)
        /\ UNCHANGED <<phase, policy>>
    BY <1>18 DEF Crash
  <2>2. pc' \in [Owners -> PCs] /\ \A q \in Owners \ {o} : pc'[q] = pc[q]
    BY <2>1, <1>p, GotoStep DEF EndPCs
  <2>3. /\ todo' \in [Owners -> Seq(Ports \cup {None})]
        /\ \A q \in Owners \ {o} : todo'[q] = todo[q]
        /\ attempt' \in [Owners -> 0..(MaxAttempts - 1)]
        /\ \A q \in Owners \ {o} : attempt'[q] = attempt[q]
    BY <2>1, LoopsStep
  <2>4. QED
    BY <2>1, <2>2, <2>3, <1>t, DriverStep
<1>19. QED
  BY <1>1, <1>2, <1>3, <1>4, <1>5, <1>6, <1>7, <1>8, <1>9, <1>10, <1>11, <1>12, <1>13,
     <1>14, <1>15, <1>16, <1>17, <1>18, Zenon DEF Moving, OwnerStep

-----------------------------------------------------------------------------
\* What each part of the state is changed by.
LEMMA ScopeOfSteps ==
  ASSUME NEW o \in Owners, Moving(o)
  PROVE  /\ UNCHANGED rounds \/ Look(o) \/ Forget(o)
         /\ UNCHANGED ending \/ Contain(o) \/ Capture(o)
         /\ UNCHANGED tracker \/ Refresh(o)
         /\ UNCHANGED tree \/ SpawnGate(o) \/ RegisterFails(o) \/ Release(o) \/ Contain(o)
              \/ Drop(o)
         /\ UNCHANGED sockets \/ Contain(o) \/ Drop(o)
         /\ UNCHANGED row \/ Register(o) \/ WriteCheck(o) \/ Settle(o)
         /\ UNCHANGED probes \/ ProbeStep(o)
         /\ UNCHANGED canceled
<1>1. CASE Prelaunch(o) \/ PrepareEnds(o)
  BY <1>1 DEF Prelaunch, PrepareEnds
<1>2. CASE SpawnGate(o) \/ RegisterFails(o) \/ Release(o)
  BY <1>2 DEF SpawnGate, RegisterFails, Release
<1>3. CASE Register(o) \/ WriteCheck(o) \/ Settle(o)
  BY <1>3 DEF Register, WriteCheck, Settle
<1>4. CASE Launched(o) \/ LaunchFails(o) \/ Unguard(o) \/ Choose(o)
  BY <1>4 DEF Launched, LaunchFails, Unguard, Choose
<1>5. CASE Grace(o)
  BY <1>5 DEF Grace, Proceed, Depart
<1>6. CASE CheckStep(o)
  <2>1. /\ UNCHANGED <<ending, tree, sockets, row, canceled>>
        /\ UNCHANGED <<rounds, probes>> \/ (Look(o) /\ UNCHANGED probes)
    BY <1>6 DEF CheckStep, Round, Look, Wait, Commit, CheckFails
  <2>2. UNCHANGED tracker \/ Refresh(o)
    BY <1>6 DEF CheckStep, Round, Look, Wait, Commit, CheckFails, Proceed, Depart
  <2>3. QED
    BY <1>6, <2>1, <2>2
<1>7. CASE ProbeStep(o)
  <2>1. UNCHANGED <<ending, tree, sockets, row, canceled>>
    BY <1>7 DEF ProbeStep
  <2>2. UNCHANGED tracker \/ Refresh(o)
    BY <1>7 DEF ProbeStep, StartProbe, ProbeFails, AdmitProbe, WatchProbe, FinishProbe,
                RecordProbe, CreditProbe, Proceed, Depart
  <2>3. UNCHANGED rounds \/ Forget(o)
    BY <1>7 DEF ProbeStep, ProbeFails, CreditProbe
  <2>4. QED
    BY <1>7, <2>1, <2>2, <2>3
<1>8. CASE Stop(o)
  BY <1>8 DEF Stop
<1>9. CASE Contain(o)
  BY <1>9 DEF Contain, Kill, Survives
<1>10. CASE Capture(o)
  BY <1>10 DEF Capture
<1>11. CASE Drop(o)
  BY <1>11 DEF Drop, Kill, Survives
<1>12. CASE Crash(o)
  BY <1>12 DEF Crash
<1>13. QED
  BY <1>1, <1>2, <1>3, <1>4, <1>5, <1>6, <1>7, <1>8, <1>9, <1>10, <1>11, <1>12, Zenon
  DEF Moving, OwnerStep

\* What a step of one owner leaves of another one's round.
RoundsKept(q) ==
  /\ queue'[q] = queue[q] /\ at'[q] = at[q] /\ unread'[q] = unread[q]
  /\ sighting'[q] = sighting[q] /\ found'[q] = found[q] /\ witness'[q] = witness[q]

\* ... and of the rest of its state.
OthersKept(q) ==
  /\ RoundsKept(q)
  /\ contained'[q] = contained[q] /\ captured'[q] = captured[q]
  /\ leader'[q] = leader[q] /\ helper'[q] = helper[q]
  /\ q \in known' <=> q \in known
  /\ row'[q] = row[q]
  /\ probe'[q] = probe[q] /\ key'[q] = key[q] /\ result'[q] = result[q]
  /\ probeRow'[q] = probeRow[q]

\* What an observation keeps changes at its owner.
LEMMA RoundsSet ==
  ASSUME RoundsType, NEW o \in Owners, NEW Q \in SUBSET Tree, NEW c \in Tree \cup {None},
         NEW U \in SUBSET Ports, NEW S \in [Endpoints(o) -> Nat], NEW F \in Sights(o),
         NEW W \in Sights(o),
         queue' = [queue EXCEPT ![o] = Q] \/ (UNCHANGED queue /\ Q = queue[o]),
         at' = [at EXCEPT ![o] = c] \/ (UNCHANGED at /\ c = at[o]),
         unread' = [unread EXCEPT ![o] = U] \/ (UNCHANGED unread /\ U = unread[o]),
         sighting' = [sighting EXCEPT ![o] = S] \/ (UNCHANGED sighting /\ S = sighting[o]),
         found' = [found EXCEPT ![o] = F] \/ (UNCHANGED found /\ F = found[o]),
         witness' = [witness EXCEPT ![o] = W] \/ (UNCHANGED witness /\ W = witness[o])
  PROVE  /\ RoundsType' /\ \A q \in Owners \ {o} : RoundsKept(q)
         /\ queue'[o] = Q /\ at'[o] = c /\ unread'[o] = U
         /\ sighting'[o] = S /\ found'[o] = F /\ witness'[o] = W
<1>1. /\ queue'[o] = Q /\ at'[o] = c /\ unread'[o] = U
      /\ sighting'[o] = S /\ found'[o] = F /\ witness'[o] = W
  BY DEF RoundsType
<1>2. \A q \in Owners \ {o} : RoundsKept(q)
  BY DEF RoundsKept, RoundsType
<1>3. /\ queue' \in [Owners -> SUBSET Tree] /\ at' \in [Owners -> Tree \cup {None}]
      /\ unread' \in [Owners -> SUBSET Ports]
      /\ DOMAIN sighting' = Owners /\ DOMAIN found' = Owners /\ DOMAIN witness' = Owners
  BY DEF RoundsType
<1>4. ASSUME NEW q \in Owners
      PROVE  /\ sighting'[q] \in [Endpoints(q) -> Nat]
             /\ found'[q] \in Sights(q) /\ witness'[q] \in Sights(q)
  BY <1>1, <1>2 DEF RoundsType, RoundsKept
<1>5. QED
  BY <1>1, <1>2, <1>3, <1>4 DEF RoundsType, Sights, Endpoints

\* What an observation keeps is of these kinds.
LEMMA RoundsAre ==
  ASSUME RoundsType, NEW o \in Owners
  PROVE  /\ queue[o] \in SUBSET Tree /\ at[o] \in Tree \cup {None}
         /\ unread[o] \in SUBSET Ports /\ sighting[o] \in [Endpoints(o) -> Nat]
         /\ found[o] \in Sights(o) /\ witness[o] \in Sights(o)
         /\ {} \in SUBSET Tree /\ {} \in SUBSET Ports
         /\ NoSight(o) \in [Endpoints(o) -> Nat] /\ Unseen(o) \in Sights(o)
BY DEF RoundsType, NoSight, Unseen, Sights

\* What an observation keeps, in any step of its owner.
LEMMA RoundsStep ==
  ASSUME ControlType, HostType, RoundsType, NEW o \in Owners, Checking(o), Moving(o)
  PROVE  RoundsType' /\ \A q \in Owners \ {o} : RoundsKept(q)
<1>t. /\ queue[o] \in SUBSET Tree /\ at[o] \in Tree \cup {None}
      /\ unread[o] \in SUBSET Ports /\ sighting[o] \in [Endpoints(o) -> Nat]
      /\ found[o] \in Sights(o) /\ witness[o] \in Sights(o)
      /\ {} \in SUBSET Tree /\ {} \in SUBSET Ports /\ None \in Tree \cup {None}
      /\ NoSight(o) \in [Endpoints(o) -> Nat] /\ Unseen(o) \in Sights(o)
  BY RoundsAre
<1>e. Endpoints(o) \subseteq Ports /\ socket \in [Ports -> Nat]
  BY KeysType DEF HostType
<1>1. CASE UNCHANGED rounds
  BY <1>1 DEF rounds, RoundsType, RoundsKept, Sights, Endpoints
<1>2. CASE Forget(o)
  <2>1. /\ queue' = [queue EXCEPT ![o] = {}] /\ at' = [at EXCEPT ![o] = None]
        /\ unread' = [unread EXCEPT ![o] = {}] /\ sighting' = [sighting EXCEPT ![o] = NoSight(o)]
        /\ found' = [found EXCEPT ![o] = Unseen(o)]
        /\ witness' = [witness EXCEPT ![o] = Unseen(o)]
    BY <1>2 DEF Forget, Looked
  <2>2. QED
    BY <2>1, <1>t, RoundsSet
<1>3. CASE Initial(o)
  <2>1. /\ queue' = [queue EXCEPT ![o] = {}] /\ at' = [at EXCEPT ![o] = None]
        /\ unread' = [unread EXCEPT ![o] = {}] /\ sighting' = [sighting EXCEPT ![o] = NoSight(o)]
        /\ found' = [found EXCEPT ![o] = Unseen(o)]
        /\ witness' = [witness EXCEPT ![o] = found[o]]
    BY <1>3 DEF Initial, Looked
  <2>2. QED
    BY <2>1, <1>t, RoundsSet
<1>4. CASE List(o)
  <2>1. /\ queue' = [queue EXCEPT ![o] = Candidates(o)]
        /\ UNCHANGED <<at, unread, sighting, found, witness>>
    BY <1>4 DEF List
  <2>2. Candidates(o) \in SUBSET Tree
    BY DEF Candidates
  <2>3. QED
    BY <2>1, <2>2, <1>t, RoundsSet
<1>5. CASE Inspect(o)
  <2>1. PICK c \in queue[o] :
          /\ queue' = [queue EXCEPT ![o] = @ \ {c}]
          /\ \/ at' = [at EXCEPT ![o] = c] /\ unread' = [unread EXCEPT ![o] = Endpoints(o)]
             \/ UNCHANGED <<at, unread>>
    BY <1>5 DEF Inspect
  <2>2. UNCHANGED <<sighting, found, witness>>
    BY <1>5 DEF Inspect
  <2>3. queue[o] \ {c} \in SUBSET Tree /\ c \in Tree \cup {None} /\ Endpoints(o) \in SUBSET Ports
        /\ queue' = [queue EXCEPT ![o] = queue[o] \ {c}]
    BY <2>1, <1>t, <1>e
  <2>4. /\ queue' \in [Owners -> SUBSET Tree] /\ at' \in [Owners -> Tree \cup {None}]
        /\ unread' \in [Owners -> SUBSET Ports]
    BY <2>1, <2>3 DEF RoundsType
  <2>5. \A q \in Owners \ {o} : RoundsKept(q)
    BY <2>1, <2>2 DEF RoundsKept, RoundsType
  <2>6. QED
    BY <2>2, <2>4, <2>5 DEF RoundsType, Sights, Endpoints
<1>6. CASE Sight(o) \/ Recheck(o)
  <2>1. /\ UNCHANGED <<queue, at, found, witness>>
        /\ \E p \in unread[o] : \E n \in {SocketAt(o, p), sighting[o][p], 0} :
             /\ sighting' = [sighting EXCEPT ![o] = [@ EXCEPT ![p] = n]]
             /\ unread' = [unread EXCEPT ![o] = @ \ {p}]
    BY <1>6 DEF Sight, Recheck
  <2>2. PICK p \in unread[o] : \E n \in {SocketAt(o, p), sighting[o][p], 0} :
          /\ sighting' = [sighting EXCEPT ![o] = [@ EXCEPT ![p] = n]]
          /\ unread' = [unread EXCEPT ![o] = @ \ {p}]
    BY <2>1
  <2>n. PICK n \in {SocketAt(o, p), sighting[o][p], 0} :
          /\ sighting' = [sighting EXCEPT ![o] = [@ EXCEPT ![p] = n]]
          /\ unread' = [unread EXCEPT ![o] = @ \ {p}]
    BY <2>2
  <2>3. [sighting[o] EXCEPT ![p] = n] \in [Endpoints(o) -> Nat]
    <3>1. p \in Endpoints(o) => n \in Nat
      BY <1>t, <1>e DEF SocketAt
    <3>2. QED
      BY <3>1, <1>t
  <2>4. DOMAIN sighting' = Owners /\ sighting'[o] \in [Endpoints(o) -> Nat]
    BY <2>n, <2>3 DEF RoundsType
  <2>5. unread' \in [Owners -> SUBSET Ports]
    BY <2>n, <1>t DEF RoundsType
  <2>6. \A q \in Owners \ {o} : RoundsKept(q)
    BY <2>1, <2>n DEF RoundsKept, RoundsType
  <2>7. \A q \in Owners : sighting'[q] \in [Endpoints(q) -> Nat]
    BY <2>4, <2>6 DEF RoundsKept, RoundsType
  <2>8. QED
    BY <2>1, <2>4, <2>5, <2>6, <2>7 DEF RoundsType, Sights, Endpoints
<1>7. CASE Dump(o)
  <2>1. /\ unread' = [unread EXCEPT ![o] = {p \in Endpoints(o) : sighting[o][p] # 0}]
        /\ UNCHANGED <<queue, at, sighting, found, witness>>
    BY <1>7 DEF Dump
  <2>2. {p \in Endpoints(o) : sighting[o][p] # 0} \in SUBSET Ports
    BY <1>e
  <2>3. QED
    BY <2>1, <2>2, <1>t, RoundsSet
<1>8. CASE Admit(o)
  <2>1. /\ found' = [found EXCEPT ![o] =
             [p \in Endpoints(o) |-> IF Lives(o, at[o].by) /\ Establishes(o, p)
                                     THEN WitnessAt(o, p) ELSE found[o][p]]]
        /\ at' = [at EXCEPT ![o] = None] /\ sighting' = [sighting EXCEPT ![o] = NoSight(o)]
        /\ UNCHANGED <<queue, unread, witness>> /\ pc[o] = "recheck"
    BY <1>8 DEF Admit
  <2>2. at[o] \in Tree
    BY <2>1 DEF Checking, InsidePCs
  <2>3. \A p \in Endpoints(o) : WitnessAt(o, p) \in Witnesses
    BY <2>2, <1>t DEF WitnessAt, Witnesses, Tree
  <2>4. [p \in Endpoints(o) |-> IF Lives(o, at[o].by) /\ Establishes(o, p)
                                 THEN WitnessAt(o, p) ELSE found[o][p]] \in Sights(o)
    BY <2>3, <1>t DEF Sights
  <2>5. QED
    <3> DEFINE F == [p \in Endpoints(o) |-> IF Lives(o, at[o].by) /\ Establishes(o, p)
                                           THEN WitnessAt(o, p) ELSE found[o][p]]
    <3>1. F \in Sights(o) /\ found' = [found EXCEPT ![o] = F]
      BY <2>1, <2>4
    <3>2. /\ at' = [at EXCEPT ![o] = None] /\ sighting' = [sighting EXCEPT ![o] = NoSight(o)]
          /\ UNCHANGED <<queue, unread, witness>>
      BY <2>1
    <3>3. QED
      <4> HIDE DEF F
      <4>1. QED
        BY <3>1, <3>2, <1>t, RoundsSet
<1>9. CASE LookFails(o) \/ Final(o) \/ Missing(o)
  BY <1>9, <1>2 DEF LookFails, Final, Missing
<1>10. UNCHANGED rounds \/ Look(o) \/ Forget(o)
  BY ScopeOfSteps
<1>11. QED
  BY <1>1, <1>2, <1>3, <1>4, <1>5, <1>6, <1>7, <1>8, <1>9, <1>10 DEF Look, Conclude

\* Evidence is only added, about the owner, and of a stray it is always both.
LEMMA Refreshed ==
  ASSUME TrackerType, NEW o \in Owners, Refresh(o)
  PROVE  /\ TrackerType'
         /\ \A q \in Owners \ {o} : q \in known' <=> q \in known
         /\ o \in known' <=> o \in known \/ (LeaderLives(o) /\ HelperLives(o))
         /\ o \in strayed' <=> o \in strayed \/ (LeaderLives(o) /\ Away(o) /\ o \in Strict)
<1>1. /\ known' = IF LeaderLives(o) /\ HelperLives(o) THEN known \cup {o} ELSE known
      /\ strayed' = IF LeaderLives(o) /\ Away(o) /\ o \in Strict
                    THEN strayed \cup {o} ELSE strayed
      /\ Away(o) => HelperLives(o)
  BY DEF Refresh, HelperLives
<1>2. QED
  BY <1>1 DEF TrackerType

\* The evidence about a tree, in any step of its owner.
LEMMA TrackerStep ==
  ASSUME TrackerType, NEW o \in Owners, Moving(o)
  PROVE  TrackerType' /\ \A q \in Owners \ {o} : q \in known' <=> q \in known
<1>1. CASE UNCHANGED tracker
  BY <1>1 DEF tracker, TrackerType
<1>2. CASE Refresh(o)
  BY <1>2, Refreshed
<1>3. QED
  BY <1>1, <1>2, ScopeOfSteps

\* What containment and capture set.
LEMMA EndingStep ==
  ASSUME EndingType, NEW o \in Owners, Moving(o)
  PROVE  /\ EndingType'
         /\ \A q \in Owners \ {o} : contained'[q] = contained[q] /\ captured'[q] = captured[q]
<1>1. CASE UNCHANGED ending
  BY <1>1 DEF ending, EndingType
<1>2. CASE Contain(o)
  <2>1. /\ \E b \in BOOLEAN : contained' = [contained EXCEPT ![o] = b]
        /\ captured' = captured
    BY <1>2 DEF Contain, EndingType
  <2>2. QED
    BY <2>1 DEF EndingType
<1>3. CASE Capture(o)
  <2>1. /\ \E b \in BOOLEAN : captured' = [captured EXCEPT ![o] = b]
        /\ contained' = contained
    BY <1>3 DEF Capture, Writers, LeaderLives, HelperLives, Away
  <2>2. QED
    BY <2>1 DEF EndingType
<1>4. QED
  BY <1>1, <1>2, <1>3, ScopeOfSteps

\* Whatever is gone does not listen any more.
LEMMA HolderAfterType ==
  ASSUME HostType, NEW o \in Owners, NEW gone
  PROVE  HolderAfter(o, gone) \in [Ports -> {Free, Other} \cup (Owners \X {"leader", "helper"})]
BY DEF HostType, HolderAfter

\* A signaled tree, and one that could not be signaled.
LEMMA KillStep ==
  ASSUME HostType, NEW o \in Owners, Kill(o) \/ Survives(o), UNCHANGED socket
  PROVE  /\ HostType'
         /\ \A q \in Owners \ {o} : leader'[q] = leader[q] /\ helper'[q] = helper[q]
<1>1. CASE Kill(o)
  <2>1. /\ leader' = [leader EXCEPT ![o] = "dead"]
        /\ \/ helper' = [helper EXCEPT ![o] = "dead"]
           \/ helper' = [helper EXCEPT ![o] = @]
    BY <1>1 DEF Kill
  <2>2. /\ leader' \in [Owners -> {"none", "gate", "released", "live", "dead"}]
        /\ helper' \in [Owners -> {"none", "in", "out", "mute", "dead"}]
        /\ \A q \in Owners \ {o} : leader'[q] = leader[q] /\ helper'[q] = helper[q]
    BY <2>1 DEF HostType
  <2>3. holder' \in [Ports -> {Free, Other} \cup (Owners \X {"leader", "helper"})]
    BY <1>1, HolderAfterType DEF Kill
  <2>4. QED
    BY <2>2, <2>3 DEF HostType
<1>2. CASE Survives(o)
  BY <1>2 DEF Survives, HostType
<1>3. QED
  BY <1>1, <1>2

\* The tree and its sockets, in any step of its owner.
LEMMA HostTypeStep ==
  ASSUME HostType, NEW o \in Owners, Moving(o)
  PROVE  /\ HostType'
         /\ \A q \in Owners \ {o} : leader'[q] = leader[q] /\ helper'[q] = helper[q]
<1>1. CASE UNCHANGED <<tree, sockets>>
  BY <1>1 DEF tree, sockets, HostType
<1>2. CASE SpawnGate(o) \/ RegisterFails(o) \/ Release(o)
  <2>1. /\ \E e \in {"dead", "gate", "released", leader[o]} :
               leader' = [leader EXCEPT ![o] = e]
        /\ UNCHANGED <<helper, sockets>>
    BY <1>2 DEF SpawnGate, RegisterFails, Release
  <2>2. leader[o] \in {"none", "gate", "released", "live", "dead"}
    BY DEF HostType
  <2>3. /\ leader' \in [Owners -> {"none", "gate", "released", "live", "dead"}]
        /\ \A q \in Owners \ {o} : leader'[q] = leader[q]
    BY <2>1, <2>2 DEF HostType
  <2>4. QED
    BY <2>1, <2>3 DEF sockets, HostType
<1>3. CASE Contain(o)
  BY <1>3, KillStep DEF Contain
<1>4. CASE Drop(o)
  <2>1. CASE LeaderLives(o)
    BY <1>4, <2>1, KillStep DEF Drop
  <2>2. CASE ~LeaderLives(o)
    BY <1>4, <2>2 DEF Drop, HostType
  <2>3. QED
    BY <2>1, <2>2
<1>5. QED
  BY <1>1, <1>2, <1>3, <1>4, ScopeOfSteps

\* The process row: its intent, its commits and its terminal.
LEMMA RowStep ==
  ASSUME RowType, NEW o \in Owners, Moving(o)
  PROVE  RowType' /\ \A q \in Owners \ {o} : row'[q] = row[q]
<1>1. CASE UNCHANGED row
  BY <1>1 DEF RowType
<1>2. CASE Register(o)
  BY <1>2 DEF Register, RowType, Rows, Statuses
<1>3. CASE WriteCheck(o)
  <2>1. row' = [row EXCEPT ![o].status = "ready"]
    BY <1>3 DEF WriteCheck
  <2>2. row[o] \in Rows
    BY DEF RowType
  <2>3. [row[o] EXCEPT !.status = "ready"] \in Rows
    BY <2>2 DEF Rows, Statuses
  <2>4. row' = [row EXCEPT ![o] = [row[o] EXCEPT !.status = "ready"]]
    BY <2>1
  <2>5. QED
    BY <2>3, <2>4 DEF RowType
<1>4. CASE Settle(o)
  <2>1. Terminal(o) \in Statuses
    BY DEF Terminal, Statuses
  <2>2. [status  |-> Terminal(o),
         owned   |-> IF contained[o] /\ captured[o] THEN "settled" ELSE "unresolved",
         capture |-> IF captured[o] THEN "complete" ELSE "incomplete"] \in Rows
    BY <2>1 DEF Rows
  <2>3. UNCHANGED row \/ \E r \in Rows : row' = [row EXCEPT ![o] = r]
    BY <1>4, <2>2 DEF Settle
  <2>4. QED
    BY <2>3 DEF RowType
<1>5. QED
  BY <1>1, <1>2, <1>3, <1>4, ScopeOfSteps

-----------------------------------------------------------------------------
\* One row of an owner's probes is written, and no other.
RowSet(o, k, r) ==
  /\ DOMAIN probeRow' = Owners
  /\ \A q \in Owners \ {o} : probeRow'[q] = probeRow[q]
  /\ probeRow'[o] \in [Probed(o) -> ProbeRows]
  /\ probeRow'[o][k] = r
  /\ \A j \in Probed(o) \ {k} : probeRow'[o][j] = probeRow[o][j]

\* That is what an assignment to one row does.
LEMMA SetRow ==
  ASSUME ProbesType, NEW o \in Owners, NEW k \in Probed(o), NEW r \in ProbeRows,
         probeRow' = [probeRow EXCEPT ![o] = [probeRow[o] EXCEPT ![k] = r]]
  PROVE  RowSet(o, k, r)
<1>1. probeRow[o] \in [Probed(o) -> ProbeRows] /\ DOMAIN probeRow = Owners
  BY DEF ProbesType
<1>2. /\ DOMAIN probeRow' = Owners /\ \A q \in Owners \ {o} : probeRow'[q] = probeRow[q]
      /\ probeRow'[o] = [probeRow[o] EXCEPT ![k] = r]
  BY <1>1
<1>3. QED
  BY <1>1, <1>2 DEF RowSet

\* What each step about a probe does to it.
LEMMA StartProbeEffect ==
  ASSUME ControlType, ProbesType, NEW o \in Owners, Checking(o), StartProbe(o)
  PROVE  /\ pc[o] = "probe" /\ pc'[o] = "admit"
         /\ UNCHANGED <<todo, lock, phase, attempt, result>>
         /\ key' = [key EXCEPT ![o] = Head(todo[o])] /\ Head(todo[o]) \in Probed(o)
         /\ probe' = [probe EXCEPT ![o] = "gate"]
         /\ RowSet(o, Head(todo[o]), [attempt |-> attempt[o], outcome |-> "none",
                                      status |-> "running", owned |-> "unresolved"])
<1>1. /\ pc[o] = "probe" /\ Goto(o, "admit") /\ UNCHANGED <<todo, lock, phase, attempt, result>>
      /\ key' = [key EXCEPT ![o] = Head(todo[o])] /\ probe' = [probe EXCEPT ![o] = "gate"]
  BY DEF StartProbe
<1>2. todo[o] # <<>> /\ Elements(todo[o]) \subseteq Probed(o)
  BY <1>1 DEF Checking
<1>3. Head(todo[o]) \in Probed(o)
  BY <1>2, TailLoses DEF ControlType
<1>4. [attempt |-> attempt[o], outcome |-> "none", status |-> "running",
       owned |-> "unresolved"] \in ProbeRows
  BY DEF ControlType, ProbeRows, Outcomes
<1>5. probeRow' = [probeRow EXCEPT ![o] = [probeRow[o] EXCEPT ![Head(todo[o])] =
        [attempt |-> attempt[o], outcome |-> "none", status |-> "running",
         owned |-> "unresolved"]]]
  BY DEF StartProbe
<1>6. RowSet(o, Head(todo[o]), [attempt |-> attempt[o], outcome |-> "none",
                                status |-> "running", owned |-> "unresolved"])
  BY <1>3, <1>4, <1>5, SetRow
<1>7. pc'[o] = "admit"
  BY <1>1 DEF Goto, ControlType
<1>8. QED
  BY <1>1, <1>3, <1>6, <1>7

\* A probe is let go, or ends in an error before it ran.
LEMMA AdmitProbeEffect ==
  ASSUME ControlType, ProbesType, NEW o \in Owners, AdmitProbe(o)
  PROVE  /\ pc[o] = "admit" /\ UNCHANGED <<todo, lock, phase, attempt, key, probeRow>>
         /\ \/ /\ pc'[o] = "watch" /\ UNCHANGED result
               /\ probe' = [probe EXCEPT ![o] = "running"]
            \/ /\ pc'[o] = "finish" /\ UNCHANGED probe
               /\ result' = [result EXCEPT ![o] = "error"]
BY DEF AdmitProbe, Goto, ControlType

\* What was observed is the result, and the outcome when it is committed.
LEMMA WatchProbeEffect ==
  ASSUME ControlType, ProbesType, NEW o \in Owners, Trying(o), WatchProbe(o)
  PROVE  /\ pc[o] = "watch" /\ pc'[o] = "finish"
         /\ UNCHANGED <<todo, lock, phase, attempt, key, probe>>
         /\ \E seen \in Outcomes \cup {"error"} :
              /\ result' = [result EXCEPT ![o] = seen]
              /\ \/ UNCHANGED probeRow
                 \/ /\ seen \in Outcomes
                    /\ RowSet(o, key[o], [probeRow[o][key[o]] EXCEPT !.outcome = seen])
<1>1. /\ pc[o] = "watch" /\ Goto(o, "finish")
      /\ UNCHANGED <<todo, lock, phase, attempt, key, probe>>
  BY DEF WatchProbe
<1>2. PICK seen \in Observed(o) :
        /\ result' = [result EXCEPT ![o] = seen]
        /\ \/ seen # "error" /\ probeRow' = [probeRow EXCEPT ![o][key[o]].outcome = seen]
           \/ UNCHANGED probeRow
  BY DEF WatchProbe
<1>3. seen \in Outcomes \cup {"error"}
  <2>1. probe[o] \in {"running", "passed", "failed"}
    BY <1>1 DEF Trying
  <2>2. QED
    BY <1>2, <2>1 DEF Observed, Outcomes
<1>4. key[o] \in Probed(o) /\ probeRow[o][key[o]] \in ProbeRows
  BY DEF ProbesType
<1>5. CASE seen # "error" /\ probeRow' = [probeRow EXCEPT ![o][key[o]].outcome = seen]
  <2>1. [probeRow[o][key[o]] EXCEPT !.outcome = seen] \in ProbeRows
    BY <1>3, <1>4, <1>5 DEF ProbeRows
  <2>2. probeRow' = [probeRow EXCEPT ![o] = [probeRow[o] EXCEPT ![key[o]] =
          [probeRow[o][key[o]] EXCEPT !.outcome = seen]]]
    BY <1>5
  <2>3. RowSet(o, key[o], [probeRow[o][key[o]] EXCEPT !.outcome = seen])
    BY <1>4, <2>1, <2>2, SetRow
  <2>4. QED
    BY <1>1, <1>2, <1>3, <1>5, <2>3 DEF Goto, ControlType
<1>6. CASE UNCHANGED probeRow
  BY <1>1, <1>2, <1>3, <1>6 DEF Goto, ControlType
<1>7. QED
  BY <1>2, <1>5, <1>6

\* The probe is gone before its row is settled.
LEMMA FinishProbeEffect ==
  ASSUME ControlType, ProbesType, NEW o \in Owners, FinishProbe(o)
  PROVE  /\ pc[o] = "finish" /\ UNCHANGED <<todo, lock, phase, attempt, key, result, probeRow>>
         /\ \/ pc'[o] = "record" /\ probe' = [probe EXCEPT ![o] = "none"]
            \/ /\ pc'[o] = "credit"
               /\ \E left \in {probe[o], "none"} : probe' = [probe EXCEPT ![o] = left]
BY DEF FinishProbe, Goto, ControlType

\* The terminal row has the verdict of what was observed.
LEMMA RecordProbeEffect ==
  ASSUME ControlType, ProbesType, NEW o \in Owners, RecordProbe(o)
  PROVE  /\ pc[o] = "record" /\ pc'[o] = "credit"
         /\ UNCHANGED <<todo, lock, phase, attempt, key, probe, result>>
         /\ \/ UNCHANGED probeRow
            \/ RowSet(o, key[o], [probeRow[o][key[o]] EXCEPT !.status = Verdict(o),
                                                             !.owned = "settled"])
<1>1. /\ pc[o] = "record" /\ Goto(o, "credit")
      /\ UNCHANGED <<todo, lock, phase, attempt, key, probe, result>>
      /\ \/ UNCHANGED probeRow
         \/ probeRow' = [probeRow EXCEPT ![o][key[o]].status = Verdict(o),
                                         ![o][key[o]].owned = "settled"]
  BY DEF RecordProbe
<1>2. key[o] \in Probed(o) /\ probeRow[o][key[o]] \in ProbeRows /\ DOMAIN probeRow = Owners
      /\ probeRow[o] \in [Probed(o) -> ProbeRows] /\ result[o] \in Outcomes \cup {"error"}
  BY DEF ProbesType
<1>3. CASE probeRow' = [probeRow EXCEPT ![o][key[o]].status = Verdict(o),
                                        ![o][key[o]].owned = "settled"]
  <2>1. Verdict(o) \in Outcomes
    BY <1>2 DEF Verdict, Outcomes
  <2>2. [probeRow[o][key[o]] EXCEPT !.status = Verdict(o), !.owned = "settled"] \in ProbeRows
    BY <1>2, <2>1 DEF ProbeRows
  <2>3. probeRow' = [probeRow EXCEPT ![o] = [probeRow[o] EXCEPT ![key[o]] =
          [probeRow[o][key[o]] EXCEPT !.status = Verdict(o), !.owned = "settled"]]]
    BY <1>2, <1>3
  <2>4. RowSet(o, key[o], [probeRow[o][key[o]] EXCEPT !.status = Verdict(o),
                                                      !.owned = "settled"])
    BY <1>2, <2>2, <2>3, SetRow
  <2>5. QED
    BY <1>1, <2>4 DEF Goto, ControlType
<1>4. QED
  BY <1>1, <1>3 DEF Goto, ControlType

\* Only a settled success goes on to the next key or to the end of the round.
LEMMA CreditProbeEffect ==
  ASSUME ControlType, ProbesType, NEW o \in Owners, CreditProbe(o)
  PROVE  /\ pc[o] = "credit" /\ UNCHANGED <<lock, phase, key, probe, probeRow>>
         /\ result' = [result EXCEPT ![o] = "none"]
         /\ \/ /\ probeRow[o][key[o]].owned = "settled" /\ result[o] = "passed"
               /\ probeRow[o][key[o]].outcome = "passed"
               /\ todo'[o] = Tail(todo[o]) /\ UNCHANGED attempt
               /\ pc'[o] = (IF Tail(todo[o]) # <<>> THEN "probe"
                           ELSE IF Endpoints(o) = {} THEN "commit" ELSE "list")
            \/ pc'[o] = "wait" /\ probeRow[o][key[o]].owned = "settled"
            \/ pc'[o] = "contain"
<1>1. /\ pc[o] = "credit" /\ UNCHANGED <<key, probe, probeRow>>
      /\ result' = [result EXCEPT ![o] = "none"]
  BY DEF CreditProbe
<1>2. CASE Retry(o) \/ Fail(o)
  <2>1. Fail(o) \/ (Retry(o) /\ probeRow[o][key[o]].owned = "settled")
    BY <1>2 DEF CreditProbe, Depart
  <2>2. QED
    BY <1>1, <2>1, RetryStep, FailStep
<1>3. CASE ~(Retry(o) \/ Fail(o))
  <2>1. /\ probeRow[o][key[o]].owned = "settled" /\ result[o] = "passed"
        /\ probeRow[o][key[o]].outcome = result[o]
        /\ todo' = [todo EXCEPT ![o] = Tail(@)]
        /\ Goto(o, IF Tail(todo[o]) # <<>> THEN "probe"
                   ELSE IF Endpoints(o) = {} THEN "commit" ELSE "list")
        /\ UNCHANGED <<lock, phase, attempt>>
    BY <1>3 DEF CreditProbe, Depart
  <2>2. QED
    BY <1>1, <2>1 DEF Goto, ControlType
<1>4. QED
  BY <1>2, <1>3

\* The probes stay well-typed, and those of other owners as they are.
LEMMA ProbesStep ==
  ASSUME ControlType, ProbesType, NEW o \in Owners, Checking(o), Trying(o),
         Moving(o)
  PROVE  /\ ProbesType'
         /\ \A q \in Owners \ {o} : /\ probe'[q] = probe[q] /\ key'[q] = key[q]
                                    /\ result'[q] = result[q] /\ probeRow'[q] = probeRow[q]
<1>1. CASE UNCHANGED probes
  BY <1>1 DEF probes, ProbesType, Probed, Keys
<1>2. SUFFICES ASSUME ProbeStep(o)
               PROVE  /\ \E e : /\ e \in {probe[o], "none", "gate", "running"}
                                /\ probe' = [probe EXCEPT ![o] = e] \/ probe' = probe
                      /\ \/ UNCHANGED key
                         \/ \E e \in Probed(o) : key' = [key EXCEPT ![o] = e]
                      /\ \/ UNCHANGED result
                         \/ \E e \in Outcomes \cup {"error"} : result' = [result EXCEPT ![o] = e]
                      /\ UNCHANGED probeRow \/ \E k \in Probed(o), r \in ProbeRows : RowSet(o, k, r)
  <2>1. CASE ProbeStep(o)
    <3>1. /\ probe' \in [Owners -> {"none", "gate", "running", "passed", "failed"}]
          /\ \A q \in Owners \ {o} : probe'[q] = probe[q]
      BY <1>2, <2>1 DEF ProbesType
    <3>2. /\ DOMAIN key' = Owners /\ \A q \in Owners : key'[q] \in Probed(q)
          /\ \A q \in Owners \ {o} : key'[q] = key[q]
      BY <1>2, <2>1 DEF ProbesType
    <3>3. /\ result' \in [Owners -> Outcomes \cup {"error"}]
          /\ \A q \in Owners \ {o} : result'[q] = result[q]
      BY <1>2, <2>1 DEF ProbesType
    <3>4. /\ DOMAIN probeRow' = Owners
          /\ \A q \in Owners : probeRow'[q] \in [Probed(q) -> ProbeRows]
          /\ \A q \in Owners \ {o} : probeRow'[q] = probeRow[q]
      BY <1>2, <2>1 DEF ProbesType, RowSet
    <3>5. QED
      BY <3>1, <3>2, <3>3, <3>4 DEF ProbesType, Probed, Keys
  <2>2. QED
    BY <1>1, <2>1, ScopeOfSteps
<1>3. /\ key[o] \in Probed(o) /\ probeRow[o][key[o]] \in ProbeRows
      /\ \A k \in Probed(o) : probeRow'[o] \in [Probed(o) -> ProbeRows]
           => probeRow'[o][k] \in ProbeRows
  BY DEF ProbesType
<1>4. \A k \in Probed(o) : \A r : RowSet(o, k, r) =>
        \E j \in Probed(o), s \in ProbeRows : RowSet(o, j, s)
  BY <1>3 DEF RowSet
<1>5. {"none", "error"} \subseteq Outcomes \cup {"error"}
  BY DEF Outcomes
<1>6. CASE StartProbe(o)
  BY <1>6, <1>4, StartProbeEffect
<1>7. CASE ProbeFails(o)
  BY <1>7 DEF ProbeFails, probes
<1>8. CASE AdmitProbe(o)
  BY <1>8, <1>5, AdmitProbeEffect
<1>9. CASE WatchProbe(o)
  BY <1>9, <1>3, <1>4, WatchProbeEffect
<1>10. CASE FinishProbe(o)
  BY <1>10, FinishProbeEffect
<1>11. CASE RecordProbe(o)
  BY <1>11, <1>3, <1>4, RecordProbeEffect
<1>12. CASE CreditProbe(o)
  BY <1>12, <1>5, CreditProbeEffect
<1>13. QED
  BY <1>2, <1>6, <1>7, <1>8, <1>9, <1>10, <1>11, <1>12 DEF ProbeStep

-----------------------------------------------------------------------------
\* Type correctness is what its parts say.
LEMMA TypeParts ==
  /\ StateType <=> /\ ControlType /\ RoundsType /\ EndingType /\ TrackerType /\ HostType
                   /\ RowType /\ ProbesType /\ canceled \subseteq Owners
  /\ StateType' <=> /\ ControlType' /\ RoundsType' /\ EndingType' /\ TrackerType' /\ HostType'
                    /\ RowType' /\ ProbesType' /\ canceled' \subseteq Owners
BY DEF StateType

\* A step of an owner keeps the types, and the state of the others.
LEMMA OwnerTypes ==
  ASSUME StateType, NEW o \in Owners, Checking(o), Trying(o), Moving(o)
  PROVE  StateType' /\ \A q \in Owners \ {o} : ControlKept(q) /\ OthersKept(q)
<1>1. /\ ControlType /\ RoundsType /\ EndingType /\ TrackerType /\ HostType
      /\ RowType /\ ProbesType /\ canceled \subseteq Owners
  BY TypeParts
<1>2. ControlType' /\ \A q \in Owners \ {o} : ControlKept(q)
  BY <1>1, OwnerControl
<1>3. RoundsType' /\ canceled' = canceled /\ \A q \in Owners \ {o} : RoundsKept(q)
  BY <1>1, RoundsStep, ScopeOfSteps
<1>4. /\ EndingType'
      /\ \A q \in Owners \ {o} : contained'[q] = contained[q] /\ captured'[q] = captured[q]
  BY <1>1, EndingStep
<1>5. TrackerType' /\ \A q \in Owners \ {o} : q \in known' <=> q \in known
  BY <1>1, TrackerStep
<1>6. /\ HostType'
      /\ \A q \in Owners \ {o} : leader'[q] = leader[q] /\ helper'[q] = helper[q]
  BY <1>1, HostTypeStep
<1>7. RowType' /\ \A q \in Owners \ {o} : row'[q] = row[q]
  BY <1>1, RowStep
<1>8. /\ ProbesType'
      /\ \A q \in Owners \ {o} : /\ probe'[q] = probe[q] /\ key'[q] = key[q]
                                 /\ result'[q] = result[q] /\ probeRow'[q] = probeRow[q]
  BY <1>1, ProbesStep
<1>9. StateType'
  BY <1>1, <1>2, <1>3, <1>4, <1>5, <1>6, <1>7, <1>8, TypeParts
<1>10. \A q \in Owners \ {o} : OthersKept(q)
  BY <1>3, <1>4, <1>5, <1>6, <1>7, <1>8, Zenon DEF OthersKept
<1>11. QED
  BY <1>2, <1>9, <1>10

\* What is said of an owner holds while its state is kept.
LEMMA OthersInv ==
  ASSUME StateType, NEW q \in Owners, OwnerInv(q), ControlKept(q), OthersKept(q)
  PROVE  OwnerInv(q)'
<1>1. /\ pc'[q] = pc[q] /\ todo'[q] = todo[q] /\ phase'[q] = phase[q]
      /\ attempt'[q] = attempt[q] /\ \A p \in Ports : lock[p] = q => lock'[p] = q
  BY DEF ControlKept
<1>2. /\ contained'[q] = contained[q] /\ captured'[q] = captured[q]
      /\ leader'[q] = leader[q] /\ helper'[q] = helper[q]
      /\ q \in known' <=> q \in known
      /\ row'[q] = row[q] /\ probe'[q] = probe[q] /\ key'[q] = key[q]
      /\ result'[q] = result[q] /\ probeRow'[q] = probeRow[q] /\ at'[q] = at[q]
  BY DEF OthersKept, RoundsKept
<1>3. Launching(q)'
  BY <1>1, <1>2 DEF OwnerInv, Launching
<1>4. Ending(q)'
  BY <1>1, <1>2 DEF OwnerInv, Ending, HelperLives, Away
<1>5. Guarded(q)'
  <2>1. Endpoints(q) \subseteq Ports /\ Endpoints(q)' = Endpoints(q)
    BY KeysType DEF Endpoints
  <2>2. Elements(todo[q])' = Elements(todo[q])
    BY <1>1 DEF Elements
  <2>3. QED
    BY <1>1, <2>1, <2>2 DEF OwnerInv, Guarded
<1>6. Checking(q)'
  <2>1. \A k : Fresh(q, k)' <=> Fresh(q, k)
    BY <1>1, <1>2 DEF Fresh, Credited
  <2>2. Probed(q)' = Probed(q) /\ Elements(todo[q])' = Elements(todo[q])
    BY <1>1 DEF Probed, Keys, Elements
  <2>3. Checking(q) /\ at'[q] = at[q]
    BY <1>2 DEF OwnerInv
  <2>4. pc'[q] \in RunPCs \cup {"probe"} =>
          /\ todo'[q] # <<>> /\ Elements(todo[q])' \subseteq Probed(q)'
          /\ \A k \in Probed(q)' : k \in Elements(todo[q])' \/ Fresh(q, k)'
    BY <1>1, <2>1, <2>2, <2>3 DEF Checking
  <2>5. QED
    BY <1>1, <2>3, <2>4 DEF Checking
<1>7. Trying(q)'
  BY <1>1, <1>2 DEF OwnerInv, Trying, Verdict
<1>8. Owing(q)'
  BY <1>2 DEF OwnerInv, Owing, HelperLives, Away
<1>9. Settling(q)'
  <2>1. Probed(q)' = Probed(q) /\ Settling(q)
    BY DEF Probed, Keys, OwnerInv
  <2>2. QED
    BY <1>2, <2>1 DEF Settling
<1>10. QED
  BY <1>3, <1>4, <1>5, <1>6, <1>7, <1>8, <1>9 DEF OwnerInv

-----------------------------------------------------------------------------
\* Where a step of an owner takes it.
LEMMA Moves ==
  ASSUME StateType, NEW o \in Owners, Checking(o), Moving(o)
  PROVE  /\ Prelaunch(o) \/ PrepareEnds(o) =>
              /\ pc[o] \in BarePCs \ {"absent"}
              /\ pc'[o] \in (BarePCs \ {"absent"}) \cup {"refused"}
         /\ SpawnGate(o) => pc[o] = "spawn" /\ pc'[o] = "register"
         /\ Register(o) => pc[o] = "register" /\ pc'[o] = "release"
         /\ RegisterFails(o) => pc[o] = "register" /\ pc'[o] = "refused"
         /\ Settle(o) => pc[o] = "settle" /\ pc'[o] = "drop"
         /\ Drop(o) => pc[o] = "drop" /\ pc'[o] = "ended"
         /\ Crash(o) => pc[o] \notin EndPCs /\ pc'[o] = "crashed"
         /\ Contain(o) => pc[o] = "contain" /\ pc'[o] = "capture"
         /\ Capture(o) => pc[o] = "capture" /\ pc'[o] = "settle"
         /\ Unguard(o) => pc[o] = "unguard" /\ pc'[o] = "round"
         /\ WriteCheck(o) => pc[o] = "write" /\ pc'[o] \in {"unguard", "up"}
         /\ Release(o) \/ Launched(o) \/ LaunchFails(o) \/ Grace(o) =>
              /\ pc[o] \in {"release", "launch", "grace"}
              /\ pc'[o] \in {"launch", "grace", "round", "contain"}
         /\ Choose(o) \/ Stop(o) => /\ pc[o] \in {"up", "stop"}
                                    /\ pc'[o] \in {"stop", "contain"}
<1>1. ControlType /\ pc \in [Owners -> PCs]
  BY TypeParts DEF ControlType
<1>2. Prelaunch(o) \/ PrepareEnds(o) =>
         /\ pc[o] \in BarePCs \ {"absent"}
         /\ pc'[o] \in (BarePCs \ {"absent"}) \cup {"refused"}
  <2>1. TakeLock(o) \/ Preflight(o) \/ Intend(o) =>
          /\ pc[o] \in BarePCs \ {"absent"} /\ pc'[o] \in BarePCs \ {"absent"}
    BY <1>1 DEF TakeLock, Preflight, Intend, Goto, BarePCs
  <2>2. StartFails(o) \/ PrepareCut(o) \/ PrepareEnds(o) =>
          /\ pc[o] \in BarePCs \ {"absent"} /\ pc'[o] \in {"spawn", "refused"}
    BY <1>1 DEF StartFails, PrepareCut, PrepareEnds, Refuse, Goto, BarePCs
  <2>3. QED
    BY <2>1, <2>2 DEF Prelaunch, BarePCs
<1>3. /\ SpawnGate(o) => pc[o] = "spawn" /\ pc'[o] = "register"
      /\ Register(o) => pc[o] = "register" /\ pc'[o] = "release"
      /\ RegisterFails(o) => pc[o] = "register" /\ pc'[o] = "refused"
  BY <1>1 DEF SpawnGate, Register, RegisterFails, Refuse, Goto
<1>4. /\ Settle(o) => pc[o] = "settle" /\ pc'[o] = "drop"
      /\ Drop(o) => pc[o] = "drop" /\ pc'[o] = "ended"
      /\ Crash(o) => pc[o] \notin EndPCs /\ pc'[o] = "crashed"
      /\ Contain(o) => pc[o] = "contain" /\ pc'[o] = "capture"
      /\ Capture(o) => pc[o] = "capture" /\ pc'[o] = "settle"
      /\ Unguard(o) => pc[o] = "unguard" /\ pc'[o] = "round"
  BY <1>1 DEF Settle, Drop, Crash, Contain, Capture, Unguard, Goto
<1>5. WriteCheck(o) => pc[o] = "write" /\ pc'[o] \in {"unguard", "up"}
  BY <1>1 DEF WriteCheck, Goto
<1>6. Choose(o) \/ Stop(o) => pc[o] \in {"up", "stop"} /\ pc'[o] \in {"stop", "contain"}
  BY <1>1 DEF Choose, Stop, Goto
<1>7. Release(o) \/ Launched(o) => /\ pc[o] \in {"release", "launch"}
                                   /\ pc'[o] \in {"launch", "grace"}
  BY <1>1 DEF Release, Launched, Goto
<1>8. LaunchFails(o) => pc[o] \in {"release", "launch"} /\ pc'[o] = "contain"
  BY <1>1 DEF LaunchFails, Fail, Goto
<1>9. Grace(o) => pc[o] = "grace" /\ pc'[o] \in {"grace", "round", "contain"}
  BY <1>1 DEF Grace, Depart, Fail, Goto, driver
<1>10. QED
  BY <1>2, <1>3, <1>4, <1>5, <1>6, <1>7, <1>8, <1>9

\* Steps of a probe and of a round start from a row that is owed and keep it.
LEMMA CheckingMoves ==
  ASSUME StateType, NEW o \in Owners, Checking(o), CheckStep(o) \/ ProbeStep(o)
  PROVE  /\ pc[o] \in CheckPCs /\ pc'[o] \in CheckPCs \cup {"contain"}
         /\ lock' = lock /\ phase' = phase /\ UNCHANGED <<row, ending, tree, sockets, canceled>>
<1>1. ControlType
  BY TypeParts
<1>2. CASE CheckStep(o)
  BY <1>1, <1>2, CheckControl DEF CheckPCs, ProbePCs, CheckStep
<1>3. CASE ProbeStep(o)
  BY <1>1, <1>3, ProbeControl DEF CheckPCs, LookPCs, ProbePCs, RunPCs, ProbeStep
<1>4. QED
  BY <1>2, <1>3

\* The child and its row, in a step of their owner.
LEMMA LaunchingStep ==
  ASSUME StateType, NEW o \in Owners, OwnerInv(o), Moving(o)
  PROVE  Launching(o)'
<1>t. /\ ControlType /\ HostType /\ RowType /\ EndingType /\ Launching(o) /\ Checking(o)
      /\ leader \in [Owners -> {"none", "gate", "released", "live", "dead"}]
      /\ row \in [Owners -> Rows] /\ contained \in [Owners -> BOOLEAN]
      /\ captured \in [Owners -> BOOLEAN]
  BY TypeParts DEF OwnerInv, HostType, RowType, EndingType
<1>p. /\ BarePCs \cap (OwingPCs \cup EndPCs) = {"absent"}
      /\ {"register", "drop"} \cap (BarePCs \cup OwingPCs \cup EndPCs) = {}
      /\ OwingPCs \cap (BarePCs \cup EndPCs) = {} /\ CheckPCs \subseteq OwingPCs
      /\ {"refused", "ended", "crashed"} \subseteq EndPCs
      /\ {"release", "launch", "grace", "round", "write", "unguard", "up", "stop", "contain",
          "capture", "settle"} \subseteq OwingPCs
      /\ {"refused", "ended", "crashed"} \cap BarePCs = {}
  BY DEF BarePCs, OwingPCs, EndPCs, CheckPCs, LookPCs, ProbePCs
<1>1. CASE Prelaunch(o) \/ PrepareEnds(o)
  <2>1. UNCHANGED <<leader, row, contained, captured>>
    BY <1>1 DEF Prelaunch, PrepareEnds, tree, ending
  <2>2. QED
    BY <1>1, <2>1, <1>t, <1>p, Moves DEF Launching
<1>2. CASE SpawnGate(o)
  <2>1. UNCHANGED <<row, contained, captured>>
    BY <1>2 DEF SpawnGate, ending
  <2>2. pc[o] = "spawn" /\ pc'[o] = "register" /\ "spawn" \in BarePCs
    BY <1>2, <1>t, Moves DEF BarePCs
  <2>3. QED
    BY <2>1, <2>2, <1>t, <1>p DEF Launching
<1>3. CASE Register(o)
  <2>1. row'[o].owned = "unresolved"
    BY <1>3, <1>t DEF Register
  <2>2. QED
    BY <1>3, <2>1, <1>t, <1>p, Moves DEF Launching
<1>4. CASE RegisterFails(o)
  <2>1. UNCHANGED <<row, contained, captured>>
    BY <1>4 DEF RegisterFails, ending
  <2>2. QED
    BY <1>4, <2>1, <1>t, <1>p, Moves DEF Launching
<1>5. ASSUME pc[o] \in OwingPCs, pc'[o] \in OwingPCs, row'[o].owned = row[o].owned
      PROVE  Launching(o)'
  BY <1>5, <1>t, <1>p DEF Launching
<1>6. CASE CheckStep(o) \/ ProbeStep(o)
  <2>1. row' = row /\ pc[o] \in OwingPCs /\ pc'[o] \in OwingPCs
    BY <1>6, <1>t, <1>p, CheckingMoves
  <2>2. QED
    BY <2>1, <1>5
<1>7. CASE WriteCheck(o)
  <2>1. row'[o].owned = row[o].owned
    BY <1>7, <1>t DEF WriteCheck, Rows
  <2>2. QED
    BY <1>7, <2>1, <1>5, <1>t, <1>p, Moves
<1>8. CASE \/ Release(o) \/ Launched(o) \/ LaunchFails(o) \/ Grace(o) \/ Unguard(o)
           \/ Choose(o) \/ Stop(o) \/ Contain(o) \/ Capture(o)
  <2>1. row' = row
    BY <1>8 DEF Release, Launched, LaunchFails, Grace, Unguard, Choose, Stop, Contain, Capture
  <2>2. pc[o] \in OwingPCs /\ pc'[o] \in OwingPCs
    BY <1>8, <1>t, <1>p, Moves
  <2>3. QED
    BY <2>1, <2>2, <1>5
<1>9. CASE Settle(o)
  <2>1. /\ UNCHANGED <<contained, captured>>
        /\ \/ UNCHANGED row
           \/ row'[o].owned = IF contained[o] /\ captured[o] THEN "settled" ELSE "unresolved"
    BY <1>9, <1>t DEF Settle, ending
  <2>2. pc[o] = "settle" /\ pc'[o] = "drop" /\ row[o].owned = "unresolved"
    BY <1>9, <1>t, <1>p, Moves DEF Launching
  <2>3. QED
    BY <2>1, <2>2, <1>p DEF Launching
<1>10. CASE Drop(o) \/ Crash(o)
  <2>1. UNCHANGED <<row, contained, captured>>
    BY <1>10 DEF Drop, Crash, ending
  <2>2. pc'[o] \in {"ended", "crashed"}
    BY <1>10, <1>t, Moves
  <2>3. QED
    BY <2>1, <2>2, <1>t, <1>p DEF Launching
<1>11. QED
  BY <1>1, <1>2, <1>3, <1>4, <1>6, <1>7, <1>8, <1>9, <1>10, Zenon DEF Moving, OwnerStep

\* What was proved about the tree, in a step of its owner.
LEMMA EndingInvStep ==
  ASSUME StateType, NEW o \in Owners, OwnerInv(o), Moving(o)
  PROVE  Ending(o)'
<1>t. /\ TrackerType /\ Ending(o) /\ Checking(o)
      /\ leader \in [Owners -> {"none", "gate", "released", "live", "dead"}]
      /\ helper \in [Owners -> {"none", "in", "out", "mute", "dead"}]
      /\ contained \in [Owners -> BOOLEAN] /\ captured \in [Owners -> BOOLEAN]
  BY TypeParts DEF OwnerInv, HostType, EndingType
<1>1. CASE Contain(o)
  <2>1. pc[o] = "contain" /\ pc'[o] = "capture" /\ ~contained[o] /\ ~captured[o]
    BY <1>1, <1>t, Moves DEF Ending, EndPCs
  <2>2. captured' = captured
    BY <1>1 DEF Contain
  <2>3. CASE Kill(o)
    <3>1. Refresh(o) /\ leader' = [leader EXCEPT ![o] = "dead"]
          /\ helper' = [helper EXCEPT ![o] =
               IF HelperLives(o) /\ "helper" \in Reached(o) THEN "dead" ELSE @]
      BY <2>3, Zenon DEF Kill
    <3>2. leader'[o] = "dead"
      BY <3>1, <1>t
    <3>3. CASE HelperLives(o) /\ "helper" \in Reached(o)
      <4>1. helper'[o] = "dead"
        BY <3>1, <3>3, <1>t
      <4>2. QED
        BY <2>1, <2>2, <3>2, <4>1 DEF Ending, HelperLives, Away
    <3>4. CASE ~(HelperLives(o) /\ "helper" \in Reached(o))
      <4>1. helper'[o] = helper[o]
        BY <3>1, <3>4, <1>t
      <4>2. HelperLives(o) => Away(o) /\ o \notin known'
        BY <3>4 DEF Reached, HelperLives
      <4>3. QED
        BY <2>1, <2>2, <3>2, <4>1, <4>2 DEF Ending, HelperLives, Away
    <3>5. QED
      BY <3>3, <3>4
  <2>4. CASE Survives(o) /\ UNCHANGED contained
    BY <2>1, <2>2, <2>4 DEF Ending
  <2>5. QED
    BY <1>1, <2>3, <2>4 DEF Contain
<1>2. CASE Capture(o)
  <2>1. pc[o] = "capture" /\ pc'[o] = "settle"
    BY <1>2, <1>t, Moves
  <2>2. UNCHANGED <<contained, leader, helper, known>>
    BY <1>2 DEF Capture, tracker, tree
  <2>3. captured'[o] => ~Writers(o)
    BY <1>2, <1>t DEF Capture
  <2>4. leader'[o] \in {"none", "gate", "released", "live", "dead"}
        /\ helper'[o] \in {"none", "in", "out", "mute", "dead"}
    BY <2>2, <1>t
  <2>5. QED
    BY <2>1, <2>2, <2>3, <2>4, <1>t DEF Ending, Writers, LeaderLives, HelperLives, Away
<1>3. ASSUME UNCHANGED <<contained, captured, leader, helper, known>>,
             pc[o] \in {"settle", "drop"} \cup EndPCs =>
               pc'[o] \in {"settle", "drop"} \cup EndPCs,
             pc[o] # "capture" \/ pc'[o] \in EndPCs
      PROVE  Ending(o)'
  BY <1>3, <1>t DEF Ending, HelperLives, Away
<1>4. CASE Settle(o)
  <2>1. UNCHANGED <<contained, captured, leader, helper, known>>
    BY <1>4 DEF Settle, ending, tracker, tree
  <2>2. QED
    BY <1>4, <2>1, <1>3, <1>t, Moves
<1>5. CASE Crash(o)
  <2>1. UNCHANGED <<contained, captured, leader, helper, known>>
    BY <1>5 DEF Crash, ending, tracker, tree
  <2>2. pc'[o] \in EndPCs
    BY <1>5, <1>t, Moves DEF EndPCs
  <2>3. QED
    BY <2>1, <2>2, <1>3
<1>6. CASE Drop(o)
  <2>1. UNCHANGED <<contained, captured>> /\ pc[o] = "drop" /\ pc'[o] \in EndPCs
    BY <1>6, <1>t, Moves DEF Drop, ending, EndPCs
  <2>2. CASE LeaderLives(o)
    <3>1. leader[o] \in {"gate", "released", "live"}
      BY <2>2 DEF LeaderLives
    <3>2. ~contained[o] /\ ~captured[o]
      BY <3>1, <1>t DEF Ending
    <3>3. QED
      BY <2>1, <3>2 DEF Ending
  <2>3. CASE ~LeaderLives(o)
    <3>1. UNCHANGED <<leader, helper, known>>
      BY <1>6, <2>3 DEF Drop, tracker
    <3>2. QED
      BY <2>1, <3>1, <1>3
  <2>4. QED
    BY <2>2, <2>3
<1>7. CASE ~(Contain(o) \/ Capture(o) \/ Settle(o) \/ Crash(o) \/ Drop(o))
  <2>1. pc[o] \notin {"capture", "settle", "drop"} \cup EndPCs
    <3>1. CASE CheckStep(o) \/ ProbeStep(o)
      BY <3>1, <1>t, CheckingMoves DEF CheckPCs, LookPCs, ProbePCs, EndPCs
    <3>2. CASE ~(CheckStep(o) \/ ProbeStep(o))
      <4>1. \/ Prelaunch(o) \/ PrepareEnds(o) \/ SpawnGate(o) \/ Register(o) \/ RegisterFails(o)
            \/ Release(o) \/ Launched(o) \/ LaunchFails(o) \/ Grace(o)
            \/ WriteCheck(o) \/ Unguard(o) \/ Choose(o) \/ Stop(o)
        BY <1>7, <3>2, Zenon DEF Moving, OwnerStep
      <4>2. pc[o] \in (BarePCs \ {"absent"}) \cup {"spawn", "register", "unguard", "write",
                                                   "release", "launch", "grace", "up", "stop"}
        BY <4>1, <1>t, Moves
      <4>3. QED
        BY <4>2 DEF BarePCs, EndPCs
    <3>3. QED
      BY <3>1, <3>2
  <2>2. UNCHANGED <<contained, captured>>
    BY <1>7, ScopeOfSteps DEF ending
  <2>3. QED
    BY <2>1, <2>2, <1>t DEF Ending
<1>8. QED
  BY <1>1, <1>2, <1>4, <1>5, <1>6, <1>7

\* The startup locks, in a step of their owner.
LEMMA GuardedStep ==
  ASSUME StateType, NEW o \in Owners, OwnerInv(o), Moving(o)
  PROVE  Guarded(o)'
<1>t. /\ ControlType /\ Guarded(o) /\ Checking(o) /\ Endpoints(o) \subseteq Ports
      /\ Endpoints(o)' = Endpoints(o) /\ Endpoints(o) = Elements(Wants[o])
      /\ pc \in [Owners -> PCs] /\ todo \in [Owners -> Seq(Ports \cup {None})]
      /\ lock \in [Ports -> Owners \cup {None, Other}] /\ None \notin Owners
      /\ phase \in [Owners -> {"ready", "health"}]
  BY TypeParts, KeysType, ServiceAssumption DEF OwnerInv, ControlType, Endpoints
<1>1. CASE pc'[o] \in EndPCs
  BY <1>1 DEF Guarded, EndPCs
<1>2. ASSUME pc[o] \notin {"lock"} \cup EndPCs, pc'[o] # "lock", lock' = lock, phase' = phase
      PROVE  Guarded(o)'
  BY <1>2, <1>t DEF Guarded
<1>3. CASE TakeLock(o) /\ todo[o] = <<>>
  <2>1. pc[o] = "lock" /\ lock' = lock /\ pc'[o] = "bind"
    BY <1>3, <1>t DEF TakeLock, Goto
  <2>2. Elements(todo[o]) = {}
    BY <1>3 DEF Elements
  <2>3. QED
    BY <2>1, <2>2, <1>t DEF Guarded
<1>4. CASE TakeLock(o) /\ todo[o] # <<>>
  <2>1. /\ pc[o] = "lock" /\ lock[Head(todo[o])] = None
        /\ lock' = [lock EXCEPT ![Head(todo[o])] = o]
        /\ todo' = [todo EXCEPT ![o] = Tail(@)] /\ pc' = pc
    BY <1>4 DEF TakeLock
  <2>2. /\ todo'[o] = Tail(todo[o])
        /\ Elements(todo[o]) = {Head(todo[o])} \cup Elements(Tail(todo[o]))
    BY <2>1, <1>4, <1>t, TailLoses
  <2>3. \A p \in Endpoints(o) : lock'[p] = o \/ (lock'[p] = lock[p] /\ p # Head(todo[o]))
    BY <2>1, <1>t
  <2>4. \A p \in Endpoints(o) : lock'[p] = o \/ p \in Elements(todo'[o])
    BY <2>1, <2>2, <2>3, <1>t DEF Guarded
  <2>5. Elements(todo[o])' = Elements(todo'[o])
    BY DEF Elements
  <2>6. QED
    BY <2>1, <2>4, <2>5, <1>t DEF Guarded
<1>5. CASE Preflight(o) \/ Intend(o) \/ (PrepareEnds(o) /\ pc'[o] # "refused")
  <2>1. CASE Preflight(o) \/ Intend(o)
    <3>1. pc[o] \in {"bind", "intent"} /\ pc'[o] # "lock" /\ lock' = lock /\ phase' = phase
      BY <2>1, <1>t DEF Preflight, Intend, Goto
    <3>2. QED
      BY <3>1, <1>2 DEF EndPCs
  <2>2. CASE PrepareEnds(o) /\ pc'[o] # "refused"
    <3>1. pc[o] = "prepare" /\ pc'[o] # "lock" /\ lock' = lock /\ phase' = phase
      BY <2>2, <1>t DEF PrepareEnds, Refuse, Goto
    <3>2. QED
      BY <3>1, <1>2 DEF EndPCs
  <2>3. QED
    BY <1>5, <2>1, <2>2
<1>6. CASE StartFails(o) \/ PrepareCut(o) \/ RegisterFails(o) \/ pc'[o] = "refused"
  <2>1. pc'[o] = "refused"
    BY <1>6, <1>t DEF StartFails, PrepareCut, RegisterFails, Refuse, Goto
  <2>2. QED
    BY <2>1, <1>1 DEF EndPCs
<1>7. CASE Drop(o) \/ Crash(o)
  BY <1>7, <1>1, <1>t, Moves DEF EndPCs
<1>8. CASE Unguard(o)
  <2>1. phase'[o] = "health" /\ pc'[o] = "round"
    BY <1>8, <1>t, Moves DEF Unguard
  <2>2. QED
    BY <2>1 DEF Guarded
<1>9. CASE CheckStep(o) \/ ProbeStep(o)
  <2>1. /\ pc[o] \notin {"lock"} \cup EndPCs /\ pc'[o] # "lock"
        /\ lock' = lock /\ phase' = phase
    BY <1>9, <1>t, CheckingMoves DEF CheckPCs, LookPCs, ProbePCs, EndPCs
  <2>2. QED
    BY <2>1, <1>2
<1>10. CASE \/ SpawnGate(o) \/ Register(o) \/ Release(o) \/ Launched(o) \/ LaunchFails(o)
            \/ Grace(o) \/ WriteCheck(o) \/ Choose(o) \/ Stop(o) \/ Contain(o) \/ Capture(o)
            \/ Settle(o)
  <2>1. lock' = lock /\ phase' = phase
    BY <1>10 DEF SpawnGate, Register, Release, Launched, LaunchFails, Grace, WriteCheck, Choose,
                 Stop, Contain, Capture, Settle, Depart, Fail, driver
  <2>2. pc[o] \notin {"lock"} \cup EndPCs /\ pc'[o] # "lock"
    BY <1>10, <1>t, Moves DEF EndPCs
  <2>3. QED
    BY <2>1, <2>2, <1>2
<1>11. QED
  BY <1>3, <1>4, <1>5, <1>6, <1>7, <1>8, <1>9, <1>10 DEF Moving, OwnerStep, Prelaunch

\* A step that is not of a probe: its owner is not at one, nor comes to one, but
\* for the teardown, and for the first key of a round.
LEMMA NoProbeMoves ==
  ASSUME StateType, NEW o \in Owners, Checking(o), Moving(o), ~ProbeStep(o)
  PROVE  /\ UNCHANGED probes
         /\ pc'[o] \notin RunPCs
         /\ pc'[o] \in StopPCs \cup EndPCs
              \/ pc[o] \notin {"admit", "watch", "finish", "credit"} \cup StopPCs \cup EndPCs
         /\ pc'[o] = "probe" => todo'[o] = Keys(o)
         /\ pc'[o] \in InsidePCs => Look(o)
<1>t. pc \in [Owners -> PCs] /\ todo \in [Owners -> Seq(Ports \cup {None})] /\ ControlType
  BY TypeParts DEF ControlType
<1>1. UNCHANGED probes
  BY ScopeOfSteps
<1>2. CASE CheckStep(o)
  <2>1. /\ pc[o] \in LookPCs \cup {"round", "wait", "commit", "write"}
        /\ pc'[o] \in LookPCs \cup {"round", "probe", "wait", "commit", "write", "contain"}
    BY <1>2, <1>t, CheckControl
  <2>2. /\ pc[o] \notin RunPCs \cup StopPCs \cup EndPCs /\ pc'[o] \notin RunPCs
    BY <2>1 DEF LookPCs, RunPCs, StopPCs, EndPCs
  <2>3. pc'[o] = "probe" => todo'[o] = Keys(o)
    <3>1. CASE Round(o)
      BY <3>1, <1>t DEF Round, Goto
    <3>2. CASE Look(o)
      <4>1. List(o) \/ Admit(o) \/ Dump(o) \/ Inspect(o) => pc'[o] # "probe"
        BY <1>t DEF List, Admit, Dump, Inspect, Goto
      <4>2. Sight(o) \/ Recheck(o) => pc'[o] # "probe"
        BY DEF Sight, Recheck, driver
      <4>3. LookFails(o) \/ Missing(o) => pc'[o] # "probe"
        BY <1>t, FailStep, RetryStep DEF LookFails, Missing
      <4>4. Final(o) => pc'[o] # "probe"
        BY <1>t DEF Final, Goto
      <4>5. Initial(o) => todo'[o] = Keys(o)
        BY <1>t DEF Initial
      <4>6. QED
        BY <3>2, <4>1, <4>2, <4>3, <4>4, <4>5 DEF Look, Conclude
    <3>3. CASE Wait(o) \/ Commit(o)
      BY <3>3, <1>t DEF Wait, Commit, Goto
    <3>4. CASE CheckFails(o)
      BY <3>4, <1>t, FailStep DEF CheckFails, Depart
    <3>5. QED
      BY <1>2, <3>1, <3>2, <3>3, <3>4 DEF CheckStep
  <2>4. pc'[o] \in InsidePCs => Look(o)
    <3>1. CASE Round(o) \/ Wait(o) \/ Commit(o)
      BY <3>1, <1>t DEF Round, Wait, Commit, Goto, InsidePCs
    <3>2. CASE CheckFails(o)
      BY <3>2, <1>t, FailStep DEF CheckFails, Depart, InsidePCs
    <3>3. QED
      BY <1>2, <3>1, <3>2 DEF CheckStep
  <2>5. QED
    BY <2>2, <2>3, <2>4, <1>1 DEF RunPCs
<1>3. CASE Prelaunch(o) \/ PrepareEnds(o)
  <2>1. /\ pc[o] \in BarePCs \ {"absent"}
        /\ pc'[o] \in (BarePCs \ {"absent"}) \cup {"refused"}
    BY <1>3, <1>t, Moves
  <2>2. QED
    BY <2>1, <1>1 DEF BarePCs, RunPCs, InsidePCs, StopPCs, EndPCs
<1>4. CASE \/ SpawnGate(o) \/ Register(o) \/ RegisterFails(o) \/ WriteCheck(o) \/ Unguard(o)
           \/ Release(o) \/ Launched(o) \/ LaunchFails(o) \/ Grace(o)
  <2>1. /\ pc[o] \in {"spawn", "register", "write", "unguard", "release", "launch", "grace"}
        /\ pc'[o] \in {"register", "release", "refused", "unguard", "up", "round", "launch",
                       "grace", "contain"}
    BY <1>4, <1>t, Moves
  <2>2. QED
    BY <2>1, <1>1 DEF RunPCs, InsidePCs, StopPCs, EndPCs
<1>5. CASE \/ Choose(o) \/ Stop(o) \/ Contain(o) \/ Capture(o) \/ Settle(o) \/ Drop(o)
           \/ Crash(o)
  <2>1. pc'[o] \in {"stop", "contain", "capture", "settle", "drop", "ended", "crashed"}
    BY <1>5, <1>t, Moves
  <2>2. QED
    BY <2>1, <1>1 DEF RunPCs, InsidePCs, StopPCs, EndPCs
<1>6. QED
  BY <1>2, <1>3, <1>4, <1>5, Zenon DEF Moving, OwnerStep

\* The keys of a round, in a step of its owner.
LEMMA CheckingStep ==
  ASSUME StateType, NEW o \in Owners, OwnerInv(o), Moving(o)
  PROVE  Checking(o)'
<1>t. /\ ControlType /\ ProbesType /\ RoundsType /\ Checking(o) /\ Trying(o) /\ Settling(o)
      /\ Probed(o)' = Probed(o) /\ Keys(o) # <<>> /\ Elements(Keys(o)) = Probed(o)
      /\ todo \in [Owners -> Seq(Ports \cup {None})] /\ key[o] \in Probed(o)
  BY TypeParts, KeysType DEF OwnerInv, ControlType, ProbesType, Probed, Keys
<1>e. Elements(todo[o])' = Elements(todo'[o])
  BY DEF Elements
<1>f. \A k : Fresh(o, k)' <=> Credited(probeRow'[o][k]) /\ probeRow'[o][k].attempt = attempt'[o]
  BY DEF Fresh, Credited
<1>1. CASE ~ProbeStep(o)
  <2>1. /\ pc'[o] \notin RunPCs /\ probeRow' = probeRow
        /\ pc'[o] = "probe" => todo'[o] = Keys(o)
        /\ pc'[o] \in InsidePCs => Look(o)
    BY <1>1, <1>t, NoProbeMoves DEF probes
  <2>2. ASSUME pc'[o] \in InsidePCs
        PROVE  at'[o] \in Tree
    <3>1. Look(o)
      BY <2>1, <2>2
    <3>2. CASE Inspect(o)
      <4>1. queue[o] \subseteq Tree /\ pc[o] = "look" /\ pc[o] \notin InsidePCs
        BY <3>2, <1>t DEF RoundsType, Inspect, InsidePCs
      <4>2. \E c \in queue[o] : at' = [at EXCEPT ![o] = c] \/ UNCHANGED pc
        BY <3>2 DEF Inspect
      <4>3. QED
        BY <2>2, <4>1, <4>2, <1>t DEF RoundsType
    <3>3. CASE Sight(o) \/ Recheck(o) \/ Dump(o)
      <4>1. pc[o] \in InsidePCs /\ at' = at
        BY <3>3 DEF Sight, Recheck, Dump, InsidePCs
      <4>2. QED
        BY <4>1, <1>t DEF Checking
    <3>4. CASE List(o) \/ Admit(o) \/ Initial(o) \/ Final(o)
      BY <2>2, <3>4, <1>t DEF List, Admit, Initial, Final, Goto, ControlType, InsidePCs
    <3>5. CASE LookFails(o) \/ Missing(o)
      BY <2>2, <3>5, <1>t, FailStep, RetryStep DEF LookFails, Missing, InsidePCs
    <3>6. QED
      BY <3>1, <3>2, <3>3, <3>4, <3>5 DEF Look, Conclude
  <2>3. QED
    BY <2>1, <2>2, <1>t, <1>e DEF Checking, RunPCs
<1>2. CASE ProbeFails(o)
  <2>1. pc'[o] = "contain"
    BY <1>2, <1>t, FailStep DEF ProbeFails, Depart
  <2>2. QED
    BY <2>1 DEF Checking, RunPCs, InsidePCs
<1>3. ASSUME pc[o] \in RunPCs \cup {"probe"}, pc'[o] \in RunPCs,
             UNCHANGED <<todo, attempt>>, NEW k \in Probed(o), k = Head(todo[o]),
             UNCHANGED probeRow \/ \E r : RowSet(o, k, r)
      PROVE  Checking(o)'
  <2>1. todo[o] # <<>> /\ Elements(todo[o]) \subseteq Probed(o) /\ k \in Elements(todo[o])
    BY <1>3, <1>t, TailLoses DEF Checking
  <2>2. \A j \in Probed(o) : j \in Elements(todo[o]) \/ Fresh(o, j)
    BY <1>3, <1>t DEF Checking
  <2>3. \A j \in Probed(o) : j # k => probeRow'[o][j] = probeRow[o][j]
    BY <1>3 DEF RowSet
  <2>4. \A j \in Probed(o) : j \in Elements(todo[o]) \/ Fresh(o, j)'
    BY <1>3, <2>1, <2>2, <2>3, <1>f DEF Fresh
  <2>5. pc'[o] \notin InsidePCs
    BY <1>3 DEF RunPCs, InsidePCs
  <2>6. QED
    BY <1>3, <2>1, <2>4, <2>5, <1>t, <1>e DEF Checking
<1>4. CASE StartProbe(o)
  <2>1. /\ pc[o] = "probe" /\ pc'[o] = "admit" /\ UNCHANGED <<todo, attempt>>
        /\ Head(todo[o]) \in Probed(o) /\ \E r : RowSet(o, Head(todo[o]), r)
    BY <1>4, <1>t, StartProbeEffect
  <2>2. QED
    BY <2>1, <1>3 DEF RunPCs
<1>5. CASE AdmitProbe(o) \/ WatchProbe(o) \/ FinishProbe(o) \/ RecordProbe(o)
  <2>1. /\ pc[o] \in {"admit", "watch", "finish", "record"}
        /\ pc'[o] \in {"watch", "finish", "record", "credit"}
        /\ UNCHANGED <<todo, attempt>> /\ (UNCHANGED probeRow \/ \E r : RowSet(o, key[o], r))
    <3>1. CASE AdmitProbe(o)
      BY <3>1, <1>t, AdmitProbeEffect
    <3>2. CASE WatchProbe(o)
      BY <3>2, <1>t, WatchProbeEffect
    <3>3. CASE FinishProbe(o)
      BY <3>3, <1>t, FinishProbeEffect
    <3>4. CASE RecordProbe(o)
      BY <3>4, <1>t, RecordProbeEffect
    <3>5. QED
      BY <1>5, <3>1, <3>2, <3>3, <3>4
  <2>2. key[o] = Head(todo[o])
    BY <2>1, <1>t DEF Trying, RunPCs
  <2>3. QED
    BY <2>1, <2>2, <1>3, <1>t DEF RunPCs
<1>6. CASE CreditProbe(o)
  <2>1. /\ pc[o] = "credit" /\ UNCHANGED probeRow
        /\ \/ /\ probeRow[o][key[o]].owned = "settled" /\ result[o] = "passed"
              /\ probeRow[o][key[o]].outcome = "passed"
              /\ todo'[o] = Tail(todo[o]) /\ UNCHANGED attempt
              /\ pc'[o] = (IF Tail(todo[o]) # <<>> THEN "probe"
                          ELSE IF Endpoints(o) = {} THEN "commit" ELSE "list")
           \/ pc'[o] \in {"wait", "contain"}
    BY <1>6, <1>t, CreditProbeEffect
  <2>2. CASE pc'[o] \in {"wait", "contain", "list", "commit"}
    BY <2>2 DEF Checking, RunPCs, InsidePCs
  <2>3. CASE pc'[o] \notin {"wait", "contain", "list", "commit"}
    <3>0. Tail(todo[o]) # <<>> /\ pc'[o] = "probe"
      BY <2>1, <2>3
    <3>1. Fresh(o, key[o]) /\ key[o] = Head(todo[o])
      <4>1. /\ key[o] = Head(todo[o]) /\ probeRow[o][key[o]].attempt = attempt[o]
            /\ probeRow[o][key[o]].owned = "settled" => probeRow[o][key[o]].status = Verdict(o)
        BY <2>1, <1>t DEF Trying, RunPCs
      <4>2. QED
        BY <2>1, <2>3, <4>1 DEF Fresh, Credited, Verdict
    <3>2. /\ todo[o] # <<>> /\ Elements(todo[o]) \subseteq Probed(o)
          /\ \A k \in Probed(o) : k \in Elements(todo[o]) \/ Fresh(o, k)
      BY <2>1, <1>t DEF Checking, RunPCs
    <3>3. Elements(todo[o]) = {Head(todo[o])} \cup Elements(Tail(todo[o]))
      BY <3>2, <1>t, TailLoses
    <3>4. \A k \in Probed(o) : Fresh(o, k) => Fresh(o, k)'
      BY <2>1, <2>3, <1>f DEF Fresh
    <3>5. /\ Elements(todo'[o]) \subseteq Probed(o)
          /\ \A k \in Probed(o) : k \in Elements(todo'[o]) \/ Fresh(o, k)'
      BY <2>1, <2>3, <3>1, <3>2, <3>3, <3>4
    <3>6. todo'[o] # <<>>
      BY <2>1, <2>3, <3>0
    <3>7. QED
      BY <3>0, <3>5, <3>6, <1>t, <1>e DEF Checking, InsidePCs
  <2>4. QED
    BY <2>2, <2>3
<1>7. QED
  BY <1>1, <1>2, <1>4, <1>5, <1>6 DEF ProbeStep

\* The probe, its row and its verdict, in a step of its owner.
LEMMA ProbingStep ==
  ASSUME StateType, NEW o \in Owners, OwnerInv(o), Moving(o)
  PROVE  Trying(o)' /\ Settling(o)'
<1>t. /\ ControlType /\ ProbesType /\ Checking(o) /\ Trying(o) /\ Settling(o)
      /\ Probed(o)' = Probed(o) /\ key[o] \in Probed(o) /\ probeRow[o][key[o]] \in ProbeRows
      /\ probe \in [Owners -> {"none", "gate", "running", "passed", "failed"}]
      /\ result \in [Owners -> Outcomes \cup {"error"}]
  BY TypeParts DEF OwnerInv, ProbesType, Probed, Keys
<1>1. CASE ~ProbeStep(o)
  <2>1. /\ UNCHANGED probes /\ pc'[o] \notin RunPCs
        /\ pc'[o] \in StopPCs \cup EndPCs
             \/ pc[o] \notin {"admit", "watch", "finish", "credit"} \cup StopPCs \cup EndPCs
    BY <1>1, <1>t, NoProbeMoves
  <2>2. Settling(o)'
    BY <2>1, <1>t DEF Settling, probes
  <2>3. Trying(o)'
    BY <2>1, <1>t DEF Trying, probes, RunPCs
  <2>4. QED
    BY <2>2, <2>3
<1>2. CASE ProbeFails(o)
  <2>1. pc'[o] = "contain" /\ UNCHANGED probes
    BY <1>2, <1>t, FailStep DEF ProbeFails, Depart
  <2>2. Settling(o)'
    BY <2>1, <1>t DEF Settling, probes
  <2>3. Trying(o)'
    BY <2>1 DEF Trying, probes, RunPCs, StopPCs
  <2>4. QED
    BY <2>2, <2>3
<1>3. CASE StartProbe(o)
  <2>1. /\ pc[o] = "probe" /\ pc'[o] = "admit" /\ UNCHANGED <<todo, attempt, result>>
        /\ key'[o] = Head(todo[o]) /\ Head(todo[o]) \in Probed(o)
        /\ RowSet(o, Head(todo[o]), [attempt |-> attempt[o], outcome |-> "none",
                                     status |-> "running", owned |-> "unresolved"])
    BY <1>3, <1>t, StartProbeEffect DEF ProbesType
  <2>2. /\ probeRow'[o][key'[o]] = [attempt |-> attempt[o], outcome |-> "none",
                                    status |-> "running", owned |-> "unresolved"]
        /\ \A k \in Probed(o) : k # key'[o] => probeRow'[o][k] = probeRow[o][k]
    BY <2>1 DEF RowSet
  <2>3. Settling(o)'
    BY <2>2, <1>t DEF Settling
  <2>4. Trying(o)'
    BY <2>1, <2>2 DEF Trying
  <2>5. QED
    BY <2>3, <2>4
<1>4. CASE AdmitProbe(o)
  <2>1. /\ pc[o] = "admit" /\ UNCHANGED <<todo, attempt, key, probeRow>>
        /\ pc'[o] = "finish" \/ (pc'[o] = "watch" /\ probe'[o] = "running")
    BY <1>4, <1>t, AdmitProbeEffect
  <2>2. /\ key[o] = Head(todo[o]) /\ probeRow[o][key[o]].attempt = attempt[o]
        /\ probeRow[o][key[o]].owned = "unresolved" /\ probeRow[o][key[o]].outcome = "none"
    BY <2>1, <1>t DEF Trying, RunPCs
  <2>3. Settling(o)'
    BY <2>1, <2>2, <1>t DEF Settling
  <2>4. Trying(o)'
    BY <2>1, <2>2 DEF Trying
  <2>5. QED
    BY <2>3, <2>4
<1>5. CASE WatchProbe(o)
  <2>1. /\ pc[o] = "watch" /\ pc'[o] = "finish" /\ UNCHANGED <<todo, attempt, key, probe>>
        /\ \E seen \in Outcomes \cup {"error"} :
             /\ result' = [result EXCEPT ![o] = seen]
             /\ \/ UNCHANGED probeRow
                \/ RowSet(o, key[o], [probeRow[o][key[o]] EXCEPT !.outcome = seen])
    BY <1>5, <1>t, WatchProbeEffect
  <2>2. /\ key[o] = Head(todo[o]) /\ probeRow[o][key[o]].attempt = attempt[o]
        /\ probeRow[o][key[o]].owned = "unresolved" /\ probeRow[o][key[o]].outcome = "none"
    BY <2>1, <1>t DEF Trying, RunPCs
  <2>3. PICK seen \in Outcomes \cup {"error"} :
          /\ result' = [result EXCEPT ![o] = seen]
          /\ \/ UNCHANGED probeRow
             \/ RowSet(o, key[o], [probeRow[o][key[o]] EXCEPT !.outcome = seen])
    BY <2>1
  <2>4. result'[o] = seen
    BY <2>3, <1>t
  <2>5. /\ probeRow'[o][key[o]].owned = "unresolved"
        /\ probeRow'[o][key[o]].attempt = attempt[o]
        /\ probeRow'[o][key[o]].outcome \in {"none", seen}
        /\ \A k \in Probed(o) : k # key[o] => probeRow'[o][k] = probeRow[o][k]
    <3>1. CASE UNCHANGED probeRow
      BY <3>1, <2>2
    <3>2. CASE RowSet(o, key[o], [probeRow[o][key[o]] EXCEPT !.outcome = seen])
      <4>1. /\ probeRow'[o][key[o]] = [probeRow[o][key[o]] EXCEPT !.outcome = seen]
            /\ \A k \in Probed(o) : k # key[o] => probeRow'[o][k] = probeRow[o][k]
        BY <3>2 DEF RowSet
      <4>2. QED
        BY <4>1, <2>2, <1>t DEF ProbeRows
    <3>3. QED
      BY <2>3, <3>1, <3>2
  <2>6. Settling(o)'
    BY <2>1, <2>5, <1>t DEF Settling
  <2>7. Trying(o)'
    BY <2>1, <2>2, <2>4, <2>5 DEF Trying
  <2>8. QED
    BY <2>6, <2>7
<1>6. CASE FinishProbe(o)
  <2>1. /\ pc[o] = "finish" /\ UNCHANGED <<todo, attempt, key, result, probeRow>>
        /\ pc'[o] = "credit" \/ (pc'[o] = "record" /\ probe'[o] = "none")
    BY <1>6, <1>t, FinishProbeEffect
  <2>2. /\ key[o] = Head(todo[o]) /\ probeRow[o][key[o]].attempt = attempt[o]
        /\ probeRow[o][key[o]].owned = "unresolved"
        /\ probeRow[o][key[o]].outcome \in {"none", result[o]}
    BY <2>1, <1>t DEF Trying, RunPCs
  <2>3. Settling(o)'
    BY <2>1, <2>2, <1>t DEF Settling
  <2>4. Trying(o)'
    BY <2>1, <2>2 DEF Trying
  <2>5. QED
    BY <2>3, <2>4
<1>7. CASE RecordProbe(o)
  <2>1. /\ pc[o] = "record" /\ pc'[o] = "credit"
        /\ UNCHANGED <<todo, attempt, key, probe, result>>
        /\ \/ UNCHANGED probeRow
           \/ RowSet(o, key[o], [probeRow[o][key[o]] EXCEPT !.status = Verdict(o),
                                                            !.owned = "settled"])
    BY <1>7, <1>t, RecordProbeEffect
  <2>2. /\ key[o] = Head(todo[o]) /\ probeRow[o][key[o]].attempt = attempt[o]
        /\ probeRow[o][key[o]].owned = "unresolved" /\ probe[o] = "none"
        /\ probeRow[o][key[o]].outcome \in {"none", result[o]}
    BY <2>1, <1>t DEF Trying, RunPCs, StopPCs, EndPCs
  <2>3. probeRow[o][key[o]].outcome \in {"none", Verdict(o)}
    BY <2>2, <1>t DEF Verdict, ProbeRows, Outcomes
  <2>4. CASE UNCHANGED probeRow
    BY <2>1, <2>2, <2>4, <1>t DEF Settling, Trying
  <2>5. CASE RowSet(o, key[o], [probeRow[o][key[o]] EXCEPT !.status = Verdict(o),
                                                           !.owned = "settled"])
    <3>1. /\ probeRow'[o][key[o]] = [probeRow[o][key[o]] EXCEPT !.status = Verdict(o),
                                                                !.owned = "settled"]
          /\ \A k \in Probed(o) : k # key[o] => probeRow'[o][k] = probeRow[o][k]
      BY <2>5 DEF RowSet
    <3>2. /\ probeRow'[o][key[o]].status = Verdict(o)
          /\ probeRow'[o][key[o]].outcome = probeRow[o][key[o]].outcome
          /\ probeRow'[o][key[o]].attempt = probeRow[o][key[o]].attempt
      BY <3>1, <1>t DEF ProbeRows
    <3>3. Settling(o)'
      <4>1. ASSUME NEW k \in Probed(o), probeRow'[o][k].owned = "settled"
            PROVE  /\ probeRow'[o][k].outcome \in {"none", probeRow'[o][k].status}
                   /\ k = key'[o] => probe'[o] = "none"
        <5>1. CASE k = key[o]
          BY <2>1, <2>2, <2>3, <3>2, <5>1
        <5>2. CASE k # key[o]
          BY <2>1, <3>1, <4>1, <5>2, <1>t DEF Settling
        <5>3. QED
          BY <5>1, <5>2
      <4>2. QED
        BY <4>1, <1>t DEF Settling
    <3>4. Verdict(o)' = Verdict(o)
      BY <2>1 DEF Verdict
    <3>5. Trying(o)'
      BY <2>1, <2>2, <3>2, <3>4 DEF Trying
    <3>6. QED
      BY <3>3, <3>5
  <2>6. QED
    BY <2>1, <2>4, <2>5
<1>8. CASE CreditProbe(o)
  <2>1. /\ pc[o] = "credit" /\ UNCHANGED <<key, probe, probeRow>>
        /\ \/ pc'[o] = "contain"
           \/ pc'[o] \in {"wait", "list", "commit", "probe"} /\ probeRow[o][key[o]].owned = "settled"
    BY <1>8, <1>t, CreditProbeEffect
  <2>2. Settling(o)'
    BY <2>1, <1>t DEF Settling
  <2>3. pc'[o] = "contain" \/ probe[o] = "none"
    BY <2>1, <1>t DEF Settling
  <2>4. Trying(o)'
    BY <2>1, <2>3 DEF Trying, RunPCs, StopPCs
  <2>5. QED
    BY <2>2, <2>4
<1>9. QED
  BY <1>1, <1>2, <1>3, <1>4, <1>5, <1>6, <1>7, <1>8 DEF ProbeStep

\* What owes a tree, in a step of its owner.
LEMMA OwingStep ==
  ASSUME StateType, NEW o \in Owners, OwnerInv(o), Moving(o)
  PROVE  Owing(o)'
<1>t. /\ Launching(o) /\ Launching(o)' /\ Ending(o) /\ Owing(o) /\ Checking(o)
      /\ leader \in [Owners -> {"none", "gate", "released", "live", "dead"}]
      /\ row \in [Owners -> Rows]
  BY LaunchingStep, TypeParts DEF OwnerInv, HostType, RowType
<1>1. CASE pc'[o] \in OwingPCs
  BY <1>1, <1>t DEF Launching, Owing
<1>2. ASSUME UNCHANGED <<row, leader, helper, known>>
      PROVE  Owing(o)'
  BY <1>2, <1>t DEF Owing, HelperLives, Away
<1>3. CASE Prelaunch(o) \/ PrepareEnds(o) \/ Crash(o)
  <2>1. UNCHANGED <<row, leader, helper, known>>
    BY <1>3 DEF Prelaunch, PrepareEnds, Crash, tree, tracker
  <2>2. QED
    BY <2>1, <1>2
<1>4. CASE SpawnGate(o) \/ RegisterFails(o)
  <2>1. UNCHANGED <<row, helper, known>>
    BY <1>4 DEF SpawnGate, RegisterFails, tracker
  <2>2. row[o] = NoRow
    BY <1>4, <1>t, Moves DEF Launching, BarePCs
  <2>3. leader'[o] \in {"gate", "dead", leader[o]}
    BY <1>4, <1>t DEF SpawnGate, RegisterFails
  <2>4. QED
    BY <2>1, <2>2, <2>3, <1>t DEF Owing, HelperLives, Away, NoRow
<1>5. CASE Settle(o)
  <2>1. UNCHANGED <<leader, helper, known>>
    BY <1>5 DEF Settle, tree, tracker
  <2>2. row[o].owned = "unresolved"
    BY <1>5, <1>t, Moves DEF Launching, OwingPCs
  <2>3. row'[o].owned = "unresolved" \/ (contained[o] /\ captured[o])
    BY <1>5, <2>2, <1>t DEF Settle
  <2>4. QED
    BY <2>1, <2>3, <1>t DEF Owing, Ending, HelperLives, Away
<1>6. CASE Drop(o)
  <2>1. UNCHANGED row /\ pc[o] = "drop"
    BY <1>6, <1>t, Moves DEF Drop
  <2>2. CASE row[o].owned = "unresolved"
    BY <2>1, <2>2 DEF Owing
  <2>3. CASE row[o].owned # "unresolved"
    <3>1. row[o].owned = "settled"
      BY <2>1, <2>3, <1>t DEF Launching, Rows
    <3>2. ~LeaderLives(o)
      BY <3>1, <1>t DEF Launching, Ending, LeaderLives
    <3>3. UNCHANGED <<leader, helper, known>>
      BY <1>6, <3>2 DEF Drop, tracker
    <3>4. QED
      BY <2>1, <3>3, <1>2
  <2>4. QED
    BY <2>2, <2>3
<1>7. CASE CheckStep(o) \/ ProbeStep(o)
  BY <1>7, <1>1, <1>t, CheckingMoves DEF OwingPCs
<1>8. CASE \/ Register(o) \/ Release(o) \/ Launched(o) \/ LaunchFails(o) \/ Grace(o)
           \/ WriteCheck(o) \/ Unguard(o) \/ Choose(o) \/ Stop(o) \/ Contain(o) \/ Capture(o)
  <2>1. pc'[o] \in {"release", "launch", "grace", "round", "contain", "unguard", "up", "stop",
                    "capture", "settle"}
    BY <1>8, <1>t, Moves
  <2>2. QED
    BY <2>1, <1>1 DEF OwingPCs, CheckPCs
<1>9. QED
  BY <1>3, <1>4, <1>5, <1>6, <1>7, <1>8, Zenon DEF Moving, OwnerStep

\* A step of an owner keeps the invariant of every owner.
LEMMA OwnerPreserves ==
  ASSUME SInv, NEW o \in Owners, Moving(o)
  PROVE  SInv'
<1>1. StateType /\ OwnerInv(o) /\ Checking(o) /\ Trying(o)
  BY DEF SInv, OwnerInv
<1>2. StateType' /\ \A q \in Owners \ {o} : ControlKept(q) /\ OthersKept(q)
  BY <1>1, OwnerTypes
<1>3. OwnerInv(o)'
  <2>1. Launching(o)' /\ Ending(o)' /\ Guarded(o)'
    BY <1>1, LaunchingStep, EndingInvStep, GuardedStep
  <2>2. Checking(o)' /\ Trying(o)' /\ Settling(o)' /\ Owing(o)'
    BY <1>1, CheckingStep, ProbingStep, OwingStep
  <2>3. QED
    BY <2>1, <2>2, Zenon DEF OwnerInv
<1>4. ASSUME NEW q \in Owners, q # o
      PROVE  OwnerInv(q)'
  BY <1>1, <1>2, <1>4, OthersInv DEF SInv
<1>5. \A q \in Owners : OwnerInv(q)'
  BY <1>3, <1>4
<1>6. QED
  BY <1>2, <1>5 DEF SInv

-----------------------------------------------------------------------------
\* What a step of the host may do to a tree and to its probe.
Hosted(q) ==
  /\ \/ leader'[q] = leader[q]
     \/ LeaderLives(q) /\ leader'[q] = "dead"
     \/ leader[q] = "released" /\ leader'[q] = "live"
  /\ \/ helper'[q] = helper[q]
     \/ HelperLives(q) /\ helper'[q] = "dead"
     \/ leader[q] = "live" /\ helper[q] = "none" /\ helper'[q] = "in"
     \/ helper[q] = "in" /\ helper'[q] \in {"out", "mute"}
  /\ probe'[q] = probe[q] \/ (probe[q] = "running" /\ probe'[q] \in {"passed", "failed"})

\* One socket more, or one less.
LEMMA SocketsStep ==
  ASSUME HostType, NEW p \in Ports, NEW who \in {Other} \cup (Owners \X {"leader", "helper"}),
         Listen(p, who) \/ Unlisten(p)
  PROVE  HostType' /\ UNCHANGED <<leader, helper, probe>>
<1>1. CASE Listen(p, who)
  <2>1. /\ socket[p] < MaxSockets[p] /\ holder' = [holder EXCEPT ![p] = who]
        /\ socket' = [socket EXCEPT ![p] = @ + 1] /\ UNCHANGED <<leader, helper, probe>>
    BY <1>1 DEF Listen, tree
  <2>2. holder' \in [Ports -> {Free, Other} \cup (Owners \X {"leader", "helper"})]
    BY <2>1 DEF HostType
  <2>3. socket' \in [Ports -> Nat] /\ \A r \in Ports : socket'[r] <= MaxSockets[r]
    <3>1. /\ socket \in [Ports -> Nat] /\ MaxSockets \in [Ports -> Nat]
          /\ \A r \in Ports : socket[r] <= MaxSockets[r]
      BY ServiceAssumption DEF HostType
    <3>2. socket[p] + 1 \in Nat /\ socket[p] + 1 <= MaxSockets[p]
      BY <2>1, <3>1
    <3>3. \A r \in Ports : socket'[r] = IF r = p THEN socket[p] + 1 ELSE socket[r]
      BY <2>1, <3>1
    <3>4. socket' \in [Ports -> Nat]
      BY <2>1, <3>1, <3>2
    <3>5. QED
      BY <3>1, <3>2, <3>3, <3>4
  <2>4. QED
    BY <2>1, <2>2, <2>3 DEF HostType
<1>2. CASE Unlisten(p)
  BY <1>2 DEF Unlisten, HostType, tree
<1>3. QED
  BY <1>1, <1>2

\* Any step of the host, of any tree.
LEMMA HostEffect ==
  ASSUME StateType, HostStep
  PROVE  /\ HostType' /\ probe' \in [Owners -> {"none", "gate", "running", "passed", "failed"}]
         /\ \A q \in Owners : Hosted(q)
<1>t. /\ HostType /\ leader \in [Owners -> {"none", "gate", "released", "live", "dead"}]
      /\ helper \in [Owners -> {"none", "in", "out", "mute", "dead"}]
      /\ probe \in [Owners -> {"none", "gate", "running", "passed", "failed"}]
      /\ holder \in [Ports -> {Free, Other} \cup (Owners \X {"leader", "helper"})]
  BY TypeParts DEF HostType, ProbesType
<1>1. ASSUME NEW o \in Owners, Exec(o) \/ Fork(o) \/ Leave(o) \/ ProbeExits(o)
      PROVE  /\ HostType'
             /\ probe' \in [Owners -> {"none", "gate", "running", "passed", "failed"}]
             /\ \A q \in Owners : Hosted(q)
  <2>1. CASE Exec(o)
    <3>1. /\ leader[o] = "released" /\ leader' = [leader EXCEPT ![o] = "live"]
          /\ UNCHANGED <<helper, holder, socket, probe>>
      BY <2>1 DEF Exec, sockets
    <3>2. QED
      BY <3>1, <1>t DEF HostType, Hosted
  <2>2. CASE Fork(o)
    <3>1. /\ leader[o] = "live" /\ helper[o] = "none" /\ helper' = [helper EXCEPT ![o] = "in"]
          /\ UNCHANGED <<leader, holder, socket, probe>>
      BY <2>2 DEF Fork, sockets
    <3>2. QED
      BY <3>1, <1>t DEF HostType, Hosted
  <2>3. CASE Leave(o)
    <3>1. /\ helper[o] = "in"
          /\ \E how \in {"out", "mute"} : helper' = [helper EXCEPT ![o] = how]
          /\ UNCHANGED <<leader, holder, socket, probe>>
      BY <2>3 DEF Leave, sockets
    <3>2. QED
      BY <3>1, <1>t DEF HostType, Hosted
  <2>4. CASE ProbeExits(o)
    <3>1. /\ probe[o] = "running"
          /\ \E how \in {"passed", "failed"} : probe' = [probe EXCEPT ![o] = how]
          /\ UNCHANGED <<leader, helper, holder, socket>>
      BY <2>4 DEF ProbeExits, sockets, tree
    <3>2. QED
      BY <3>1, <1>t DEF HostType, Hosted
  <2>5. QED
    BY <1>1, <2>1, <2>2, <2>3, <2>4
<1>2. ASSUME NEW o \in Owners, NEW w \in {"leader", "helper"}, Exit(o, w)
      PROVE  /\ HostType'
             /\ probe' \in [Owners -> {"none", "gate", "running", "passed", "failed"}]
             /\ \A q \in Owners : Hosted(q)
  <2>1. /\ \/ /\ LeaderLives(o) /\ leader' = [leader EXCEPT ![o] = "dead"] /\ helper' = helper
           \/ /\ HelperLives(o) /\ helper' = [helper EXCEPT ![o] = "dead"] /\ leader' = leader
        /\ holder' = HolderAfter(o, {w}) /\ UNCHANGED <<socket, probe>>
    BY <1>2 DEF Exit
  <2>2. holder' \in [Ports -> {Free, Other} \cup (Owners \X {"leader", "helper"})]
    BY <2>1, <1>t, HolderAfterType
  <2>3. /\ leader' \in [Owners -> {"none", "gate", "released", "live", "dead"}]
        /\ helper' \in [Owners -> {"none", "in", "out", "mute", "dead"}]
    BY <2>1, <1>t
  <2>4. HostType'
    BY <2>1, <2>2, <2>3, <1>t DEF HostType
  <2>5. \A q \in Owners : Hosted(q)
    BY <2>1, <1>t DEF Hosted
  <2>6. QED
    BY <2>1, <2>4, <2>5, <1>t
<1>3. ASSUME NEW o \in Owners, NEW p \in Endpoints(o),
             ServiceListens(o, p) \/ Unlisten(p) \/ Listen(p, Other)
      PROVE  /\ HostType'
             /\ probe' \in [Owners -> {"none", "gate", "running", "passed", "failed"}]
             /\ \A q \in Owners : Hosted(q)
  <2>1. p \in Ports
    BY KeysType
  <2>2. \E who \in {Other} \cup (Owners \X {"leader", "helper"}) : Listen(p, who) \/ Unlisten(p)
    BY <1>3 DEF ServiceListens
  <2>3. HostType' /\ UNCHANGED <<leader, helper, probe>>
    BY <2>1, <2>2, <1>t, SocketsStep
  <2>4. QED
    BY <2>3, <1>t DEF Hosted
<1>4. QED
  BY <1>1, <1>2, <1>3 DEF HostStep, Followed, Observable

\* Nothing the host does breaks what an owner relies on.
LEMMA HostPreserves ==
  ASSUME SInv, HostStep
  PROVE  SInv'
<1>1. StateType /\ \A q \in Owners : OwnerInv(q)
  BY DEF SInv
<1>2. /\ HostType' /\ probe' \in [Owners -> {"none", "gate", "running", "passed", "failed"}]
      /\ \A q \in Owners : Hosted(q)
  BY <1>1, HostEffect
<1>3. UNCHANGED <<driver, rounds, ending, tracker, row, key, result, probeRow, canceled>>
  BY DEF HostStep
<1>4. StateType'
  <2>1. /\ ControlType /\ RoundsType /\ EndingType /\ TrackerType /\ RowType /\ ProbesType
        /\ canceled \subseteq Owners
    BY <1>1, TypeParts
  <2>2. ControlType' /\ EndingType' /\ TrackerType' /\ RowType' /\ canceled' \subseteq Owners
    BY <1>3, <2>1 DEF ControlType, EndingType, TrackerType, RowType, driver, ending, tracker
  <2>3. RoundsType'
    BY <1>3, <2>1 DEF RoundsType, Sights, Endpoints, rounds
  <2>4. ProbesType'
    BY <1>2, <1>3, <2>1 DEF ProbesType, Probed, Keys
  <2>5. QED
    BY <1>2, <2>2, <2>3, <2>4, TypeParts
<1>5. ASSUME NEW q \in Owners
      PROVE  OwnerInv(q)'
  <2>1. /\ Launching(q) /\ Ending(q) /\ Guarded(q) /\ Checking(q) /\ Trying(q)
        /\ Owing(q) /\ Settling(q) /\ Hosted(q)
    BY <1>1, <1>2, <1>5 DEF OwnerInv
  <2>2. /\ UNCHANGED <<pc, todo, lock, phase, attempt, contained, captured, known, row, key,
                       result, probeRow, at>>
    BY <1>3 DEF driver, ending, tracker, rounds
  <2>3. Launching(q)'
    BY <2>1, <2>2 DEF Launching, Hosted, LeaderLives
  <2>4. Ending(q)'
    BY <2>1, <2>2 DEF Ending, Hosted, LeaderLives, HelperLives, Away
  <2>5. Guarded(q)'
    BY <2>1, <2>2 DEF Guarded, Endpoints, Elements
  <2>6. Checking(q)'
    <3>1. \A k : Fresh(q, k)' <=> Fresh(q, k)
      BY <2>2 DEF Fresh, Credited
    <3>2. Probed(q)' = Probed(q) /\ Elements(todo[q])' = Elements(todo[q])
      BY <2>2 DEF Probed, Keys, Elements
    <3>3. QED
      BY <2>1, <2>2, <3>1, <3>2 DEF Checking
  <2>7. Trying(q)'
    BY <2>1, <2>2 DEF Trying, Hosted, Verdict
  <2>8. Owing(q)'
    BY <2>1, <2>2 DEF Owing, Hosted, LeaderLives, HelperLives, Away
  <2>9. Settling(q)'
    BY <2>1, <2>2 DEF Settling, Hosted, Probed, Keys
  <2>10. QED
    BY <2>3, <2>4, <2>5, <2>6, <2>7, <2>8, <2>9, Zenon DEF OwnerInv
<1>6. QED
  BY <1>4, <1>5 DEF SInv

\* A step that leaves everything but the requests to cancel.
LEMMA QuietPreserves ==
  ASSUME SInv, UNCHANGED <<driver, rounds, ending, tracker, tree, sockets, row, probes>>,
         canceled' \subseteq Owners
  PROVE  SInv'
<1>1. StateType /\ \A q \in Owners : OwnerInv(q)
  BY DEF SInv
<1>2. StateType'
  <2>1. /\ ControlType /\ RoundsType /\ EndingType /\ TrackerType /\ HostType /\ RowType
        /\ ProbesType
    BY <1>1, TypeParts
  <2>2. ControlType' /\ EndingType' /\ TrackerType' /\ HostType' /\ RowType'
    BY <2>1 DEF ControlType, EndingType, TrackerType, HostType, RowType, driver, ending,
                tracker, tree, sockets
  <2>3. RoundsType'
    BY <2>1 DEF RoundsType, Sights, Endpoints, rounds
  <2>4. ProbesType'
    BY <2>1 DEF ProbesType, Probed, Keys, probes
  <2>5. QED
    BY <2>2, <2>3, <2>4, TypeParts
<1>3. \A q \in Owners : ControlKept(q) /\ OthersKept(q)
  BY DEF ControlKept, OthersKept, RoundsKept, driver, rounds, ending, tracker, tree, probes
<1>4. \A q \in Owners : OwnerInv(q)'
  BY <1>1, <1>3, OthersInv
<1>5. QED
  BY <1>2, <1>4 DEF SInv

\* The first state.
LEMMA SInit ==
  ASSUME Init
  PROVE  SInv
<1>1. /\ \E started \in kSubset(MaxStarts, Owners) :
            pc = [o \in Owners |-> IF o \in started THEN "lock" ELSE "absent"]
      /\ todo = Wants /\ lock \in [Ports -> {None, Other}]
      /\ phase = [o \in Owners |-> "ready"] /\ attempt = [o \in Owners |-> 0]
      /\ policy = [o \in Owners |-> "none"]
  BY DEF Init
<1>2. /\ queue = [o \in Owners |-> {}] /\ at = [o \in Owners |-> None]
      /\ unread = [o \in Owners |-> {}] /\ sighting = [o \in Owners |-> NoSight(o)]
      /\ found = [o \in Owners |-> Unseen(o)] /\ witness = [o \in Owners |-> Unseen(o)]
      /\ contained = [o \in Owners |-> FALSE] /\ captured = [o \in Owners |-> FALSE]
      /\ known = {} /\ strayed = {} /\ canceled = {}
      /\ leader = [o \in Owners |-> "none"] /\ helper = [o \in Owners |-> "none"]
      /\ holder = [p \in Ports |-> Free] /\ socket = [p \in Ports |-> 0]
      /\ row = [o \in Owners |-> NoRow]
  BY DEF Init
<1>3. /\ probe = [o \in Owners |-> "none"] /\ key = [o \in Owners |-> Head(Keys(o))]
      /\ result = [o \in Owners |-> "none"]
      /\ probeRow = [o \in Owners |-> [k \in Probed(o) |-> NoProbeRow]]
  BY DEF Init
<1>4. ControlType
  <2>1. pc \in [Owners -> PCs] /\ \A o \in Owners : pc[o] \in {"lock", "absent"}
    BY <1>1 DEF PCs, StartPCs, EndPCs
  <2>2. todo \in [Owners -> Seq(Ports \cup {None})]
    BY <1>1, ServiceAssumption, KeysType
  <2>3. QED
    BY <1>1, <2>1, <2>2, ServiceAssumption DEF ControlType, Policies
<1>5. RoundsType /\ EndingType /\ TrackerType
  BY <1>2 DEF RoundsType, EndingType, TrackerType, Unseen, NoSight, Sights
<1>6. HostType /\ RowType
  BY <1>2, ServiceAssumption DEF HostType, RowType, Rows, NoRow, Statuses
<1>7. ProbesType
  <2>1. \A o \in Owners : key[o] \in Probed(o)
    BY <1>3, KeysType, TailLoses
  <2>2. NoProbeRow \in ProbeRows
    BY ServiceAssumption DEF NoProbeRow, ProbeRows, Outcomes
  <2>3. QED
    BY <1>3, <2>1, <2>2 DEF ProbesType, Outcomes
<1>8. ASSUME NEW o \in Owners
      PROVE  OwnerInv(o)
  <2>1. /\ pc[o] \in {"lock", "absent"} /\ todo[o] = Wants[o] /\ leader[o] = "none"
        /\ helper[o] = "none" /\ row[o] = NoRow /\ ~contained[o] /\ ~captured[o]
        /\ probe[o] = "none" /\ \A k \in Probed(o) : probeRow[o][k] = NoProbeRow
    BY <1>1, <1>2, <1>3, <1>8
  <2>2. Launching(o) /\ Ending(o) /\ Owing(o)
    BY <2>1 DEF Launching, Ending, Owing, OwingPCs, CheckPCs, LookPCs, ProbePCs, NoRow,
                HelperLives, Away
  <2>3. Guarded(o)
    BY <2>1, KeysType DEF Guarded, EndPCs
  <2>4. Checking(o) /\ Trying(o) /\ Settling(o)
    BY <2>1 DEF Checking, Trying, Settling, RunPCs, InsidePCs, NoProbeRow
  <2>5. QED
    BY <2>2, <2>3, <2>4 DEF OwnerInv
<1>9. StateType
  BY <1>2, <1>4, <1>5, <1>6, <1>7, TypeParts
<1>10. QED
  BY <1>8, <1>9 DEF SInv

\* SInv is inductive.
THEOREM ServiceInvariance == Spec => []SInv
<1>1. Init => SInv
  BY SInit
<1>2. SInv /\ [Next]_vars => SInv'
  <2>1. SUFFICES ASSUME SInv, [Next]_vars PROVE SInv'
    OBVIOUS
  <2>2. canceled \subseteq Owners
    BY <2>1 DEF SInv, StateType
  <2>3. CASE \E o \in Owners : Moving(o)
    BY <2>1, <2>3, OwnerPreserves
  <2>4. CASE \E o \in Owners : Cancel(o)
    <3>1. /\ UNCHANGED <<driver, rounds, ending, tracker, tree, sockets, row, probes>>
          /\ canceled' \subseteq Owners
      BY <2>2, <2>4 DEF Cancel
    <3>2. QED
      BY <2>1, <3>1, QuietPreserves
  <2>5. CASE HostStep
    BY <2>1, <2>5, HostPreserves
  <2>6. CASE UNCHANGED vars
    <3>1. /\ UNCHANGED <<driver, rounds, ending, tracker, tree, sockets, row, probes>>
          /\ canceled' \subseteq Owners
      BY <2>2, <2>6 DEF vars
    <3>2. QED
      BY <2>1, <3>1, QuietPreserves
  <2>7. QED
    BY <2>1, <2>3, <2>4, <2>5, <2>6 DEF Next, Moving
<1>3. QED
  BY <1>1, <1>2, PTL DEF Spec

\* A tree that may run its workload is owed by an unresolved row.
THEOREM TreesAreOwed == Spec => []TreeIsOwed
<1>1. SInv => TreeIsOwed
  BY DEF SInv, OwnerInv, Owing, TreeIsOwed
<1>2. QED
  BY <1>1, ServiceInvariance, PTL

\* A launched service that is not ready has its addresses guarded.
THEOREM StartsAreGuarded == Spec => []StartIsGuarded
<1>1. ASSUME SInv PROVE StartIsGuarded
  <2>1. SUFFICES ASSUME NEW o \in Owners, row[o].status = "running" \/ LeaderLives(o),
                        pc[o] \notin EndPCs, phase[o] = "ready"
                 PROVE  \A p \in Endpoints(o) : lock[p] = o
    BY DEF StartIsGuarded
  <2>2. Launching(o) /\ Guarded(o)
    BY <1>1 DEF SInv, OwnerInv
  <2>3. pc[o] # "lock"
    BY <2>1, <2>2 DEF Launching, BarePCs, NoRow, LeaderLives
  <2>4. QED
    BY <2>1, <2>2, <2>3 DEF Guarded
<1>2. QED
  BY <1>1, ServiceInvariance, PTL

\* A settled probe is gone, and its terminal status is the exit that was seen.
THEOREM VerdictsAreObserved == Spec => []VerdictIsObserved
<1>1. SInv => VerdictIsObserved
  BY DEF SInv, OwnerInv, Settling, VerdictIsObserved
<1>2. QED
  BY <1>1, ServiceInvariance, PTL

-----------------------------------------------------------------------------
\* A process that was met: a helper that was met was forked, and one that was met
\* outside of the group stays outside or is dead.
Met(o, c) ==
  /\ c.by = "leader" => c.group = "in"
  /\ c.by = "helper" => helper[o] # "none"
  /\ c.group = "out" => helper[o] \in {"out", "mute", "dead"}

\* The helper is not any more where it was met.
Parted(o, w) == w.by = "helper" /\ (helper[o] = "dead" \/ (w.group = "in" /\ Away(o)))

\* A listener is gone for good.
Lost(o, p, w) == ~(holder[p] = <<o, w.by>> /\ socket[p] = w.socket) \/ Parted(o, w)

\* An observation has nothing outside of its steps, and what it has was there.
Scanning(o) ==
  /\ pc[o] \notin LookPCs \cup ProbePCs => witness[o] = Unseen(o)
  /\ pc[o] \notin ScanPCs => found[o] = Unseen(o)
  /\ pc[o] \notin InsidePCs => sighting[o] = NoSight(o)
  /\ pc[o] \in ScanPCs => \A c \in queue[o] : Met(o, c)
  /\ pc[o] \in InsidePCs => Met(o, at[o])
  /\ \A p \in Endpoints(o) : sighting[o][p] <= socket[p]
  /\ \A p \in Endpoints(o) :
       found[o][p] # None => Met(o, found[o][p]) /\ found[o][p].socket <= socket[p]
  /\ steady[o] \subseteq Endpoints(o)

\* The initial witnesses were met; one that was not held is lost for good, and
\* what the second observation meets again was held.
Witnessing(o) ==
  Again(o) =>
    /\ \A p \in Endpoints(o) :
         /\ witness[o][p] # None
         /\ Met(o, witness[o][p]) /\ witness[o][p].socket <= socket[p]
    /\ pc[o] \in LookPCs => \A k \in Probed(o) : Fresh(o, k)
    /\ \A p \in Endpoints(o) : p \in steady[o] \/ Lost(o, p, witness[o][p])
    /\ pc[o] \in InsidePCs => \A p \in Endpoints(o) :
         sighting[o][p] # 0 /\ sighting[o][p] = witness[o][p].socket
           /\ at[o].by = witness[o][p].by =>
             p \in steady[o] \/ Parted(o, witness[o][p])
    /\ \A p \in Endpoints(o) : found[o][p] # None => p \in steady[o]

\* The invariant of the rounds, beside SInv.
RInv == steady \in [Owners -> SUBSET Ports] /\ \A o \in Owners : Scanning(o) /\ Witnessing(o)

\* What is met and lost stays so: sockets are not numbered again, and a helper
\* neither returns to its group nor to life.
Ageing(o) ==
  /\ \A p \in Ports : /\ socket'[p] \in Nat
                      /\ \/ socket'[p] = socket[p] /\ holder'[p] \in {holder[p], Free}
                         \/ socket'[p] > socket[p]
  /\ \/ helper'[o] = helper[o]
     \/ helper[o] = "none" /\ helper'[o] = "in"
     \/ helper[o] = "in" /\ helper'[o] \in {"out", "mute", "dead"}
     \/ Away(o) /\ helper'[o] = "dead"

\* What a step makes of the history of one round.
Steadied(o) ==
  steady'[o] = IF Probing(o)'
               THEN {p \in (IF Probing(o) THEN steady[o] ELSE Endpoints(o)) : Held(o, p)'}
               ELSE IF Again(o)' THEN steady[o] ELSE {}

\* Steady says so of every owner.
LEMMA SteadyStep ==
  ASSUME Steady, NEW o \in Owners
  PROVE  Steadied(o)
<1>1. steady' = [q \in Owners |->
        IF Probing(q)'
        THEN {p \in (IF Probing(q) THEN steady[q] ELSE Endpoints(q)) : Held(q, p)'}
        ELSE IF Again(q)' THEN steady[q] ELSE {}]
  BY DEF Steady
<1>2. QED
  BY <1>1, Zenon DEF Steadied

\* The history is of the service's endpoints.
LEMMA SteadyType ==
  ASSUME Steady, RInv
  PROVE  steady' \in [Owners -> SUBSET Ports]
<1>1. \A o \in Owners : steady'[o] \subseteq Endpoints(o)
  BY SteadyStep DEF Steadied, RInv, Scanning
<1>2. \A o \in Owners : steady'[o] \subseteq Ports
  BY <1>1, KeysType
<1>3. DOMAIN steady' = Owners /\ steady' = [o \in Owners |-> steady'[o]]
  BY DEF Steady
<1>4. QED
  BY <1>2, <1>3

\* A tree and its sockets age, in any step of any owner.
LEMMA OwnerAgeing ==
  ASSUME StateType, NEW o \in Owners, Moving(o), NEW q \in Owners
  PROVE  Ageing(q)
<1>t. /\ helper \in [Owners -> {"none", "in", "out", "mute", "dead"}]
      /\ holder \in [Ports -> {Free, Other} \cup (Owners \X {"leader", "helper"})]
      /\ socket \in [Ports -> Nat]
  BY TypeParts DEF HostType
<1>1. CASE Contain(o) \/ Drop(o)
  <2>1. socket' = socket
    BY <1>1 DEF Contain, Drop
  <2>2. \A p \in Ports : holder'[p] \in {holder[p], Free}
    BY <1>1, <1>t DEF Contain, Drop, Kill, Survives, HolderAfter
  <2>3. helper'[q] = helper[q] \/ (HelperLives(q) /\ helper'[q] = "dead")
    BY <1>1, <1>t DEF Contain, Drop, Kill, Survives
  <2>4. QED
    BY <2>1, <2>2, <2>3, <1>t DEF Ageing, HelperLives
<1>2. CASE ~(Contain(o) \/ Drop(o))
  <2>1. UNCHANGED <<helper, holder, socket>>
    BY <1>2, ScopeOfSteps DEF tree, sockets, SpawnGate, RegisterFails, Release
  <2>2. QED
    BY <2>1, <1>t DEF Ageing
<1>3. QED
  BY <1>1, <1>2

\* ... and in any step of the host.
LEMMA HostAgeing ==
  ASSUME StateType, HostStep, NEW q \in Owners
  PROVE  Ageing(q)
<1>t. /\ helper \in [Owners -> {"none", "in", "out", "mute", "dead"}]
      /\ holder \in [Ports -> {Free, Other} \cup (Owners \X {"leader", "helper"})]
      /\ socket \in [Ports -> Nat]
  BY TypeParts DEF HostType
<1>1. ASSUME NEW o \in Owners,
             Exec(o) \/ Fork(o) \/ Leave(o) \/ ProbeExits(o)
      PROVE  Ageing(q)
  <2>1. UNCHANGED <<holder, socket>>
    BY <1>1 DEF Exec, Fork, Leave, ProbeExits, sockets
  <2>2. \/ UNCHANGED helper
        \/ helper[o] = "none" /\ helper' = [helper EXCEPT ![o] = "in"]
        \/ /\ helper[o] = "in"
           /\ \E how \in {"out", "mute"} : helper' = [helper EXCEPT ![o] = how]
    BY <1>1 DEF Exec, Fork, Leave, ProbeExits, tree
  <2>3. QED
    BY <2>1, <2>2, <1>t DEF Ageing
<1>2. ASSUME NEW o \in Owners, NEW w \in {"leader", "helper"}, Exit(o, w)
      PROVE  Ageing(q)
  <2>1. /\ socket' = socket /\ holder' = HolderAfter(o, {w})
        /\ UNCHANGED helper \/ (HelperLives(o) /\ helper' = [helper EXCEPT ![o] = "dead"])
    BY <1>2 DEF Exit
  <2>2. \A p \in Ports : holder'[p] \in {holder[p], Free}
    BY <2>1 DEF HolderAfter
  <2>3. QED
    BY <2>1, <2>2, <1>t DEF Ageing, HelperLives
<1>3. ASSUME NEW o \in Owners, NEW p \in Endpoints(o),
             ServiceListens(o, p) \/ Unlisten(p) \/ Listen(p, Other)
      PROVE  Ageing(q)
  <2>1. p \in Ports
    BY KeysType
  <2>2. UNCHANGED helper
    BY <1>3 DEF ServiceListens, Listen, Unlisten, tree
  <2>3. \/ UNCHANGED socket /\ holder' = [holder EXCEPT ![p] = Free]
        \/ socket' = [socket EXCEPT ![p] = @ + 1] /\ \A r \in Ports \ {p} : holder'[r] = holder[r]
    BY <1>3, <1>t DEF ServiceListens, Listen, Unlisten
  <2>4. QED
    BY <2>1, <2>2, <2>3, <1>t DEF Ageing
<1>4. QED
  BY <1>1, <1>2, <1>3 DEF HostStep, Followed, Observable

\* What was met and what was lost, a step later.
LEMMA Aged ==
  ASSUME NEW o \in Owners, Ageing(o), StateType
  PROVE  /\ \A c : Met(o, c) =>
              /\ c.by = "leader" => c.group = "in"
              /\ c.by = "helper" => helper'[o] # "none"
              /\ c.group = "out" => helper'[o] \in {"out", "mute", "dead"}
         /\ \A w : Parted(o, w) =>
              w.by = "helper" /\ (helper'[o] = "dead"
                                    \/ (w.group = "in" /\ helper'[o] \in {"out", "mute"}))
         /\ \A p \in Ports : \A n \in Nat : n <= socket[p] => n <= socket'[p]
         /\ \A p \in Ports : \A w :
              w.socket \in Nat /\ w.socket <= socket[p] /\ Lost(o, p, w) =>
                \/ ~(holder'[p] = <<o, w.by>> /\ socket'[p] = w.socket)
                \/ w.by = "helper" /\ (helper'[o] = "dead"
                                         \/ (w.group = "in" /\ helper'[o] \in {"out", "mute"}))
<1>t. helper[o] \in {"none", "in", "out", "mute", "dead"} /\ socket \in [Ports -> Nat]
  BY TypeParts DEF HostType
<1>1. \A c : Met(o, c) =>
        /\ c.by = "leader" => c.group = "in"
        /\ c.by = "helper" => helper'[o] # "none"
        /\ c.group = "out" => helper'[o] \in {"out", "mute", "dead"}
  BY DEF Met, Ageing, Away
<1>2. \A w : Parted(o, w) =>
        w.by = "helper" /\ (helper'[o] = "dead"
                              \/ (w.group = "in" /\ helper'[o] \in {"out", "mute"}))
  BY DEF Parted, Ageing, Away
<1>3. \A p \in Ports : \A n \in Nat : n <= socket[p] => n <= socket'[p]
  BY <1>t DEF Ageing
<1>4. ASSUME NEW p \in Ports, NEW w, w.socket \in Nat, w.socket <= socket[p], Lost(o, p, w)
      PROVE  \/ ~(holder'[p] = <<o, w.by>> /\ socket'[p] = w.socket)
             \/ Parted(o, w)
  <2>1. CASE ~Parted(o, w)
    <3>1. ~(holder[p] = <<o, w.by>> /\ socket[p] = w.socket)
      BY <1>4, <2>1 DEF Lost
    <3>2. <<o, w.by>> # Free
      BY ServiceAssumption DEF Free
    <3>3. CASE socket'[p] = socket[p] /\ holder'[p] \in {holder[p], Free}
      BY <3>1, <3>2, <3>3
    <3>4. CASE socket'[p] > socket[p] /\ socket'[p] \in Nat
      BY <1>4, <3>4, <1>t
    <3>5. QED
      BY <3>3, <3>4, <1>4 DEF Ageing
  <2>2. QED
    BY <2>1
<1>5. QED
  BY <1>1, <1>2, <1>3, <1>4

\* A witness that was met and is not held is lost.
LEMMA NotHeld ==
  ASSUME NEW o \in Owners, NEW p \in Endpoints(o), witness'[o][p] \in Witnesses,
         helper'[o] \in {"none", "in", "out", "mute", "dead"},
         Met(o, witness[o][p])', ~Held(o, p)'
  PROVE  Lost(o, p, witness[o][p])'
<1>1. /\ witness'[o][p].by \in {"leader", "helper"} /\ witness'[o][p].group \in {"in", "out"}
      /\ witness'[o][p].by = "leader" => witness'[o][p].group = "in"
      /\ witness'[o][p].by = "helper" => helper'[o] # "none"
      /\ witness'[o][p].group = "out" => helper'[o] \in {"out", "mute", "dead"}
  BY DEF Met, Witnesses
<1>2. ASSUME holder'[p] = <<o, witness'[o][p].by>>, socket'[p] = witness'[o][p].socket
      PROVE  Parted(o, witness[o][p])'
  <2>1. Group(o, witness[o][p].by)' # witness'[o][p].group
    BY <1>2 DEF Held
  <2>2. CASE witness'[o][p].by = "leader"
    BY <1>1, <2>1, <2>2 DEF Group
  <2>3. CASE witness'[o][p].by = "helper"
    BY <1>1, <2>1, <2>3 DEF Group, Parted, Away
  <2>4. QED
    BY <1>1, <2>2, <2>3
<1>3. QED
  BY <1>2 DEF Lost

\* The initial witnesses of a round, where a step keeps them and does not restart
\* the history.
LEMMA WitnessesAge ==
  ASSUME StateType, StateType', RInv, Steady, NEW o \in Owners, Ageing(o),
         witness'[o] = witness[o], Again(o), Probing(o)' => Probing(o)
  PROVE  /\ Again(o)'
         /\ \A p \in Endpoints(o) :
              /\ witness'[o][p] # None
              /\ Met(o, witness[o][p])' /\ witness'[o][p].socket <= socket'[p]
              /\ p \in steady'[o] \/ Lost(o, p, witness[o][p])'
         /\ steady'[o] \subseteq steady[o]
         /\ ~Probing(o)' => steady'[o] = steady[o]
<1>t. /\ RoundsType /\ HostType' /\ socket \in [Ports -> Nat] /\ Endpoints(o) \subseteq Ports
      /\ helper'[o] \in {"none", "in", "out", "mute", "dead"}
  BY TypeParts, KeysType DEF HostType, StateType
<1>w. witness[o] \in [Endpoints(o) -> Witnesses \cup {None}]
  BY <1>t DEF RoundsType, Sights
<1>1. Again(o)'
  BY DEF Again, Unseen, Endpoints
<1>2. /\ steady'[o] = IF Probing(o)' THEN {p \in steady[o] : Held(o, p)'} ELSE steady[o]
  BY <1>1, SteadyStep DEF Steadied
<1>3. ASSUME NEW p \in Endpoints(o)
      PROVE  /\ witness'[o][p] # None
             /\ Met(o, witness[o][p])' /\ witness'[o][p].socket <= socket'[p]
             /\ p \in steady'[o] \/ Lost(o, p, witness[o][p])'
  <2>1. /\ witness[o][p] # None /\ Met(o, witness[o][p])
        /\ witness[o][p].socket <= socket[p]
        /\ p \in steady[o] \/ Lost(o, p, witness[o][p])
    BY DEF RInv, Witnessing
  <2>2. /\ witness[o][p] \in Witnesses /\ witness[o][p].socket \in Nat /\ p \in Ports
        /\ witness'[o][p] = witness[o][p]
    BY <2>1, <1>w, <1>t DEF Witnesses
  <2>3. Met(o, witness[o][p])'
    <3>1. \A c : Met(o, c) =>
            /\ c.by = "leader" => c.group = "in"
            /\ c.by = "helper" => helper'[o] # "none"
            /\ c.group = "out" => helper'[o] \in {"out", "mute", "dead"}
      BY Aged
    <3>2. /\ witness[o][p].by = "leader" => witness[o][p].group = "in"
          /\ witness[o][p].by = "helper" => helper'[o] # "none"
          /\ witness[o][p].group = "out" => helper'[o] \in {"out", "mute", "dead"}
      BY <2>1, <3>1
    <3>3. QED
      BY <2>2, <3>2 DEF Met
  <2>4. witness'[o][p].socket <= socket'[p]
    BY <2>1, <2>2, Aged
  <2>5. ASSUME p \notin steady'[o]
        PROVE  Lost(o, p, witness[o][p])'
    <3>1. CASE p \in steady[o]
      <4>1. ~Held(o, p)'
        BY <1>2, <2>5, <3>1
      <4>2. QED
        BY <2>2, <2>3, <4>1, <1>t, NotHeld
    <3>2. CASE Lost(o, p, witness[o][p])
      <4>1. \/ ~(holder'[p] = <<o, witness[o][p].by>> /\ socket'[p] = witness[o][p].socket)
            \/ /\ witness[o][p].by = "helper"
               /\ helper'[o] = "dead"
                    \/ (witness[o][p].group = "in" /\ helper'[o] \in {"out", "mute"})
        BY <2>1, <2>2, <3>2, Aged
      <4>2. QED
        BY <2>2, <4>1 DEF Lost, Parted, Away
    <3>3. QED
      BY <2>1, <3>1, <3>2
  <2>6. QED
    BY <2>1, <2>2, <2>3, <2>4, <2>5
<1>4. steady'[o] \subseteq steady[o] /\ (~Probing(o)' => steady'[o] = steady[o])
  BY <1>2
<1>5. QED
  BY <1>1, <1>3, <1>4

\* What an observation has, where a step keeps it.
LEMMA ScansAge ==
  ASSUME StateType, StateType', RInv, Steady, NEW o \in Owners, Ageing(o)
  PROVE  /\ \A c \in queue[o] : pc[o] \in ScanPCs => Met(o, c)'
         /\ pc[o] \in InsidePCs /\ at'[o] = at[o] => Met(o, at[o])'
         /\ \A p \in Endpoints(o) : sighting[o][p] <= socket'[p]
         /\ \A p \in Endpoints(o) : found[o][p] # None /\ found'[o][p] = found[o][p] =>
              Met(o, found[o][p])' /\ found'[o][p].socket <= socket'[p]
         /\ steady'[o] \subseteq Endpoints(o)
<1>t. /\ RoundsType /\ socket \in [Ports -> Nat] /\ Endpoints(o) \subseteq Ports
      /\ sighting[o] \in [Endpoints(o) -> Nat]
      /\ found[o] \in [Endpoints(o) -> Witnesses \cup {None}]
  BY TypeParts, KeysType DEF HostType, RoundsType, Sights
<1>s. Scanning(o)
  BY DEF RInv
<1>a. \A c : Met(o, c) =>
        /\ c.by = "leader" => c.group = "in"
        /\ c.by = "helper" => helper'[o] # "none"
        /\ c.group = "out" => helper'[o] \in {"out", "mute", "dead"}
  BY Aged
<1>n. \A p \in Ports : \A n \in Nat : n <= socket[p] => n <= socket'[p]
  BY Aged
<1>1. \A c \in queue[o] : pc[o] \in ScanPCs => Met(o, c)'
  BY <1>s, <1>a DEF Scanning, Met
<1>2. pc[o] \in InsidePCs /\ at'[o] = at[o] => Met(o, at[o])'
  <2>1. pc[o] \in InsidePCs => Met(o, at[o])
    BY <1>s DEF Scanning
  <2>2. pc[o] \in InsidePCs =>
          /\ at[o].by = "leader" => at[o].group = "in"
          /\ at[o].by = "helper" => helper'[o] # "none"
          /\ at[o].group = "out" => helper'[o] \in {"out", "mute", "dead"}
    BY <2>1, <1>a
  <2>3. QED
    BY <2>2 DEF Met
<1>3. \A p \in Endpoints(o) : sighting[o][p] <= socket'[p]
  BY <1>s, <1>t, <1>n DEF Scanning
<1>4. ASSUME NEW p \in Endpoints(o), found[o][p] # None, found'[o][p] = found[o][p]
      PROVE  Met(o, found[o][p])' /\ found'[o][p].socket <= socket'[p]
  <2>1. /\ Met(o, found[o][p]) /\ found[o][p].socket <= socket[p] /\ found[o][p].socket \in Nat
        /\ p \in Ports
    BY <1>4, <1>s, <1>t DEF Scanning, Witnesses
  <2>2. /\ found[o][p].by = "leader" => found[o][p].group = "in"
        /\ found[o][p].by = "helper" => helper'[o] # "none"
        /\ found[o][p].group = "out" => helper'[o] \in {"out", "mute", "dead"}
    BY <2>1, <1>a
  <2>3. Met(o, found[o][p])'
    BY <1>4, <2>2 DEF Met
  <2>4. QED
    BY <1>4, <2>1, <2>3, <1>n
<1>5. steady'[o] \subseteq Endpoints(o)
  BY <1>s, SteadyStep DEF Steadied, Scanning
<1>6. QED
  BY <1>1, <1>2, <1>3, <1>4, <1>5

\* A step that leaves the round of an owner alone.
LEMMA RoundRests ==
  ASSUME StateType, StateType', RInv, Steady, NEW o \in Owners, Ageing(o), RoundsKept(o),
         pc'[o] = pc[o], attempt'[o] = attempt[o], probeRow'[o] = probeRow[o]
  PROVE  Scanning(o)' /\ Witnessing(o)'
<1>k. /\ queue'[o] = queue[o] /\ at'[o] = at[o] /\ sighting'[o] = sighting[o]
      /\ found'[o] = found[o] /\ witness'[o] = witness[o]
  BY DEF RoundsKept
<1>s. Scanning(o) /\ Witnessing(o)
  BY DEF RInv
<1>a. Again(o)' <=> Again(o)
  BY <1>k DEF Again, Unseen, Endpoints
<1>e. Endpoints(o)' = Endpoints(o) /\ Unseen(o)' = Unseen(o) /\ NoSight(o)' = NoSight(o)
  BY DEF Endpoints, Unseen, NoSight
<1>1. Scanning(o)'
  <2>1. \A c \in queue[o] : pc[o] \in ScanPCs => Met(o, c)'
    BY ScansAge
  <2>2. pc[o] \in InsidePCs => Met(o, at[o])'
    BY <1>k, ScansAge
  <2>3. \A p \in Endpoints(o) : sighting[o][p] <= socket'[p]
    BY ScansAge
  <2>4. \A p \in Endpoints(o) : found[o][p] # None =>
          Met(o, found[o][p])' /\ found'[o][p].socket <= socket'[p]
    BY <1>k, ScansAge
  <2>5. steady'[o] \subseteq Endpoints(o)
    BY ScansAge
  <2>6. QED
    BY <1>k, <1>s, <1>e, <2>1, <2>2, <2>3, <2>4, <2>5 DEF Scanning
<1>2. CASE Again(o)
  <2>1. Probing(o)' <=> Probing(o)
    BY <1>a DEF Probing
  <2>2. /\ \A p \in Endpoints(o) :
              /\ witness'[o][p] # None
              /\ Met(o, witness[o][p])' /\ witness'[o][p].socket <= socket'[p]
              /\ p \in steady'[o] \/ Lost(o, p, witness[o][p])'
        /\ ~Probing(o)' => steady'[o] = steady[o]
    BY <1>2, <1>k, <2>1, WitnessesAge
  <2>3. pc[o] \in LookPCs => \A k \in Probed(o) : Fresh(o, k)'
    BY <1>2, <1>s DEF Witnessing, Fresh, Credited
  <2>4. ASSUME pc[o] \in InsidePCs, NEW p \in Endpoints(o),
               sighting[o][p] # 0, sighting[o][p] = witness[o][p].socket,
               at[o].by = witness[o][p].by
        PROVE  p \in steady'[o] \/ Parted(o, witness[o][p])'
    <3>1. p \in steady[o] \/ Parted(o, witness[o][p])
      BY <1>2, <1>s, <2>4 DEF Witnessing
    <3>2. steady'[o] = steady[o]
      BY <2>1, <2>2, <2>4 DEF Probing, InsidePCs, ProbePCs
    <3>3. Parted(o, witness[o][p]) =>
            /\ witness[o][p].by = "helper"
            /\ helper'[o] = "dead"
                 \/ (witness[o][p].group = "in" /\ helper'[o] \in {"out", "mute"})
      BY Aged
    <3>4. QED
      BY <1>k, <3>1, <3>2, <3>3 DEF Parted, Away
  <2>5. ASSUME NEW p \in Endpoints(o), found[o][p] # None
        PROVE  p \in steady'[o]
    <3>1. p \in steady[o] /\ pc[o] \in ScanPCs
      BY <1>2, <1>s, <2>5 DEF Witnessing, Scanning, Unseen
    <3>2. QED
      BY <2>1, <2>2, <3>1 DEF Probing, ScanPCs, ProbePCs
  <2>6. \A k \in Probed(o)' : pc'[o] \in LookPCs => Fresh(o, k)'
    BY <2>3 DEF Probed, Keys
  <2>7. pc'[o] \in InsidePCs => \A p \in Endpoints(o)' :
          sighting'[o][p] # 0 /\ sighting'[o][p] = witness'[o][p].socket
            /\ at'[o].by = witness'[o][p].by =>
              p \in steady'[o] \/ Parted(o, witness[o][p])'
    BY <1>k, <1>e, <2>4
  <2>8. \A p \in Endpoints(o)' : found'[o][p] # None => p \in steady'[o]
    BY <1>k, <1>e, <2>5
  <2>9. QED
    BY <1>1, <1>e, <2>2, <2>6, <2>7, <2>8, Zenon DEF Witnessing
<1>3. CASE ~Again(o)
  <2>1. ~Again(o)'
    BY <1>3, <1>a
  <2>2. QED
    BY <1>1, <2>1 DEF Witnessing
<1>4. QED
  BY <1>1, <1>2, <1>3

\* A step that leaves no round.
LEMMA RoundEnds ==
  ASSUME StateType, StateType', RInv, Steady, NEW o \in Owners,
         pc'[o] \notin ScanPCs, witness'[o] = Unseen(o), found'[o] = Unseen(o),
         sighting'[o] = NoSight(o)
  PROVE  Scanning(o)' /\ Witnessing(o)'
<1>t. socket' \in [Ports -> Nat] /\ Endpoints(o) \subseteq Ports
  BY TypeParts, KeysType DEF HostType, StateType
<1>e. Endpoints(o)' = Endpoints(o) /\ Unseen(o)' = Unseen(o) /\ NoSight(o)' = NoSight(o)
  BY DEF Endpoints, Unseen, NoSight
<1>1. ~Again(o)'
  BY <1>e DEF Again
<1>2. steady'[o] \subseteq Endpoints(o)
  BY SteadyStep DEF Steadied, RInv, Scanning
<1>3. \A p \in Endpoints(o) : sighting'[o][p] = 0 /\ found'[o][p] = None
  BY DEF NoSight, Unseen
<1>4. Scanning(o)'
  BY <1>t, <1>e, <1>2, <1>3 DEF Scanning, ScanPCs, InsidePCs
<1>5. QED
  BY <1>1, <1>4 DEF Witnessing

\* What is left of a round that is forgotten.
LEMMA ForgetLeaves ==
  ASSUME RoundsType, NEW o \in Owners, Forget(o)
  PROVE  /\ witness'[o] = Unseen(o) /\ found'[o] = Unseen(o) /\ sighting'[o] = NoSight(o)
         /\ queue'[o] = {}
BY DEF RoundsType, Forget, Looked

\* The last credit of a round: its probes succeeded in it and none is left.
LEMMA LastCredit ==
  ASSUME StateType, NEW o \in Owners, Checking(o), Trying(o), Settling(o), CreditProbe(o),
         pc'[o] \in {"list", "commit"}
  PROVE  /\ \A k \in Probed(o) : Fresh(o, k)
         /\ probe[o] = "none" /\ attempt' = attempt /\ probeRow' = probeRow
         /\ pc'[o] = "commit" => Endpoints(o) = {}
<1>t. ControlType /\ ProbesType /\ todo[o] \in Seq(Ports \cup {None})
  BY TypeParts DEF ControlType
<1>1. /\ pc[o] = "credit" /\ UNCHANGED <<probeRow, attempt>>
      /\ probeRow[o][key[o]].owned = "settled" /\ result[o] = "passed"
      /\ probeRow[o][key[o]].outcome = "passed" /\ Tail(todo[o]) = <<>>
      /\ pc'[o] = "commit" => Endpoints(o) = {}
  BY <1>t, CreditProbeEffect
<1>2. /\ todo[o] # <<>> /\ key[o] = Head(todo[o]) /\ key[o] \in Probed(o)
      /\ \A k \in Probed(o) : k \in Elements(todo[o]) \/ Fresh(o, k)
      /\ probeRow[o][key[o]].attempt = attempt[o]
      /\ probeRow[o][key[o]].status = Verdict(o)
  BY <1>1, <1>t DEF Checking, Trying, RunPCs, ProbesType
<1>3. Elements(todo[o]) = {key[o]}
  <2>1. Elements(todo[o]) = {Head(todo[o])} \cup Elements(Tail(todo[o]))
    BY <1>t, <1>2, TailLoses
  <2>2. Elements(<<>>) = {}
    BY DEF Elements
  <2>3. QED
    BY <1>1, <1>2, <2>1, <2>2
<1>4. Fresh(o, key[o])
  BY <1>1, <1>2 DEF Fresh, Credited, Verdict
<1>5. probe[o] = "none"
  BY <1>1, <1>2 DEF Settling
<1>6. QED
  BY <1>1, <1>2, <1>3, <1>4, <1>5

\* The round of an owner, in a step of its probe.
LEMMA ProbeRounds ==
  ASSUME SInv, SInv', RInv, Steady, NEW o \in Owners, ProbeStep(o)
  PROVE  Scanning(o)' /\ Witnessing(o)'
<1>t. /\ StateType /\ StateType' /\ ControlType /\ RoundsType /\ RoundsType'
      /\ Checking(o) /\ Trying(o) /\ Settling(o)
      /\ Scanning(o) /\ Witnessing(o)
  BY TypeParts DEF SInv, OwnerInv, RInv
<1>p. /\ pc[o] \in RunPCs \cup {"probe"}
      /\ pc'[o] \in RunPCs \cup {"probe", "list", "commit", "wait", "contain"}
  BY <1>t, ProbeControl
<1>q. /\ pc[o] \in ProbePCs /\ pc[o] \notin ScanPCs
      /\ pc'[o] \notin ScanPCs
      /\ pc'[o] \in ProbePCs \cup {"list", "commit", "wait", "contain"}
      /\ pc'[o] \in LookPCs => pc'[o] = "list"
      /\ pc[o] \notin {"list", "commit"}
  BY <1>p DEF RunPCs, ProbePCs, ScanPCs, LookPCs
<1>v. found[o] = Unseen(o) /\ sighting[o] = NoSight(o)
  BY <1>t, <1>q DEF Scanning, ScanPCs, InsidePCs
<1>g. Ageing(o)
  BY <1>t, OwnerAgeing DEF Moving, OwnerStep
<1>1. CASE Forget(o)
  BY <1>1, <1>t, <1>q, ForgetLeaves, RoundEnds
<1>2. CASE UNCHANGED rounds
  <2>k. /\ queue' = queue /\ at' = at /\ sighting' = sighting /\ found' = found
        /\ witness' = witness
    BY <1>2 DEF rounds
  <2>1. CASE ~Again(o)
    BY <1>t, <1>q, <1>v, <2>1, <2>k, RoundEnds DEF Again
  <2>2. CASE Again(o)
    <3>1. Probing(o)
      BY <1>q DEF Probing
    <3>2. /\ Again(o)'
          /\ \A p \in Endpoints(o) :
              /\ witness'[o][p] # None
              /\ Met(o, witness[o][p])' /\ witness'[o][p].socket <= socket'[p]
              /\ p \in steady'[o] \/ Lost(o, p, witness[o][p])'
      BY <1>t, <1>g, <2>2, <2>k, <3>1, WitnessesAge
    <3>e. /\ Endpoints(o)' = Endpoints(o) /\ Unseen(o)' = Unseen(o)
          /\ NoSight(o)' = NoSight(o) /\ Probed(o)' = Probed(o)
      BY DEF Endpoints, Unseen, NoSight, Probed, Keys
    <3>l. pc'[o] \in {"list", "commit"} => CreditProbe(o)
      <4>1. StartProbe(o) \/ AdmitProbe(o) \/ FinishProbe(o) \/ RecordProbe(o) \/ WatchProbe(o)
              => pc'[o] \notin {"list", "commit"}
        BY <1>t DEF StartProbe, AdmitProbe, WatchProbe, FinishProbe, RecordProbe, Goto,
                    ControlType
      <4>2. ProbeFails(o) => pc'[o] \notin {"list", "commit"}
        BY <1>t, FailStep DEF ProbeFails, Depart
      <4>3. QED
        BY <4>1, <4>2 DEF ProbeStep
    <3>3. pc'[o] \notin {"commit", "wait", "contain"}
      <4>1. pc'[o] # "commit"
        <5>1. ASSUME pc'[o] = "commit" PROVE FALSE
          <6>1. Endpoints(o) = {}
            BY <1>t, <3>l, <5>1, LastCredit
          <6>2. witness[o] \in [Endpoints(o) -> Witnesses \cup {None}]
            BY <1>t DEF RoundsType, Sights
          <6>3. witness[o] = Unseen(o)
            BY <6>1, <6>2 DEF Unseen
          <6>4. QED
            BY <2>2, <6>3 DEF Again
        <5>2. QED
          BY <5>1
      <4>2. ASSUME pc'[o] \in {"wait", "contain"} PROVE FALSE
        <5>1. StartProbe(o) \/ AdmitProbe(o) \/ FinishProbe(o) \/ RecordProbe(o)
                \/ WatchProbe(o) => pc'[o] \notin {"wait", "contain"}
          BY <1>t DEF StartProbe, AdmitProbe, WatchProbe, FinishProbe, RecordProbe, Goto,
                      ControlType
        <5>2. ProbeFails(o) => Forget(o)
          BY DEF ProbeFails
        <5>3. CreditProbe(o) /\ ~Forget(o) => pc'[o] \notin {"wait", "contain"}
          BY <1>t DEF CreditProbe, Goto, ControlType
        <5>4. ~Forget(o)
          <6>1. Forget(o) => witness'[o] = Unseen(o)
            BY <1>t, ForgetLeaves
          <6>2. QED
            BY <2>2, <2>k, <6>1 DEF Again
        <5>5. QED
          BY <4>2, <5>1, <5>2, <5>3, <5>4 DEF ProbeStep
      <4>3. QED
        BY <4>1, <4>2
    <3>4. Scanning(o)'
      <4>1. steady'[o] \subseteq Endpoints(o)
        BY <1>t, <1>g, ScansAge
      <4>2. \A p \in Endpoints(o) : sighting[o][p] <= socket'[p]
        BY <1>t, <1>g, ScansAge
      <4>3. \A p \in Endpoints(o) : found'[o][p] = None
        BY <1>v, <2>k DEF Unseen
      <4>4. pc'[o] \in LookPCs \cup ProbePCs /\ pc'[o] \notin InsidePCs
        BY <1>q, <3>3 DEF LookPCs, ScanPCs, InsidePCs
      <4>5. QED
        BY <1>q, <1>v, <2>k, <3>e, <4>1, <4>2, <4>3, <4>4 DEF Scanning
    <3>5. \A k \in Probed(o)' : pc'[o] \in LookPCs => Fresh(o, k)'
      <4>1. ASSUME pc'[o] = "list"
            PROVE  \A k \in Probed(o) : Fresh(o, k)'
        <5>1. /\ \A k \in Probed(o) : Fresh(o, k)
              /\ attempt' = attempt /\ probeRow' = probeRow
          BY <1>t, <3>l, <4>1, LastCredit
        <5>2. QED
          BY <5>1 DEF Fresh, Credited
      <4>2. QED
        BY <1>q, <3>e, <4>1
    <3>6. /\ pc'[o] \notin InsidePCs
          /\ \A p \in Endpoints(o)' : found'[o][p] # None => p \in steady'[o]
      BY <1>q, <1>v, <2>k, <3>e DEF ScanPCs, InsidePCs, Unseen
    <3>7. QED
      BY <3>2, <3>e, <3>4, <3>5, <3>6, Zenon DEF Witnessing
  <2>3. QED
    BY <2>1, <2>2
<1>3. QED
  BY <1>1, <1>2, ScopeOfSteps DEF ProbeStep, ProbeFails, CreditProbe

\* A step of an owner that is neither of its observation nor of its probe.
LEMMA QuietRounds ==
  ASSUME SInv, SInv', RInv, Steady, NEW o \in Owners, Moving(o),
         ~(CheckStep(o) /\ Look(o)), ~ProbeStep(o)
  PROVE  Scanning(o)' /\ Witnessing(o)'
<1>t. /\ StateType /\ StateType' /\ ControlType /\ RoundsType /\ Checking(o) /\ Scanning(o)
      /\ pc \in [Owners -> PCs]
  BY TypeParts DEF SInv, OwnerInv, RInv, ControlType
<1>1. CASE Crash(o)
  <2>1. Forget(o) /\ pc'[o] = "crashed"
    BY <1>1, <1>t, Moves DEF Crash
  <2>2. QED
    BY <1>t, <2>1, ForgetLeaves, RoundEnds DEF ScanPCs
<1>2. CASE ~Crash(o)
  <2>1. /\ pc[o] \notin LookPCs \cup ProbePCs
        /\ pc'[o] \notin ScanPCs
    <3>1. CASE CheckStep(o)
      <4>1. pc[o] \in {"round", "wait", "commit", "write"}
        BY <3>1 DEF CheckStep, Round, Wait, Commit, CheckFails
      <4>2. Round(o) \/ Wait(o) \/ Commit(o) => pc'[o] \notin ScanPCs
        BY <1>t DEF Round, Wait, Commit, Goto, ScanPCs
      <4>3. CheckFails(o) => pc'[o] \notin ScanPCs
        BY <1>t, FailStep DEF CheckFails, Depart, ScanPCs
      <4>4. QED
        BY <3>1, <4>1, <4>2, <4>3 DEF CheckStep, LookPCs, ProbePCs
    <3>2. CASE Prelaunch(o) \/ PrepareEnds(o)
      <4>1. /\ pc[o] \in BarePCs \ {"absent"}
            /\ pc'[o] \in (BarePCs \ {"absent"}) \cup {"refused"}
        BY <1>t, <3>2, Moves
      <4>2. QED
        BY <4>1 DEF BarePCs, LookPCs, ProbePCs, ScanPCs
    <3>3. CASE \/ SpawnGate(o) \/ Register(o) \/ RegisterFails(o) \/ WriteCheck(o)
               \/ Unguard(o) \/ Release(o) \/ Launched(o) \/ LaunchFails(o) \/ Grace(o)
      <4>1. /\ pc[o] \in {"spawn", "register", "write", "unguard", "release", "launch",
                          "grace"}
            /\ pc'[o] \in {"register", "release", "refused", "unguard", "up", "round",
                           "launch", "grace", "contain"}
        BY <1>t, <3>3, Moves
      <4>2. QED
        BY <4>1 DEF LookPCs, ProbePCs, ScanPCs
    <3>4. CASE Choose(o) \/ Stop(o) \/ Contain(o) \/ Capture(o) \/ Settle(o) \/ Drop(o)
      <4>1. /\ pc[o] \in {"up", "stop", "contain", "capture", "settle", "drop"}
            /\ pc'[o] \in {"stop", "contain", "capture", "settle", "drop", "ended"}
        BY <1>t, <3>4, Moves
      <4>2. QED
        BY <4>1 DEF LookPCs, ProbePCs, ScanPCs
    <3>5. QED
      BY <1>2, <3>1, <3>2, <3>3, <3>4, Zenon DEF Moving, OwnerStep
  <2>2. witness[o] = Unseen(o) /\ found[o] = Unseen(o) /\ sighting[o] = NoSight(o)
    BY <1>t, <2>1 DEF Scanning, LookPCs, ScanPCs, InsidePCs
  <2>3. CASE UNCHANGED rounds
    BY <1>t, <2>1, <2>2, <2>3, RoundEnds DEF rounds
  <2>4. CASE Forget(o)
    BY <1>t, <2>1, <2>4, ForgetLeaves, RoundEnds
  <2>5. ~Look(o)
    BY <1>t, <2>1, LookControl
  <2>6. QED
    BY <2>3, <2>4, <2>5, ScopeOfSteps
<1>3. QED
  BY <1>1, <1>2

\* What a step of an observation that goes on keeps of the round.
LEMMA LookKeeps ==
  ASSUME SInv, SInv', RInv, Steady, NEW o \in Owners, CheckStep(o), Look(o),
         pc'[o] \in ScanPCs, witness' = witness, attempt' = attempt
  PROVE  /\ \A c : Met(o, c)' <=> Met(o, c)
         /\ \A w : Parted(o, w)' <=> Parted(o, w)
         /\ socket' = socket
         /\ steady'[o] \subseteq Endpoints(o)
         /\ Again(o)' => Again(o)
         /\ Again(o)' =>
              /\ steady'[o] = steady[o]
              /\ \A p \in Endpoints(o) :
                   /\ witness'[o][p] # None
                   /\ Met(o, witness[o][p])' /\ witness'[o][p].socket <= socket'[p]
                   /\ p \in steady'[o] \/ Lost(o, p, witness[o][p])'
              /\ \A k \in Probed(o)' : Fresh(o, k)'
<1>t. /\ StateType /\ StateType' /\ ControlType /\ Witnessing(o)
  BY TypeParts DEF SInv, OwnerInv, RInv
<1>u. UNCHANGED <<tree, sockets>> /\ UNCHANGED probes
  BY DEF CheckStep, Look
<1>g. Ageing(o)
  BY <1>t, OwnerAgeing DEF Moving, OwnerStep
<1>1. (\A c : Met(o, c)' <=> Met(o, c)) /\ (\A w : Parted(o, w)' <=> Parted(o, w))
  BY <1>u DEF Met, Parted, Away, tree
<1>2. socket' = socket /\ probeRow' = probeRow
  BY <1>u DEF sockets, probes
<1>3. steady'[o] \subseteq Endpoints(o)
  BY <1>t, <1>g, ScansAge
<1>4. Again(o)' => Again(o)
  BY DEF Again, Unseen, Endpoints
<1>5. ~Probing(o)'
  BY DEF Probing, ScanPCs, ProbePCs
<1>6. ASSUME Again(o)
      PROVE  /\ steady'[o] = steady[o]
             /\ \A p \in Endpoints(o) :
                  /\ witness'[o][p] # None
                  /\ Met(o, witness[o][p])' /\ witness'[o][p].socket <= socket'[p]
                  /\ p \in steady'[o] \/ Lost(o, p, witness[o][p])'
  BY <1>t, <1>g, <1>5, <1>6, WitnessesAge
<1>7. ASSUME Again(o)
      PROVE  \A k \in Probed(o)' : Fresh(o, k)'
  <2>1. pc[o] \in LookPCs
    BY <1>t, LookControl
  <2>2. \A k \in Probed(o) : Fresh(o, k)
    BY <1>t, <1>7, <2>1 DEF Witnessing
  <2>3. QED
    BY <1>2, <2>2 DEF Fresh, Credited, Probed, Keys
<1>8. QED
  BY <1>1, <1>2, <1>3, <1>4, <1>6, <1>7

\* The round of an owner, in a step of an observation that goes on: the candidates
\* were there when they were listed, a socket that is seen to be the witness's
\* was held, and a candidate that moved lends nothing.
LEMMA LookGoesOn ==
  ASSUME SInv, SInv', RInv, Steady, NEW o \in Owners, CheckStep(o), Look(o),
         List(o) \/ Inspect(o) \/ Sight(o) \/ Dump(o) \/ Recheck(o) \/ Admit(o)
  PROVE  Scanning(o)' /\ Witnessing(o)'
<1>t. /\ StateType /\ ControlType /\ RoundsType /\ RoundsType' /\ Checking(o)
      /\ Scanning(o) /\ Witnessing(o) /\ pc \in [Owners -> PCs]
      /\ socket \in [Ports -> Nat] /\ Endpoints(o) \subseteq Ports
      /\ sighting[o] \in [Endpoints(o) -> Nat] /\ sighting'[o] \in [Endpoints(o) -> Nat]
      /\ found[o] \in [Endpoints(o) -> Witnesses \cup {None}]
  BY TypeParts, KeysType DEF SInv, OwnerInv, RInv, ControlType, HostType, RoundsType, Sights,
                            Endpoints
<1>e. /\ Endpoints(o)' = Endpoints(o) /\ Unseen(o)' = Unseen(o)
      /\ NoSight(o)' = NoSight(o)
  BY DEF Endpoints, Unseen, NoSight
<1>p. pc'[o] \in ScanPCs /\ witness' = witness /\ attempt' = attempt
  BY <1>t DEF List, Inspect, Sight, Dump, Recheck, Admit, Goto, driver, ScanPCs
<1>u. UNCHANGED tree
  BY DEF CheckStep
<1>k. /\ \A c : Met(o, c)' <=> Met(o, c)
      /\ \A w : Parted(o, w)' <=> Parted(o, w)
      /\ socket' = socket
      /\ steady'[o] \subseteq Endpoints(o)
      /\ Again(o)' => Again(o)
  BY <1>p, LookKeeps
<1>w. Again(o)' =>
        /\ steady'[o] = steady[o]
        /\ \A p \in Endpoints(o) :
             /\ witness'[o][p] # None
             /\ Met(o, witness[o][p])' /\ witness'[o][p].socket <= socket'[p]
             /\ p \in steady'[o] \/ Lost(o, p, witness[o][p])'
        /\ \A k \in Probed(o)' : Fresh(o, k)'
  BY <1>p, LookKeeps
\* What each of these steps has still to show.
<1> DEFINE Listed == \A c \in queue'[o] : Met(o, c)
           Inside == IF pc'[o] \in InsidePCs THEN Met(o, at'[o]) ELSE sighting'[o] = NoSight(o)
           Seen   == \A p \in Endpoints(o) : sighting'[o][p] <= socket[p]
           Found  == \A p \in Endpoints(o) :
                       found'[o][p] # None =>
                         /\ Met(o, found'[o][p])
                         /\ found'[o][p].socket <= socket[p]
                         /\ Again(o) => p \in steady[o]
           Agrees == Again(o) /\ pc'[o] \in InsidePCs => \A p \in Endpoints(o) :
                       sighting'[o][p] # 0 /\ sighting'[o][p] = witness[o][p].socket
                         /\ at'[o].by = witness[o][p].by =>
                           p \in steady[o] \/ Parted(o, witness[o][p])
<1>a. Again(o) =>
        /\ \A p \in Endpoints(o) : p \in steady[o] \/ Lost(o, p, witness[o][p])
        /\ pc[o] \in InsidePCs => \A p \in Endpoints(o) :
             sighting[o][p] # 0 /\ sighting[o][p] = witness[o][p].socket
               /\ at[o].by = witness[o][p].by =>
                 p \in steady[o] \/ Parted(o, witness[o][p])
        /\ \A p \in Endpoints(o) : found[o][p] # None => p \in steady[o]
  BY <1>t DEF Witnessing
<1>f. \A p \in Endpoints(o) : found[o][p] # None =>
        /\ Met(o, found[o][p]) /\ found[o][p].socket <= socket[p]
        /\ Again(o) => p \in steady[o]
  BY <1>t, <1>a DEF Scanning
<1>1. ASSUME List(o)
      PROVE  Listed /\ Inside /\ Seen /\ Found /\ Agrees
  <2>1. /\ pc[o] = "list" /\ pc'[o] = "look" /\ queue'[o] = Candidates(o)
        /\ UNCHANGED <<at, sighting, found>>
    BY <1>1, <1>t DEF List, Goto, RoundsType
  <2>2. \A c \in Candidates(o) : Met(o, c)
    BY DEF Candidates, Met, Tree, Lives, Group, HelperLives, Away
  <2>3. sighting[o] = NoSight(o) /\ found[o] = Unseen(o)
    BY <1>t, <2>1 DEF Scanning, ScanPCs, InsidePCs
  <2>4. Listed /\ Inside /\ Seen /\ Found /\ Agrees
    BY <1>t, <1>f, <2>1, <2>2, <2>3 DEF InsidePCs, Scanning
  <2>5. QED
    BY <2>4
<1>2. ASSUME Inspect(o)
      PROVE  Listed /\ Inside /\ Seen /\ Found /\ Agrees
  <2>1. pc[o] = "look" /\ UNCHANGED <<sighting, found>>
    BY <1>2 DEF Inspect
  <2>2. /\ queue'[o] \subseteq queue[o]
        /\ \/ pc'[o] = "sight" /\ at'[o] \in queue[o]
           \/ pc'[o] = "look"
    BY <1>2, <1>t DEF Inspect, Goto, RoundsType
  <2>3. \A c \in queue[o] : Met(o, c)
    BY <1>t, <2>1 DEF Scanning, ScanPCs
  <2>4. sighting[o] = NoSight(o)
    BY <1>t, <2>1 DEF Scanning, InsidePCs
  <2>5. Listed /\ Inside /\ Seen /\ Found
    BY <1>t, <1>f, <2>1, <2>2, <2>3, <2>4 DEF InsidePCs, Scanning
  <2>6. Agrees
    BY <2>1, <2>4 DEF NoSight
  <2>7. QED
    BY <2>5, <2>6
<1>3. ASSUME Sight(o) \/ Recheck(o) \/ Dump(o)
      PROVE  Listed /\ Inside /\ Seen /\ Found /\ Agrees
  <2>1. /\ pc[o] \in InsidePCs /\ pc'[o] \in InsidePCs
        /\ UNCHANGED <<queue, at, found>>
    BY <1>3, <1>t DEF Sight, Recheck, Dump, Goto, driver, InsidePCs
  <2>2. \A p \in Endpoints(o) : sighting'[o][p] \in {SocketAt(o, p), sighting[o][p], 0}
    BY <1>3, <1>t DEF Sight, Recheck, Dump, RoundsType
  <2>3. /\ \A c \in queue[o] : Met(o, c)
        /\ Met(o, at[o])
        /\ \A p \in Endpoints(o) : sighting[o][p] <= socket[p]
    BY <1>t, <2>1 DEF Scanning, InsidePCs, ScanPCs
  <2>4. Listed /\ Inside /\ Found
    BY <1>f, <2>1, <2>3
  <2>5. Seen
    BY <1>t, <2>2, <2>3 DEF SocketAt
  <2>6. Agrees
    <3>1. SUFFICES ASSUME Again(o), NEW p \in Endpoints(o),
                          sighting'[o][p] # 0, sighting'[o][p] = witness[o][p].socket,
                          at[o].by = witness[o][p].by
                   PROVE  p \in steady[o] \/ Parted(o, witness[o][p])
      BY <2>1
    <3>2. CASE sighting'[o][p] = sighting[o][p]
      BY <1>a, <2>1, <3>1, <3>2
    <3>3. CASE sighting'[o][p] = SocketAt(o, p)
      <4>1. holder[p] = <<o, witness[o][p].by>> /\ socket[p] = witness[o][p].socket
        BY <3>1, <3>3 DEF SocketAt
      <4>2. QED
        BY <1>a, <3>1, <4>1 DEF Lost
    <3>4. QED
      BY <2>2, <3>1, <3>2, <3>3
  <2>7. QED
    BY <2>4, <2>5, <2>6
<1>4. ASSUME Admit(o)
      PROVE  Listed /\ Inside /\ Seen /\ Found /\ Agrees
  <2>1. /\ pc[o] = "recheck" /\ pc'[o] = "look" /\ ~Moved(o, at[o])
        /\ queue' = queue /\ sighting'[o] = NoSight(o)
        /\ \A p \in Endpoints(o) :
             found'[o][p] = IF Lives(o, at[o].by) /\ Establishes(o, p)
                            THEN WitnessAt(o, p) ELSE found[o][p]
    BY <1>4, <1>t DEF Admit, Goto, RoundsType
  <2>2. /\ \A c \in queue[o] : Met(o, c)
        /\ Met(o, at[o]) /\ at[o] \in Tree
        /\ \A p \in Endpoints(o) : sighting[o][p] <= socket[p]
    BY <1>t, <2>1 DEF Scanning, Checking, InsidePCs, ScanPCs
  <2>3. Listed /\ Inside /\ Seen /\ Agrees
    BY <1>t, <2>1, <2>2 DEF InsidePCs, NoSight
  <2>4. ASSUME NEW p \in Endpoints(o), Lives(o, at[o].by), Establishes(o, p)
        PROVE  /\ Met(o, WitnessAt(o, p)) /\ WitnessAt(o, p).socket <= socket[p]
               /\ Again(o) => p \in steady[o]
    <3>1. Met(o, WitnessAt(o, p)) /\ WitnessAt(o, p).socket <= socket[p]
      BY <2>2 DEF Met, WitnessAt
    <3>2. ASSUME Again(o) PROVE p \in steady[o]
      <4>1. /\ sighting[o][p] # 0 /\ witness[o][p].socket = sighting[o][p]
            /\ witness[o][p].by = at[o].by /\ witness[o][p].group = at[o].group
        BY <2>4, <3>2 DEF Establishes, SameListener, WitnessAt
      <4>2. p \in steady[o] \/ Parted(o, witness[o][p])
        BY <1>a, <2>1, <3>2, <4>1 DEF InsidePCs
      <4>3. ~Parted(o, witness[o][p])
        BY <2>1, <2>4, <4>1 DEF Parted, Moved, Lives, Group, HelperLives, Away
      <4>4. QED
        BY <4>2, <4>3
    <3>3. QED
      BY <3>1, <3>2
  <2>5. Found
    BY <1>f, <2>1, <2>4
  <2>6. QED
    BY <2>3, <2>5
<1>5. Listed /\ Inside /\ Seen /\ Found /\ Agrees
  BY <1>1, <1>2, <1>3, <1>4
<1>6. Scanning(o)'
  <2>1. \A c \in queue'[o] : Met(o, c)'
    BY <1>k, <1>5
  <2>2. /\ pc'[o] \in InsidePCs => Met(o, at[o])'
        /\ pc'[o] \notin InsidePCs => sighting'[o] = NoSight(o)
    BY <1>5, <1>u DEF Met, tree
  <2>3. \A p \in Endpoints(o) : sighting'[o][p] <= socket'[p]
    BY <1>k, <1>5
  <2>4. \A p \in Endpoints(o) : found'[o][p] # None =>
          Met(o, found[o][p])' /\ found'[o][p].socket <= socket'[p]
    <3>1. \A p \in Endpoints(o) : Met(o, found'[o][p]) => Met(o, found[o][p])'
      BY <1>u DEF Met, tree
    <3>2. QED
      BY <1>k, <1>5, <3>1
  <2>5. pc'[o] \in LookPCs \cup ProbePCs
    BY <1>p DEF ScanPCs, LookPCs
  <2>6. QED
    BY <1>e, <1>k, <1>p, <2>1, <2>2, <2>3, <2>4, <2>5 DEF Scanning
<1>7. Witnessing(o)'
  <2>1. CASE Again(o)'
    <3>1. Again(o)
      BY <1>k, <2>1
    <3>2. pc'[o] \in InsidePCs => \A p \in Endpoints(o) :
            sighting'[o][p] # 0 /\ sighting'[o][p] = witness'[o][p].socket
              /\ at'[o].by = witness'[o][p].by =>
                p \in steady'[o] \/ Parted(o, witness[o][p])'
      <4>1. \A p \in Endpoints(o) : Parted(o, witness[o][p]) => Parted(o, witness[o][p])'
        BY <1>u, <1>p DEF Parted, Away, tree
      <4>2. QED
        BY <1>p, <1>w, <1>5, <2>1, <3>1, <4>1
    <3>3. \A p \in Endpoints(o) : found'[o][p] # None => p \in steady'[o]
      BY <1>w, <1>5, <2>1, <3>1
    <3>4. QED
      BY <1>e, <1>w, <2>1, <3>2, <3>3, Zenon DEF Witnessing
  <2>2. CASE ~Again(o)'
    BY <2>2 DEF Witnessing
  <2>3. QED
    BY <2>1, <2>2
<1>8. QED
  BY <1>6, <1>7

\* The end of the first observation: every listener it has is of a process that was
\* met there, and what is not held already is lost.
LEMMA InitialRounds ==
  ASSUME SInv, SInv', RInv, Steady, NEW o \in Owners, CheckStep(o), Look(o),
         pc[o] = "look", Initial(o)
  PROVE  Scanning(o)' /\ Witnessing(o)'
<1>t. /\ StateType /\ StateType' /\ ControlType /\ RoundsType /\ Scanning(o)
      /\ pc \in [Owners -> PCs] /\ socket \in [Ports -> Nat] /\ Endpoints(o) \subseteq Ports
      /\ found[o] \in [Endpoints(o) -> Witnesses \cup {None}]
      /\ helper'[o] \in {"none", "in", "out", "mute", "dead"}
  BY TypeParts, KeysType DEF SInv, RInv, ControlType, HostType, RoundsType, Sights
<1>e. /\ Endpoints(o)' = Endpoints(o) /\ Unseen(o)' = Unseen(o)
      /\ NoSight(o)' = NoSight(o)
  BY DEF Endpoints, Unseen, NoSight
<1>u. UNCHANGED <<tree, sockets>>
  BY DEF CheckStep
<1>1. /\ pc'[o] = "probe" /\ witness'[o] = found[o]
      /\ found'[o] = Unseen(o) /\ sighting'[o] = NoSight(o)
      /\ Complete(o, found[o])
  BY <1>t DEF Initial, Looked, Goto, RoundsType
<1>2. ~Probing(o) /\ Probing(o)'
  BY <1>1 DEF Probing, ProbePCs
<1>3. steady'[o] = {p \in Endpoints(o) : Held(o, p)'}
  BY <1>2, SteadyStep DEF Steadied
<1>4. Scanning(o)'
  <2>1. \A p \in Endpoints(o) : sighting'[o][p] <= socket'[p]
    BY <1>1, <1>t, <1>u DEF NoSight, sockets
  <2>2. \A p \in Endpoints(o) : found'[o][p] = None
    BY <1>1 DEF Unseen
  <2>3. steady'[o] \subseteq Endpoints(o)
    BY <1>3
  <2>4. QED
    BY <1>1, <1>e, <2>1, <2>2, <2>3 DEF Scanning, ScanPCs, InsidePCs, ProbePCs
<1>5. ASSUME NEW p \in Endpoints(o)
      PROVE  /\ witness'[o][p] # None
             /\ Met(o, witness[o][p])' /\ witness'[o][p].socket <= socket'[p]
             /\ p \in steady'[o] \/ Lost(o, p, witness[o][p])'
  <2>1. /\ found[o][p] # None /\ Met(o, found[o][p]) /\ found[o][p].socket <= socket[p]
        /\ witness'[o][p] = found[o][p] /\ witness'[o][p] \in Witnesses
    BY <1>1, <1>t DEF Complete, Scanning
  <2>2. Met(o, witness[o][p])'
    BY <2>1, <1>u DEF Met, tree
  <2>3. witness'[o][p].socket <= socket'[p]
    BY <2>1, <1>u DEF sockets
  <2>4. ~Held(o, p)' => Lost(o, p, witness[o][p])'
    BY <1>t, <2>1, <2>2, NotHeld
  <2>5. QED
    BY <1>3, <2>1, <2>2, <2>3, <2>4
<1>6. Witnessing(o)'
  <2>1. pc'[o] \notin LookPCs /\ pc'[o] \notin InsidePCs
    BY <1>1 DEF LookPCs, InsidePCs
  <2>2. \A p \in Endpoints(o) : found'[o][p] = None
    BY <1>1 DEF Unseen
  <2>3. QED
    BY <1>e, <1>5, <2>1, <2>2, Zenon DEF Witnessing
<1>7. QED
  BY <1>4, <1>6

\* The round of an owner, in a step of its observation.
LEMMA LookRounds ==
  ASSUME SInv, SInv', RInv, Steady, NEW o \in Owners, CheckStep(o), Look(o)
  PROVE  Scanning(o)' /\ Witnessing(o)'
<1>t. StateType /\ StateType' /\ ControlType /\ RoundsType
  BY TypeParts DEF SInv
<1>1. CASE List(o) \/ Inspect(o) \/ Sight(o) \/ Dump(o) \/ Recheck(o) \/ Admit(o)
  BY <1>1, LookGoesOn
<1>2. CASE pc[o] = "look" /\ Initial(o)
  BY <1>2, InitialRounds
<1>3. CASE LookFails(o) \/ Final(o) \/ Missing(o)
  <2>1. Forget(o)
    BY <1>3 DEF LookFails, Final, Missing
  <2>2. pc'[o] \in {"contain", "commit", "wait"}
    <3>1. Final(o) => pc'[o] = "commit"
      BY <1>t DEF Final, Goto, ControlType
    <3>2. LookFails(o) => pc'[o] = "contain"
      BY <1>t, FailStep DEF LookFails
    <3>3. Missing(o) => pc'[o] \in {"wait", "contain"}
      BY <1>t, RetryStep DEF Missing
    <3>4. QED
      BY <1>3, <3>1, <3>2, <3>3
  <2>3. QED
    BY <1>t, <2>1, <2>2, ForgetLeaves, RoundEnds DEF ScanPCs
<1>4. QED
  BY <1>1, <1>2, <1>3 DEF Look, Conclude

\* The round of any owner, in a step of one of them.
LEMMA OwnerRounds ==
  ASSUME SInv, SInv', RInv, Steady, NEW o \in Owners, Moving(o), NEW q \in Owners
  PROVE  Scanning(q)' /\ Witnessing(q)'
<1>t. StateType /\ StateType' /\ Checking(o) /\ Trying(o)
  BY DEF SInv, OwnerInv
<1>1. CASE q = o
  <2>1. CASE CheckStep(o) /\ Look(o)
    BY <1>1, <2>1, LookRounds
  <2>2. CASE ProbeStep(o)
    BY <1>1, <2>2, ProbeRounds
  <2>3. CASE ~(CheckStep(o) /\ Look(o)) /\ ~ProbeStep(o)
    BY <1>1, <2>3, QuietRounds
  <2>4. QED
    BY <2>1, <2>2, <2>3
<1>2. CASE q # o
  <2>1. ControlKept(q) /\ OthersKept(q)
    BY <1>t, <1>2, OwnerTypes
  <2>2. /\ RoundsKept(q) /\ pc'[q] = pc[q] /\ attempt'[q] = attempt[q]
        /\ probeRow'[q] = probeRow[q]
    BY <2>1 DEF ControlKept, OthersKept
  <2>3. Ageing(q)
    BY <1>t, OwnerAgeing
  <2>4. QED
    BY <1>t, <2>2, <2>3, RoundRests
<1>3. QED
  BY <1>1, <1>2

\* ... in a step of the host, and in a request to cancel.
LEMMA OutsideRounds ==
  ASSUME SInv, SInv', RInv, Steady, HostStep \/ \E o \in Owners : Cancel(o),
         NEW q \in Owners
  PROVE  Scanning(q)' /\ Witnessing(q)'
<1>t. StateType /\ StateType'
  BY DEF SInv
<1>1. UNCHANGED <<driver, rounds, probeRow>>
  BY DEF HostStep, Cancel, probes
<1>2. /\ RoundsKept(q) /\ pc'[q] = pc[q] /\ attempt'[q] = attempt[q]
      /\ probeRow'[q] = probeRow[q]
  BY <1>1 DEF RoundsKept, driver, rounds
<1>3. Ageing(q)
  <2>1. CASE HostStep
    BY <1>t, <2>1, HostAgeing
  <2>2. CASE \E o \in Owners : Cancel(o)
    <3>1. UNCHANGED <<helper, holder, socket>>
      BY <2>2 DEF Cancel, tree, sockets
    <3>2. socket \in [Ports -> Nat]
      BY <1>t, TypeParts DEF HostType
    <3>3. QED
      BY <3>1, <3>2 DEF Ageing
  <2>3. QED
    BY <2>1, <2>2
<1>4. QED
  BY <1>t, <1>2, <1>3, RoundRests

\* The first state has no round.
LEMMA RInit ==
  ASSUME Init
  PROVE  RInv
<1>1. /\ sighting = [o \in Owners |-> NoSight(o)] /\ found = [o \in Owners |-> Unseen(o)]
      /\ witness = [o \in Owners |-> Unseen(o)] /\ steady = [o \in Owners |-> {}]
      /\ socket = [p \in Ports |-> 0]
      /\ \A o \in Owners : pc[o] \in {"lock", "absent"}
  BY DEF Init
<1>2. steady \in [Owners -> SUBSET Ports]
  BY <1>1
<1>3. ASSUME NEW o \in Owners
      PROVE  Scanning(o) /\ Witnessing(o)
  <2>1. /\ pc[o] \notin ScanPCs /\ pc[o] \notin InsidePCs
        /\ witness[o] = Unseen(o) /\ found[o] = Unseen(o) /\ sighting[o] = NoSight(o)
        /\ steady[o] = {}
    BY <1>1 DEF ScanPCs, InsidePCs
  <2>2. \A p \in Endpoints(o) : sighting[o][p] = 0 /\ found[o][p] = None /\ socket[p] = 0
    BY <1>1, <2>1, KeysType DEF NoSight, Unseen
  <2>3. QED
    BY <2>1, <2>2 DEF Scanning, Witnessing, Again
<1>4. QED
  BY <1>2, <1>3 DEF RInv

\* What is said of the rounds is invariant, beside SInv: a witness that was not held
\* in the time of the probes is lost for good, and what is met again was held.
THEOREM RoundInvariance == Spec => []RInv
<1>1. Init => RInv
  BY RInit
<1>2. SInv /\ SInv' /\ RInv /\ [Next]_vars => RInv'
  <2>1. SUFFICES ASSUME SInv, SInv', RInv, [Next]_vars PROVE RInv'
    OBVIOUS
  <2>2. CASE Next
    <3>1. Steady /\ steady' \in [Owners -> SUBSET Ports]
      BY <2>1, <2>2, SteadyType DEF Next
    <3>2. CASE \E o \in Owners : Moving(o)
      <4>1. \A q \in Owners : Scanning(q)' /\ Witnessing(q)'
        BY <2>1, <3>1, <3>2, OwnerRounds
      <4>2. QED
        BY <3>1, <4>1 DEF RInv
    <3>3. CASE HostStep \/ \E o \in Owners : Cancel(o)
      <4>1. \A q \in Owners : Scanning(q)' /\ Witnessing(q)'
        BY <2>1, <3>1, <3>3, OutsideRounds
      <4>2. QED
        BY <3>1, <4>1 DEF RInv
    <3>4. QED
      BY <2>2, <3>2, <3>3 DEF Next, Moving
  <2>3. CASE UNCHANGED vars
    <3>1. /\ UNCHANGED <<driver, rounds, tree, sockets, probes>> /\ steady' = steady
      BY <2>3 DEF vars
    <3>2. /\ UNCHANGED <<pc, attempt, queue, at, sighting, found, witness, helper, holder,
                         socket, probeRow>>
      BY <3>1 DEF driver, rounds, tree, sockets, probes
    <3>3. ASSUME NEW o \in Owners
          PROVE  Scanning(o)' /\ Witnessing(o)'
      <4>1. Scanning(o) /\ Witnessing(o)
        BY <2>1 DEF RInv
      <4>2. Scanning(o)'
        BY <3>1, <3>2, <4>1 DEF Scanning, Met, Endpoints, Unseen, NoSight
      <4>3. Witnessing(o)'
        BY <3>1, <3>2, <4>1 DEF Witnessing, Met, Lost, Parted, Away, Again, Fresh, Credited,
                                Probed, Keys, Endpoints, Unseen
      <4>4. QED
        BY <4>2, <4>3
    <3>4. QED
      BY <2>1, <3>1, <3>3 DEF RInv
  <2>4. QED
    BY <2>1, <2>2, <2>3
<1>3. QED
  BY <1>1, <1>2, ServiceInvariance, PTL DEF Spec

\* Every variable keeps its type.
THEOREM ServiceTypes == Spec => []TypeOK
<1>1. SInv /\ RInv => TypeOK
  BY Zenon DEF SInv, RInv, TypeOK, StateType, ControlType, RoundsType, EndingType, TrackerType,
               HostType, RowType, ProbesType
<1>2. QED
  BY <1>1, ServiceInvariance, RoundInvariance, PTL

\* Only the end of the second observation, and the last credit of a service without
\* endpoints, come to the commit.
LEMMA ComesToCommit ==
  ASSUME StateType, NEW o \in Owners, Checking(o), Moving(o), pc[o] # "commit",
         pc'[o] = "commit"
  PROVE  (pc[o] = "look" /\ Final(o)) \/ CreditProbe(o)
<1>t. ControlType /\ pc \in [Owners -> PCs]
  BY TypeParts DEF ControlType
<1>1. CASE CheckStep(o)
  <2>1. Round(o) \/ Wait(o) \/ Commit(o) => pc'[o] # "commit"
    BY <1>t DEF Round, Wait, Commit, Goto
  <2>2. CheckFails(o) => pc'[o] # "commit"
    BY <1>t, FailStep DEF CheckFails, Depart
  <2>3. List(o) \/ Inspect(o) \/ Dump(o) \/ Admit(o) \/ Initial(o) => pc'[o] # "commit"
    BY <1>t DEF List, Inspect, Dump, Admit, Initial, Goto
  <2>4. Sight(o) \/ Recheck(o) => pc'[o] # "commit"
    BY DEF Sight, Recheck, driver
  <2>5. LookFails(o) \/ Missing(o) => pc'[o] # "commit"
    BY <1>t, FailStep, RetryStep DEF LookFails, Missing
  <2>6. QED
    BY <1>1, <2>1, <2>2, <2>3, <2>4, <2>5 DEF CheckStep, Look, Conclude
<1>2. CASE ProbeStep(o)
  <2>1. StartProbe(o) \/ AdmitProbe(o) \/ FinishProbe(o) \/ RecordProbe(o) \/ WatchProbe(o)
          => pc'[o] # "commit"
    BY <1>t DEF StartProbe, AdmitProbe, WatchProbe, FinishProbe, RecordProbe, Goto
  <2>2. ProbeFails(o) => pc'[o] # "commit"
    BY <1>t, FailStep DEF ProbeFails, Depart
  <2>3. QED
    BY <1>2, <2>1, <2>2 DEF ProbeStep
<1>3. CASE Prelaunch(o) \/ PrepareEnds(o)
  <2>1. pc'[o] \in (BarePCs \ {"absent"}) \cup {"refused"}
    BY <1>3, <1>t, Moves
  <2>2. QED
    BY <2>1 DEF BarePCs
<1>4. CASE \/ SpawnGate(o) \/ Register(o) \/ RegisterFails(o) \/ WriteCheck(o)
           \/ Unguard(o) \/ Release(o) \/ Launched(o) \/ LaunchFails(o) \/ Grace(o)
  <2>1. pc'[o] \in {"register", "release", "refused", "unguard", "up", "round",
                    "launch", "grace", "contain"}
    BY <1>t, <1>4, Moves
  <2>2. QED
    BY <2>1
<1>5. CASE \/ Choose(o) \/ Stop(o) \/ Contain(o) \/ Capture(o) \/ Settle(o) \/ Drop(o)
           \/ Crash(o)
  <2>1. pc'[o] \in {"stop", "contain", "capture", "settle", "drop", "ended", "crashed"}
    BY <1>t, <1>5, Moves
  <2>2. QED
    BY <2>1
<1>6. QED
  BY <1>1, <1>2, <1>3, <1>4, <1>5, Zenon DEF Moving, OwnerStep

\* A commit is of a round whose witnesses were held all the time its probes ran, and
\* whose probes all succeeded.
THEOREM RoundsAreFresh == Spec => RoundIsFresh
<1>1. ASSUME SInv, RInv, [Next]_vars, NEW o \in Owners, pc[o] # "commit", pc'[o] = "commit"
      PROVE  /\ steady[o] = Endpoints(o)
             /\ \A k \in Probed(o) : Fresh(o, k)
             /\ probe[o] = "none"
  <2>t. /\ StateType /\ ControlType /\ RoundsType /\ Checking(o) /\ Trying(o) /\ Settling(o)
        /\ Scanning(o) /\ Witnessing(o)
    BY <1>1, TypeParts DEF SInv, OwnerInv, RInv
  <2>1. \E q \in Owners : Moving(q)
    <3>1. ~UNCHANGED vars /\ ~HostStep /\ ~(\E q \in Owners : Cancel(q))
      BY <1>1 DEF vars, driver, HostStep, Cancel
    <3>2. QED
      BY <1>1, <3>1 DEF Next, Moving
  <2>2. Moving(o)
    <3>1. PICK q \in Owners : Moving(q)
      BY <2>1
    <3>2. Checking(q) /\ Trying(q)
      BY <1>1 DEF SInv, OwnerInv
    <3>3. q # o => pc'[o] = pc[o]
      BY <2>t, <3>1, <3>2, OwnerTypes DEF ControlKept
    <3>4. QED
      BY <1>1, <3>1, <3>3
  <2>3. CASE pc[o] = "look" /\ Final(o)
    <3>1. /\ Complete(o, found[o]) /\ Again(o)
      BY <2>3 DEF Final
    <3>2. steady[o] = Endpoints(o)
      BY <2>t, <3>1 DEF Complete, Scanning, Witnessing
    <3>3. pc[o] \in LookPCs
      BY <2>3 DEF LookPCs
    <3>4. \A k \in Probed(o) : Fresh(o, k)
      BY <2>t, <3>1, <3>3 DEF Witnessing
    <3>5. probe[o] = "none"
      BY <2>t, <3>3 DEF Trying, LookPCs, StopPCs, EndPCs
    <3>6. QED
      BY <3>2, <3>4, <3>5
  <2>4. CASE CreditProbe(o)
    <3>1. /\ \A k \in Probed(o) : Fresh(o, k)
          /\ probe[o] = "none" /\ Endpoints(o) = {}
      BY <1>1, <2>t, <2>4, LastCredit
    <3>2. steady[o] = {}
      BY <2>t, <3>1 DEF Scanning
    <3>3. QED
      BY <3>1, <3>2
  <2>5. QED
    BY <1>1, <2>t, <2>2, <2>3, <2>4, ComesToCommit
<1>2. SInv /\ RInv /\ [Next]_vars =>
        [\A o \in Owners :
           pc[o] # "commit" /\ pc'[o] = "commit" =>
             /\ steady[o] = Endpoints(o)
             /\ \A k \in Probed(o) :
                  Credited(probeRow[o][k]) /\ probeRow[o][k].attempt = attempt[o]
             /\ probe[o] = "none"]_vars
  BY <1>1 DEF Fresh
<1>3. QED
  BY <1>2, ServiceInvariance, RoundInvariance, PTL DEF Spec, RoundIsFresh
===============================================================================
