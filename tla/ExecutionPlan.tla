---------------------------- MODULE ExecutionPlan ----------------------------
(***************************************************************************)
(* From a manifest to the order of a run: validation, lowering and the     *)
(* proofs of admission (nixfied-manifest/validation.rs, execution/lower.rs,*)
(* template.rs), the plan of one task in one slot (execution/plan.rs), and *)
(* the walk of that plan by the session's owner (main.rs, process.rs,      *)
(* task.rs), where every dependency and placeholder must be there.         *)
(*                                                                         *)
(* Admission and planning read the same graph twice, by different          *)
(* algorithms: admission looks for cycles and counts the endpoints of      *)
(* every task, the planner orders the services of one task and trusts that *)
(* it can.  Lowering checks a placeholder against what is declared; the    *)
(* run resolves it against what was planned and started.                   *)
(*                                                                         *)
(* Abstractions.                                                           *)
(*  - Services, tasks, the steps of a composite and the names of endpoints *)
(*    are numbers, in the byte order of their ids; an endpoint may be named*)
(*    as a service is.  A placeholder is a name, or Bare.                  *)
(*  - An invocation is its placeholders: the choice of its tool, its       *)
(*    closure's target and effects, its cwd, its secrets, the uniqueness of*)
(*    operation ids and non-empty strings are checks of one declaration    *)
(*    each, without bearing on the graph.  The start and the probes of a   *)
(*    service have one scope and are taken together.                       *)
(*  - Services start and tasks succeed: what happens when they do not is in*)
(*    ServiceStart and SlotSession.                                        *)
(***************************************************************************)
EXTENDS Naturals, SequencesExt

CONSTANTS
  Families, \* sets of manifests
  MaxPort   \* the largest port

Bare == 0
None == 0

\* What a manifest is made of.  A task that is missing, a service that is not
\* declared and a window that makes no sense are found by the checks below.
ServiceDeclarations ==
  [connects : SUBSET Nat, endpoints : SUBSET (Nat \ {0}), primary : Nat, prepare : Nat,
   names : SUBSET Nat]
StepDeclarations == [task : Nat, after : SUBSET Nat]
TaskDeclarations == [requires : Seq(Nat), names : SUBSET Nat, steps : Seq(StepDeclarations)]
PortWindows      == [start : 0..MaxPort, end : 0..MaxPort]

IsManifest(p) ==
  /\ p.services \in Seq(ServiceDeclarations)
  /\ \A s \in DOMAIN p.services : IsFiniteSet(p.services[s].endpoints)
  /\ p.tasks \in Seq(TaskDeclarations)
  /\ p.windows \in Seq(PortWindows)

ASSUME PlanAssumption ==
  /\ MaxPort \in Nat
  /\ \A f \in DOMAIN Families : \A p \in Families[f] : IsManifest(p)

VARIABLES
  program, \* the manifest
  step,    \* what was done last
  refusal, \* why it was refused
  slot,    \* the selected slot
  plan,    \* the services in starting order, their ports and the root nodes
  started, \* the services that were started, in order
  at       \* the next leaf, of the preparation or of the root

vars == <<program, step, refusal, slot, plan, started, at>>

NoPlan == [services |-> <<>>, ports |-> <<>>, nodes |-> <<>>]
Steps  == {"read", "validated", "referenced", "lowered", "acyclic", "admitted",
           "next", "prepare", "run", "done", "refused", "broken"}

Init ==
  /\ \E f \in DOMAIN Families : program \in Families[f]
  /\ step = "read" /\ refusal = "none" /\ slot = 0
  /\ plan = NoPlan /\ started = <<>> /\ at = 1

(***************************************************************************)
(* The graph.                                                              *)
(***************************************************************************)

Services(p) == DOMAIN p.services
Tasks(p)    == DOMAIN p.tasks
IsLeaf(p, t) == p.tasks[t].steps = <<>>

\* Of what is left, the first whose needs are placed; it stays where nothing is ready.
PlaceFirst(items, needs, placed) ==
  LET ready == {i \in items \ ToSet(placed) : needs[i] \subseteq ToSet(placed)}
  IN IF ready = {} THEN placed ELSE Append(placed, Min(ready))

\* The items in the order in which they become ready, again and again the first.
FirstReady(items, needs) ==
  LET place[n \in 0..Cardinality(items)] ==
        IF n = 0 THEN <<>> ELSE PlaceFirst(items, needs, place[n - 1])
  IN place[Cardinality(items)]

\* The path of a leaf below a step, seen from the composite.
Deeper(i, path) == <<i>> \o path

\* A bug: the last node of a step's subtree stands for all of them.
SubtreeLast(i, nodes) == {Deeper(i, nodes[Len(nodes)].path)}

\* The paths of a step's subtree.
Subtree(i, nodes) == {Deeper(i, node.path) : node \in ToSet(nodes)}

\* The leaves below the steps of a composite, each after the whole subtrees of
\* the steps that its own step depends on.
Joined(steps, below) ==
  FlattenSeq([i \in DOMAIN steps |->
    [n \in DOMAIN below[i] |->
       [path  |-> Deeper(i, below[i][n].path),
        task  |-> below[i][n].task,
        after |-> {Deeper(i, q) : q \in below[i][n].after}
                    \cup UNION {Subtree(d, below[d]) : d \in steps[i].after}]]])

\* The leaves below a task, depth first: the path of steps to each and the
\* paths it is after.  Empty where a task is missing or contains itself.  A call
\* is a task and the tasks that are being visited.
LeavesBelow(p, call, emit) ==
  LET t        == call[1]
      visiting == call[2]
      steps    == p.tasks[t].steps
      below    == [i \in DOMAIN steps |-> emit[<<steps[i].task, visiting \cup {t}>>]]
  IN IF t \notin Tasks(p) \/ t \in visiting THEN <<>>
     ELSE IF IsLeaf(p, t) THEN <<[path |-> <<>>, task |-> t, after |-> {}]>>
     ELSE IF \E i \in DOMAIN steps : below[i] = <<>> THEN <<>>
     ELSE Joined(steps, below)

Emit(p, root) ==
  LET emit[call \in Nat \X SUBSET Nat] == LeavesBelow(p, call, emit)
  IN emit[<<root, {}>>]

\* The leaves in the order they run; empty where there is none.
Flatten(p, root) ==
  LET nodes == Emit(p, root)
      waits == [n \in DOMAIN nodes |-> {m \in DOMAIN nodes : nodes[m].path \in nodes[n].after}]
      order == FirstReady(DOMAIN nodes, waits)
  IN IF Len(order) < Len(nodes) THEN <<>> ELSE [n \in DOMAIN order |-> nodes[order[n]]]

DirectRequirements(p, nodes) ==
  UNION {ToSet(p.tasks[node.task].requires) : node \in ToSet(nodes)}

Preparation(p, s) ==
  IF p.services[s].prepare = None THEN <<>> ELSE Flatten(p, p.services[s].prepare)

ServiceEdges(p) ==
  [s \in Services(p) |-> p.services[s].connects \cup DirectRequirements(p, Preparation(p, s))]

\* These services, and what they need.
WithNeeds(services, edges) == services \cup UNION {edges[s] : s \in services}

CloseUnion(union, edges) ==
  LET close[n \in 0..Cardinality(DOMAIN edges)] ==
        IF n = 0 THEN union ELSE WithNeeds(close[n - 1], edges)
  IN close[Cardinality(DOMAIN edges)]

Required(p, t) == CloseUnion(DirectRequirements(p, Flatten(p, t)), ServiceEdges(p))

Endpoints(p, selected) == UNION {{s} \X p.services[s].endpoints : s \in selected}

\* A bug: the last port is not counted.
CapacityShort(window) == window.end - window.start
Capacity(window) == window.end - window.start + 1

(***************************************************************************)
(* Admission: the first check that fails refuses the manifest.             *)
(***************************************************************************)

Check(from, ok, to, why) ==
  /\ step = from
  /\ IF ok THEN step' = to /\ UNCHANGED refusal ELSE step' = "refused" /\ refusal' = why
  /\ UNCHANGED <<program, slot, plan, started, at>>

\* Neighbours in the order of their starts must not overlap.
PlacementsValid(p) ==
  LET Before(j, k) == \/ p.windows[j].start < p.windows[k].start
                      \/ p.windows[j].start = p.windows[k].start /\ j < k
      Neighbours(j, k) == /\ Before(j, k)
                          /\ ~ \E i \in DOMAIN p.windows : Before(j, i) /\ Before(i, k)
  IN /\ \A k \in DOMAIN p.windows : /\ p.windows[k].start # 0
                                    /\ p.windows[k].start <= p.windows[k].end
     /\ \A j, k \in DOMAIN p.windows : Neighbours(j, k) => p.windows[k].start > p.windows[j].end

EndpointsValid(p) ==
  \A s \in Services(p) :
    LET service == p.services[s] IN
    IF service.endpoints = {} THEN service.primary = None
    ELSE /\ service.endpoints \cap service.connects = {}
         /\ service.primary \in service.endpoints

Validate == Check("read", PlacementsValid(program) /\ EndpointsValid(program), "validated",
                  IF PlacementsValid(program) THEN "endpoints" ELSE "placements")

ReferencesDeclared(p) ==
  /\ \A s \in Services(p) : /\ p.services[s].connects \subseteq Services(p)
                            /\ p.services[s].prepare \in Tasks(p) \cup {None}
  /\ \A t \in Tasks(p) :
       /\ ToSet(p.tasks[t].requires) \subseteq Services(p)
       /\ \A i \in DOMAIN p.tasks[t].steps : /\ p.tasks[t].steps[i].task \in Tasks(p)
                                             /\ p.tasks[t].steps[i].after \subseteq DOMAIN p.tasks[t].steps

ProveReferences == Check("validated", ReferencesDeclared(program), "referenced", "reference")

Listens(p, s) == p.services[s].primary # None

\* What a service's invocations, or a leaf's, may name.
ServiceScope(p, s) ==
  (IF Listens(p, s) THEN {Bare} ELSE {})
    \cup p.services[s].endpoints \cup {c \in p.services[s].connects : Listens(p, c)}
TaskScope(p, t) ==
  LET requires == p.tasks[t].requires
  IN (IF requires # <<>> /\ Listens(p, requires[1]) THEN {Bare} ELSE {})
       \cup {s \in ToSet(requires) : Listens(p, s)}

PlaceholdersDeclared(p) ==
  /\ \A s \in Services(p) : p.services[s].names \subseteq ServiceScope(p, s)
  /\ \A t \in Tasks(p) : IsLeaf(p, t) => p.tasks[t].names \subseteq TaskScope(p, t)

Lower == Check("referenced", PlaceholdersDeclared(program), "lowered", "placeholder")

TasksFlatten(p) == \A t \in Tasks(p) : Flatten(p, t) # <<>>

\* A bug: the cycles of connectsTo, without what preparations require.
ServicesAcyclicByWiring(p) ==
  LET edges == [s \in Services(p) |-> p.services[s].connects]
  IN \A s \in Services(p) : s \notin CloseUnion(edges[s], edges)

\* No service is among what it needs, directly or not.
ServicesAcyclic(p) ==
  LET edges == ServiceEdges(p) IN \A s \in Services(p) : s \notin CloseUnion(edges[s], edges)

ProveGraph ==
  Check("lowered", TasksFlatten(program) /\ ServicesAcyclic(program), "acyclic",
        IF TasksFlatten(program) THEN "services" ELSE "tasks")

Fits(p, selected, window) == Cardinality(Endpoints(p, selected)) <= Capacity(window)

TasksFit(p) == \A t \in Tasks(p), k \in DOMAIN p.windows : Fits(p, Required(p, t), p.windows[k])

ProveCapacity == Check("acyclic", TasksFit(program), "admitted", "capacity")

(***************************************************************************)
(* The plan of one task in one slot.                                       *)
(***************************************************************************)

\* A bug: each service begins at the start of the window.
AssignPortsAnew(p, selected, window) ==
  [s \in selected |-> [e \in p.services[s].endpoints |->
     window.start + Cardinality({f \in p.services[s].endpoints : f < e})]]

\* Ports are handed out from the start of the window by service and endpoint id.
AssignPorts(p, selected, window) ==
  LET all == Endpoints(p, selected)
      Position(s, e) == Cardinality({f \in all : f[1] < s \/ (f[1] = s /\ f[2] < e)})
  IN [s \in selected |-> [e \in p.services[s].endpoints |-> Min({window.start + Position(s, e), MaxPort})]]

\* The slots of the policy are 1, 2, ...; admission placed each.
Plan(t, k) ==
  LET nodes    == Flatten(program, t)
      required == Required(program, t)
      order    == FirstReady(required, ServiceEdges(program))
  IN /\ step = "admitted"
     /\ slot' = k
     /\ IF /\ nodes # <<>> /\ Len(order) = Cardinality(required)
           /\ k \in DOMAIN program.windows /\ Fits(program, required, program.windows[k])
        THEN /\ step' = "next"
             /\ plan' = [services |-> order, nodes |-> nodes,
                         ports |-> AssignPorts(program, required, program.windows[k])]
        ELSE step' = "broken" /\ UNCHANGED plan
     /\ UNCHANGED <<program, refusal, started, at>>

SelectSlot ==
  \E t \in Tasks(program), k \in 1..(Len(program.windows) + 1) :
    \/ k \in DOMAIN program.windows /\ Plan(t, k)
    \/ /\ k \notin DOMAIN program.windows
       /\ Check("admitted", FALSE, "next", "slot")

(***************************************************************************)
(* The walk: each service with its preparation, then the root leaves.      *)
(***************************************************************************)

Selected(p, s) == Listens(p, s) /\ p.services[s].primary \in p.services[s].endpoints

\* What the invocations of a service resolve, once these services are selected.
ServiceContext(p, s, selected) ==
  (IF Selected(p, s) THEN {Bare} ELSE {})
    \cup p.services[s].endpoints \cup {c \in selected \cap p.services[s].connects : Selected(p, c)}

\* What a leaf resolves: its requirements, in their order, as they were started.
TaskContext(p, t) ==
  LET requires == p.tasks[t].requires
  IN (IF requires # <<>> /\ Selected(p, Head(requires)) THEN {Bare} ELSE {})
       \cup {s \in ToSet(requires) : Selected(p, s)}

Current == plan.services[Len(started) + 1]

CoherentPorts(ports, endpoints) ==
  DOMAIN ports = endpoints /\ 0 \notin Range(ports) /\ IsInjective(ports)

Continue(ok, to) ==
  /\ step' = IF ok THEN to ELSE "broken"
  /\ UNCHANGED <<program, refusal, slot, plan>>

BindService ==
  /\ step = "next" /\ Len(started) < Len(plan.services)
  /\ at' = 1 /\ UNCHANGED started
  /\ Continue(/\ CoherentPorts(plan.ports[Current], program.services[Current].endpoints)
              /\ program.services[Current].names
                   \subseteq ServiceContext(program, Current, DOMAIN plan.ports),
              "prepare")

Runs(t) == /\ ToSet(program.tasks[t].requires) \subseteq ToSet(started)
           /\ program.tasks[t].names \subseteq TaskContext(program, t)

PrepareLeaf ==
  /\ step = "prepare" /\ at <= Len(Preparation(program, Current))
  /\ at' = at + 1 /\ UNCHANGED started
  /\ Continue(Runs(Preparation(program, Current)[at].task), "prepare")

StartService ==
  /\ step = "prepare" /\ at > Len(Preparation(program, Current))
  /\ started' = Append(started, Current) /\ at' = 1
  /\ Continue(TRUE, "next")

RunLeaf ==
  /\ step \in {"next", "run"} /\ Len(started) = Len(plan.services) /\ at <= Len(plan.nodes)
  /\ at' = at + 1 /\ UNCHANGED started
  /\ Continue(Runs(plan.nodes[at].task), "run")

Finish ==
  /\ step = "run" /\ at > Len(plan.nodes)
  /\ UNCHANGED <<started, at>>
  /\ Continue(TRUE, "done")

Next == \/ Validate \/ ProveReferences \/ Lower \/ ProveGraph \/ ProveCapacity
        \/ SelectSlot
        \/ BindService \/ PrepareLeaf \/ StartService \/ RunLeaf \/ Finish

Spec == Init /\ [][Next]_vars

(***************************************************************************)
(* Properties.  The definitions they rest on say what a graph means, not   *)
(* how the code looks at it.                                               *)
(***************************************************************************)

\* The least set with these members that holds, with x, everything x leads to.
Least(universe, base, leads) ==
  {x \in universe : \A C \in SUBSET universe :
     base \subseteq C /\ (\A c \in C : leads[c] \cap universe \subseteq C) => x \in C}

\* Some members lead to each other and never out of their own circle.
Circular(universe, leads) ==
  \E C \in SUBSET universe \ {{}} : \A c \in C : leads[c] \cap C # {}

Parts(p)     == [t \in Tasks(p) |-> {part.task : part \in ToSet(p.tasks[t].steps)}]
Leaves(p, t) == {u \in Least(Tasks(p), {t}, Parts(p)) : IsLeaf(p, u)}
Uses(p, t)   == UNION {ToSet(p.tasks[u].requires) : u \in Leaves(p, t)}
NeedsOf(p)   == [s \in Services(p) |-> p.services[s].connects \cup
                   (IF p.services[s].prepare = None THEN {} ELSE Uses(p, p.services[s].prepare))]
NeededBy(p, t) == Least(Services(p), Uses(p, t), NeedsOf(p))
After(p, t)  == [i \in DOMAIN p.tasks[t].steps |-> p.tasks[t].steps[i].after]
Window(w)    == w.start..w.end

Impossible(p, why) ==
  CASE why = "placements" -> \E j, k \in DOMAIN p.windows :
                               \/ Window(p.windows[k]) \ {0} # Window(p.windows[k])
                               \/ p.windows[k].start > p.windows[k].end
                               \/ j # k /\ Window(p.windows[j]) \cap Window(p.windows[k]) # {}
    [] why = "placeholder" -> \/ \E s \in Services(p) :
                                   ~ p.services[s].names \subseteq ServiceContext(p, s, Services(p))
                              \/ \E t \in Tasks(p) : IsLeaf(p, t) /\
                                   ~ p.tasks[t].names \subseteq TaskContext(p, t)
    [] why = "tasks"       -> \/ Circular(Tasks(p), Parts(p))
                              \/ \E t \in Tasks(p) : Circular(DOMAIN p.tasks[t].steps, After(p, t))
    [] why = "services"    -> Circular(Services(p), NeedsOf(p))
    [] why = "capacity"    -> \E t \in Tasks(p), k \in DOMAIN p.windows :
                                Cardinality(Endpoints(p, NeededBy(p, t))) > Cardinality(Window(p.windows[k]))
    [] OTHER               -> TRUE

\* A manifest is refused only for what makes it impossible: placements that
\* share a port, a placeholder no run could resolve, tasks, steps or services
\* that wait for each other, a task whose services cannot all have their ports
\* (prove_graph, prove_capacity, Scope::endpoint).
OnlyTheImpossibleIsRefused == step = "refused" => Impossible(program, refusal)

\* What was admitted runs: whatever task and slot are selected, there is a plan,
\* every service is started after all it needs, a preparation's requirements
\* included, and no leaf or service meets a missing dependency or an endpoint
\* that its placeholders name and nothing bound (DEPENDENCY_UNAVAILABLE,
\* "admitted endpoint is missing", "incoherent endpoint port plan").
AdmittedRuns == step # "broken"

\* The task a path of steps leads to.
TaskAt(p, root, path) ==
  LET walk[n \in 0..Len(path)] == IF n = 0 THEN root ELSE p.tasks[walk[n - 1]].steps[path[n]].task
  IN walk[Len(path)]

\* Where the paths part, the one's step waits, directly or not, for the other's.
MustFollow(p, root, later, earlier) ==
  \E n \in DOMAIN later \cap DOMAIN earlier :
    /\ SubSeq(later, 1, n - 1) = SubSeq(earlier, 1, n - 1)
    /\ LET t == TaskAt(p, root, SubSeq(later, 1, n - 1))
       IN /\ later[n] # earlier[n]
          /\ earlier[n] \in Least(DOMAIN p.tasks[t].steps, p.tasks[t].steps[later[n]].after, After(p, t))

\* Every leaf below the root has its one place, after all the leaves it waits
\* for: a step that depends on a composite waits for its whole subtree, however
\* deep, and whatever the order of the names (flatten).
RunsInOrder(p, root, nodes) ==
  /\ \A n \in DOMAIN nodes : IsLeaf(p, TaskAt(p, root, nodes[n].path))
  /\ \A m, n \in DOMAIN nodes : m < n => /\ nodes[m].path # nodes[n].path
                                         /\ ~ MustFollow(p, root, nodes[m].path, nodes[n].path)
  /\ \A n \in DOMAIN nodes : \A k \in DOMAIN nodes[n].path :
       LET above == SubSeq(nodes[n].path, 1, k - 1)
       IN \A i \in DOMAIN p.tasks[TaskAt(p, root, above)].steps :
            \E m \in DOMAIN nodes : IsPrefix(Append(above, i), nodes[m].path)

StepsInOrder == step = "acyclic" => \A t \in Tasks(program) : RunsInOrder(program, t, Flatten(program, t))

\* Two endpoints never have one port, in this slot or between slots: every port
\* lies in the window of its own slot and in no other, also where a window is
\* full or ends at the last port; and a service's ports follow from which
\* services are selected, not from the order in which they start (bind_slot).
PortsBelongToOne ==
  \A s, t \in DOMAIN plan.ports :
    \A e \in DOMAIN plan.ports[s], f \in DOMAIN plan.ports[t] :
      /\ \A k \in DOMAIN program.windows : plan.ports[s][e] \in Window(program.windows[k]) <=> k = slot
      /\ s < t \/ (s = t /\ e < f) => plan.ports[s][e] < plan.ports[t][f]

=============================================================================
