--------------------------- MODULE MCExecutionPlan ---------------------------
(* Manifests for ExecutionPlan: four families, each free in one respect.   *)
EXTENDS ExecutionPlan

Service(connects, endpoints, prepare, names) ==
  [connects |-> connects, endpoints |-> endpoints, prepare |-> prepare, names |-> names,
   primary |-> IF endpoints = {} THEN None ELSE Max(endpoints)]
Leaf(requires, names)  == [requires |-> requires, names |-> names, steps |-> <<>>]
Composite(steps)       == [requires |-> <<>>, names |-> {}, steps |-> steps]
Do(task, after)        == [task |-> task, after |-> after]
Ports(start, end)      == [start |-> start, end |-> end]
Manifest(s, t, w)      == [services |-> s, tasks |-> t, windows |-> w]

\* Any wiring of three services, two of which may have a preparation.
Wirings ==
  {Manifest(<<Service(c1, {11}, p1, {}), Service(c2, {}, None, {}), Service(c3, {11, 12}, p3, {})>>,
            <<Leaf(r1, {}), Leaf(r2, {}), Composite(<<Do(2, {2}), Do(1, {})>>)>>,
            <<Ports(4, size + 3)>>) :
     c1 \in SUBSET (1..3), c2 \in SUBSET (1..3), c3 \in SUBSET (1..3),
     p1 \in {None, 3}, p3 \in {None, 1}, r1 \in {<<>>, <<2>>, <<3>>}, r2 \in {<<>>, <<1, 2>>}, size \in {2, 3}}

\* Any dependencies between the steps of two composites that may contain each other.
Nestings ==
  {Manifest(<<Service({}, {}, 3, {})>>,
            <<Leaf(<<>>, {}), Leaf(<<1>>, {}),
              Composite(<<Do(1, a1), Do(inner, a2)>>),
              Composite(<<Do(outer[1], b1), Do(outer[2], b2), Do(outer[3], b3)>>)>>,
            <<Ports(1, 1)>>) :
     inner \in {1, 2, 4}, outer \in {<<1, 3, 1>>, <<3, 3, 1>>, <<1, 1, 4>>},
     a1 \in SUBSET (1..2), a2 \in SUBSET (1..2), b1 \in SUBSET {2, 3}, b2 \in SUBSET {1, 3}, b3 \in SUBSET {1, 2}}

\* Windows that overlap, touch, are empty, full or end at the last port.
Windows == {Ports(0, 1), Ports(1, 1), Ports(1, 3), Ports(3, 4), Ports(4, 6), Ports(5, 6), Ports(6, 6), Ports(6, 5)}
Placements ==
  {Manifest(<<Service({}, e1, None, {}), Service(c2, e2, None, {}), Service({}, e3, None, {})>>,
            <<Leaf(<<2>>, {}), Leaf(<<3, 1>>, {}), Composite(<<Do(1, {2}), Do(2, {})>>)>>,
            <<w1, w2>>) :
     e1 \in SUBSET {11, 12}, e2 \in {{}, {11}}, e3 \in SUBSET {11, 12}, c2 \in {{}, {3}}, w1 \in Windows, w2 \in Windows}

\* Placeholders towards own endpoints, dependencies and others; names of both kinds.
Scopes ==
  {Manifest(<<Service(c1, e1, p1, n1), Service({}, e2, None, {})>>,
            <<Leaf(r, n)>>, <<Ports(1, 3)>>) :
     c1 \in {{}, {2}, {9}}, e1 \in {{}, {11}, {2, 11}}, e2 \in {{}, {12}}, p1 \in {None, 1},
     n1 \in SUBSET {Bare, 2, 11}, r \in {<<>>, <<1>>, <<2>>, <<1, 2>>, <<2, 1>>, <<9>>}, n \in SUBSET {Bare, 1, 2}}

MCFamilies == <<Wirings, Nestings, Placements, Scopes>>

=============================================================================
