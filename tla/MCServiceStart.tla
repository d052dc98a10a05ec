--------------------------- MODULE MCServiceStart ---------------------------
(* Instances of ServiceStart.                                              *)
EXTENDS ServiceStart, TLC

CONSTANTS o1, o2, o3, o4, p1, p2, p3

\* A service with an endpoint and failures, one whose processes are found through
\* their parents only, one without endpoints, and one with two.
MCWants ==
  [o \in Owners |-> CASE o = o1 -> <<p1>> [] o = o2 -> <<p2>> [] o = o3 -> << >> [] o = o4 -> <<p1, p3>>]

\* A helper listens for the first service, the leader or its helper for the
\* second, both for the last, each on an endpoint of its own.
MCServes ==
  [o \in Owners |-> CASE o = o1 -> {<<p1, "helper">>}
                      [] o = o2 -> {<<p2, "leader">>, <<p2, "helper">>}
                      [] o = o3 -> {}
                      [] o = o4 -> {<<p1, "leader">>, <<p3, "helper">>}]

\* The socket of the second service may be replaced.
MCSockets == [p \in Ports |-> IF p = p2 THEN 2 ELSE 1]

=============================================================================
