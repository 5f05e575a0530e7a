---------------------------- MODULE BatchPartition ----------------------------
(***************************************************************************)
(* What batch generation promises the router, whichever path computed it:  *)
(* every net is placed once, in a batch of bounded size, batches are opened*)
(* in order and never left empty, and no net's points are covered by the   *)
(* marks of a higher-priority member of its batch (the invariant replayed  *)
(* by batches_are_conflict_free).  A net is its index in the caller's      *)
(* ordering, so a smaller net has the higher priority.                     *)
(***************************************************************************)
EXTENDS Integers, FiniteSets

CONSTANTS NetCnt,       \* number of nets to route
          Cap           \* largest batch the router accepts

VARIABLES footprint,    \* the nets: their points and their marks; never changes
          batch_of_net  \* the batch of each net, -1 while unplaced

Net == 0 .. NetCnt - 1

Members(b) == {n \in Net : batch_of_net[n] = b}

\* a, placed before c in priority, leaves c's points alone
Clear(a, c) == footprint[a].marks \cap footprint[c].points = {}

Init == batch_of_net = [n \in Net |-> -1]

Place(n, b) ==
  /\ batch_of_net[n] = -1
  /\ \A lower \in 0 .. b - 1 : Members(lower) # {}
  /\ Cardinality(Members(b)) < Cap
  /\ \A m \in Members(b) : IF m < n THEN Clear(m, n) ELSE Clear(n, m)
  /\ batch_of_net' = [batch_of_net EXCEPT ![n] = b]
  /\ UNCHANGED footprint

Next == \E n \in Net, b \in 0 .. NetCnt - 1 : Place(n, b)

Spec == Init /\ [][Next]_<<footprint, batch_of_net>>
             /\ WF_<<footprint, batch_of_net>>(Next)
=============================================================================
