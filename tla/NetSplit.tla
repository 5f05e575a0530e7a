------------------------------- MODULE NetSplit -------------------------------
(***************************************************************************)
(* How build_nets_from_parse breaks a net with more than MAX_PIN_SIZE pins *)
(* into subnets.  All pairs of pins are sorted by distance.  A first pass  *)
(* over them joins groups as long as the result is no larger than          *)
(* MAX_PIN_SIZE.  A second pass, over the same list, links groups that are *)
(* still apart: the smaller gets a pin of the larger, and the larger is    *)
(* emitted as a subnet.  What is left at the end is the last subnet.       *)
(*                                                                         *)
(* std::sort leaves pairs of one length in any order, so the first pass    *)
(* takes any of the shortest pairs left; the second repeats its order.     *)
(***************************************************************************)
EXTENDS Ascending, Sequences, SequencesExt

CONSTANTS
  MAX_PIN_SIZE,
  Placements                   \* the nets looked at: <<x, y>> of each pin

\* Two pins that meet first must fit into one group; only larger nets are broken.
ASSUME SplitAssumption ==
  /\ MAX_PIN_SIZE \in Nat /\ MAX_PIN_SIZE >= 2
  /\ \A p \in Placements : p \in Seq(Int \X Int) /\ Len(p) > MAX_PIN_SIZE

VARIABLES
  pos,                         \* pin -> its place
  pass,                        \* "join", "link", "roots", "done"
  edges,                       \* the pairs the first pass has taken, in order
  at,                          \* pairs the second pass has taken
  par,                         \* pin -> find_par of it
  sz,                          \* of a root: pins of its group's list
  new_pins,                    \* of a root: that list
  subnets                      \* emitted so far

vars == <<pos, pass, edges, at, par, sz, new_pins, subnets>>

Pin   == DOMAIN pos
Pairs == {e \in Pin \X Pin : e[1] < e[2]}
Dist(e) == LET p == pos[e[1]]  q == pos[e[2]]
               Abs(a) == IF a < 0 THEN -a ELSE a
           IN  Abs(p[1] - q[1]) + Abs(p[2] - q[2])

Init ==
  /\ pos \in Placements
  /\ pass = "join" /\ edges = <<>> /\ at = 0
  /\ par = [p \in Pin |-> p]
  /\ sz = [p \in Pin |-> 1]
  /\ new_pins = [p \in Pin |-> <<>>]
  /\ subnets = <<>>

\* find_par(i) == i
Root == {p \in Pin : par[p] = p}

Joined(from, to) == [p \in Pin |-> IF par[p] = from THEN to ELSE par[p]]

\* mutant: the sizes are not looked at
SmallerIdle(u, v) == <<u, v>>

\* if(sz[u] > sz[v]) swap(u, v), for a pair of roots
SmallerFirst(u, v) == IF sz[u] > sz[v] THEN <<v, u>> ELSE <<u, v>>

\* One pair of the first pass
JoinGroups ==
  /\ pass = "join"
  /\ \E e \in Pairs \ ToSet(edges) :
       /\ \A f \in Pairs \ ToSet(edges) : Dist(e) <= Dist(f)
       /\ edges' = Append(edges, e)
       /\ LET u == par[e[1]]  v == par[e[2]]
              o == SmallerFirst(u, v)
          IN  IF u = v \/ sz[u] + sz[v] > MAX_PIN_SIZE
              THEN UNCHANGED <<par, sz>>
              ELSE /\ par' = Joined(o[1], o[2])
                   /\ sz' = [sz EXCEPT ![o[2]] = @ + sz[o[1]]]
  /\ UNCHANGED <<pos, pass, at, new_pins, subnets>>

\* new_pins[find_par(i)].emplace_back(pins[i])
ListGroups ==
  /\ pass = "join" /\ ToSet(edges) = Pairs
  /\ new_pins' = [r \in Pin |-> Ascending({p \in Pin : par[p] = r})]
  /\ pass' = "link"
  /\ UNCHANGED <<pos, edges, at, par, sz, subnets>>

\* mutant: the smaller group is given its own end of the pair
OwnEnd(e, small) == CHOOSE p \in ToSet(e) : par[p] = small

\* the end of the pair in the other group
FarEnd(e, small) == CHOOSE p \in ToSet(e) : par[p] # small

\* One pair of the second pass
LinkGroups ==
  /\ pass = "link" /\ at < Len(edges)
  /\ at' = at + 1
  /\ LET e == edges[at + 1]
         o == SmallerFirst(par[e[1]], par[e[2]])
     IN  IF par[e[1]] = par[e[2]]
         THEN UNCHANGED <<par, sz, new_pins, subnets>>
         ELSE /\ sz' = [sz EXCEPT ![o[1]] = @ + 1]
              /\ subnets' = Append(subnets, new_pins[o[2]])
              /\ new_pins' = [new_pins EXCEPT ![o[1]] = Append(@, FarEnd(e, o[1])),
                                              ![o[2]] = <<>>]
              /\ par' = Joined(o[2], o[1])
  /\ UNCHANGED <<pos, pass, edges>>

EmitRoots ==
  /\ pass = "link" /\ at = Len(edges)
  /\ subnets' = subnets \o [k \in 1 .. Cardinality(Root) |-> new_pins[Ascending(Root)[k]]]
  /\ new_pins' = [p \in Pin |-> IF p \in Root THEN <<>> ELSE new_pins[p]]
  /\ pass' = "done"
  /\ UNCHANGED <<pos, edges, at, par, sz>>

Next == JoinGroups \/ ListGroups \/ LinkGroups \/ EmitRoots

Spec == Init /\ [][Next]_vars
-----------------------------------------------------------------------------
\* the pins the lists hold, one for each place in a list
Places(lists) == UNION {{k} \X (DOMAIN lists[k]) : k \in DOMAIN lists}

\* A net routed subnet by subnet is one net again: going from subnet to subnet
\* through the pins they share, every pin is reached from every other, and with
\* no pin to spare, so the routes never close a loop of subnets.  No subnet lists
\* a pin twice, as construct_rsmt asserts, and FLUTE gets the two pins it needs.
SubnetsFormATree ==
  pass = "done" =>
    LET Sets == {ToSet(subnets[k]) : k \in DOMAIN subnets}
        Apart(A) == \A S \in Sets : S \subseteq A \/ S \cap A = {}
    IN  /\ \A k \in DOMAIN subnets : IsInjective(subnets[k]) /\ Len(subnets[k]) >= 2
        /\ \A A \in SUBSET Pin : Apart(A) => A \in {{}, Pin}
        /\ Cardinality(Places(subnets)) = Cardinality(Pin) + Len(subnets) - 1

\* MAX_PIN_SIZE may be passed by the pins that link groups, but the excess grows
\* only when two groups of the largest size meet: k pins too many take 2^k groups.
ExcessIsLogarithmic ==
  LET Groups == Cardinality(Root) + Len(subnets)
      Small(list) == Len(list) <= MAX_PIN_SIZE \/ 2^(Len(list) - MAX_PIN_SIZE) <= Groups
  IN  pass = "link" => /\ \A k \in DOMAIN subnets : Small(subnets[k])
                       /\ \A r \in Root : Small(new_pins[r]) /\ sz[r] = Len(new_pins[r])
=============================================================================
