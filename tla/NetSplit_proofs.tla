---------------------------- MODULE NetSplit_proofs ----------------------------
(***************************************************************************)
(* Proofs about NetSplit: whatever the pins, their distances and the order *)
(* of pairs of one length, the subnets of a broken net form a tree, and a  *)
(* list has more than MAX_PIN_SIZE pins only where many groups have met.   *)
(***************************************************************************)
EXTENDS NetSplit, Ascending_proofs

Group(r) == {p \in Pin : par[p] = r}

TypeOK ==
  /\ pos \in Placements /\ pass \in {"join", "link", "done"}
  /\ edges \in Seq(Pairs) /\ at \in 0 .. Len(edges)
  /\ par \in [Pin -> Pin] /\ sz \in [Pin -> Nat]
  /\ new_pins \in [Pin -> Seq(Pin)] /\ subnets \in Seq(Seq(Pin))
  /\ \A p \in Pin : par[p] \in Root

(* The first pass: sizes count pins and keep the limit, and two groups that a *)
(* pair was not allowed to join are too large together.                       *)
JoinOK ==
  /\ at = 0 /\ subnets = <<>>
  /\ \A r \in Root : sz[r] = Cardinality(Group(r)) /\ sz[r] <= MAX_PIN_SIZE
  /\ \A e \in ToSet(edges) : \/ par[e[1]] = par[e[2]]
                             \/ sz[par[e[1]]] + sz[par[e[2]]] > MAX_PIN_SIZE

(* The second pass: the list of a root holds pins of its group, each once.    *)
ListsOK ==
  /\ ToSet(edges) = Pairs
  /\ \A k \in 1 .. at : par[edges[k][1]] = par[edges[k][2]]
  /\ \A r \in Root : /\ sz[r] = Len(new_pins[r]) /\ sz[r] >= 1 /\ IsInjective(new_pins[r])
                     /\ \A i \in DOMAIN new_pins[r] : par[new_pins[r][i]] = r
  /\ \A p \in Pin \ Root : new_pins[p] = <<>>

(* The larger of two groups has two pins, and so has a group left alone.      *)
LargeOK ==
  /\ \A r, s \in Root : r # s => sz[r] + sz[s] > 2
  /\ \A r \in Root : sz[r] >= 2 \/ \E s \in Root : s # r

(* The subnets emitted so far are inside one group each.                      *)
EmittedOK ==
  \A k \in DOMAIN subnets :
    /\ IsInjective(subnets[k]) /\ Len(subnets[k]) >= 2
    /\ \A i, j \in DOMAIN subnets[k] : par[subnets[k][i]] = par[subnets[k][j]]

(* Each link has added one pin and emitted one list.                          *)
CountOK ==
  /\ IsFiniteSet(Places(subnets)) /\ IsFiniteSet(Places(new_pins))
  /\ Cardinality(Places(subnets)) + Cardinality(Places(new_pins))
       = Cardinality(Pin) + Len(subnets)

(* A set of pins that no list cuts in two cuts no group in two.               *)
Whole(A, list) == ToSet(list) \subseteq A \/ ToSet(list) \cap A = {}

ConnectedOK ==
  \A A \in SUBSET Pin :
    (/\ \A k \in DOMAIN subnets : Whole(A, subnets[k])
     /\ \A r \in Root : Whole(A, new_pins[r]))
    => \A p, q \in Pin : par[p] = par[q] => (p \in A <=> q \in A)

(* Links that have met in the group of r                                      *)
LinksOf(r) == {k \in DOMAIN subnets : par[subnets[k][1]] = r}

Within(list, n) == Len(list) <= MAX_PIN_SIZE \/ 2^(Len(list) - MAX_PIN_SIZE) <= n

(* A list that is k pins too long has met with 2^k groups.                    *)
WeightOK ==
  /\ \A r \in Root : Within(new_pins[r], Cardinality(LinksOf(r)) + 1)
  /\ \A k \in DOMAIN subnets : Within(subnets[k], Len(subnets))

LinkOK == ListsOK /\ LargeOK /\ EmittedOK /\ CountOK /\ ConnectedOK /\ WeightOK

SplitInv ==
  /\ TypeOK
  /\ pass = "join" => JoinOK
  /\ pass = "link" => LinkOK
  /\ SubnetsFormATree
-----------------------------------------------------------------------------
(* Pins and pairs.                                                            *)
LEMMA PinsOf ==
  ASSUME pos \in Placements
  PROVE  /\ IsFiniteSet(Pin) /\ Pin \in SUBSET Int
         /\ Cardinality(Pin) \in Nat /\ Cardinality(Pin) > 2
         /\ MAX_PIN_SIZE \in Nat /\ MAX_PIN_SIZE >= 2
<1>1. pos \in Seq(Int \X Int) /\ Len(pos) > MAX_PIN_SIZE
      /\ MAX_PIN_SIZE \in Nat /\ MAX_PIN_SIZE >= 2
  BY SplitAssumption
<1>2. Pin = 1 .. Len(pos) /\ Len(pos) \in Nat /\ Len(pos) > 2
  BY <1>1, LenProperties DEF Pin
<1>3. 1 \in Int /\ Len(pos) \in Int
  BY <1>2
<1>4. IsFiniteSet(1 .. Len(pos)) /\ Cardinality(1 .. Len(pos)) = Len(pos)
  BY <1>2, <1>3, FS_Interval
<1> QED BY <1>1, <1>2, <1>4

LEMMA EndsOf ==
  ASSUME pos \in Placements, NEW e \in Pairs
  PROVE  /\ e[1] \in Pin /\ e[2] \in Pin /\ e[1] # e[2] /\ e[1] < e[2] /\ e = <<e[1], e[2]>>
         /\ ToSet(e) = {e[1], e[2]}
<1>1. e[1] \in Pin /\ e[2] \in Pin /\ e[1] < e[2] /\ e = <<e[1], e[2]>>
  BY DEF Pairs
<1>2. e[1] # e[2]
  BY <1>1, PinsOf
<1>3. DOMAIN e = {1, 2}
  BY <1>1
<1>4. ToSet(e) = {e[1], e[2]}
  BY <1>3 DEF ToSet
<1> QED BY <1>1, <1>2, <1>4

LEMMA MembersOf ==
  ASSUME NEW S, NEW s \in Seq(S)
  PROVE  /\ Len(s) \in Nat /\ DOMAIN s = 1 .. Len(s) /\ ToSet(s) \subseteq S
         /\ \A i : i \in ToSet(s) <=> \E k \in 1 .. Len(s) : s[k] = i
BY LenProperties DEF ToSet

LEMMA Adding ==
  ASSUME NEW S, NEW s \in Seq(S), NEW x \in S
  PROVE  /\ Append(s, x) \in Seq(S) /\ Len(Append(s, x)) = Len(s) + 1
         /\ DOMAIN Append(s, x) = 1 .. Len(s) + 1 /\ Len(s) \in Nat
         /\ \A k \in 1 .. Len(s) : Append(s, x)[k] = s[k]
         /\ Append(s, x)[Len(s) + 1] = x
         /\ ToSet(Append(s, x)) = ToSet(s) \cup {x}
<1>1. /\ Append(s, x) \in Seq(S) /\ Len(Append(s, x)) = Len(s) + 1 /\ Len(s) \in Nat
      /\ \A k \in 1 .. Len(s) : Append(s, x)[k] = s[k]
      /\ Append(s, x)[Len(s) + 1] = x
  BY AppendProperties, LenProperties
<1>2. DOMAIN Append(s, x) = 1 .. Len(s) + 1 /\ DOMAIN s = 1 .. Len(s)
  BY <1>1, LenProperties
<1>3. \A y : y \in ToSet(Append(s, x)) <=> y \in ToSet(s) \cup {x}
  <2>1. \A k : k \in 1 .. Len(s) + 1 <=> k \in 1 .. Len(s) \/ k = Len(s) + 1
    BY <1>1
  <2>2. \A y : y \in ToSet(Append(s, x)) <=> \E k \in 1 .. Len(s) + 1 : Append(s, x)[k] = y
    BY <1>2 DEF ToSet
  <2>3. \A y : y \in ToSet(s) <=> \E k \in 1 .. Len(s) : s[k] = y
    BY <1>2 DEF ToSet
  <2> QED BY <1>1, <2>1, <2>2, <2>3
<1> QED BY <1>1, <1>2, <1>3

(* Two groups become one.                                                     *)
LEMMA Joining ==
  ASSUME TypeOK, NEW a \in Root, NEW b \in Root, a # b, par' = Joined(a, b), pos' = pos
  PROVE  /\ Pin' = Pin /\ par' \in [Pin -> Pin]
         /\ \A p \in Pin : par'[p] = IF par[p] = a THEN b ELSE par[p]
         /\ Root' = Root \ {a} /\ \A p \in Pin : par'[p] \in Root'
         /\ \A p, q \in Pin : par[p] = par[q] => par'[p] = par'[q]
         /\ \A r : r # a /\ r # b => Group(r)' = Group(r)
         /\ Group(b)' = Group(a) \cup Group(b)
<1>1. Pin' = Pin
  BY DEF Pin
<1>2. \A p \in Pin : par'[p] = IF par[p] = a THEN b ELSE par[p]
  BY DEF Joined
<1>3. a \in Pin /\ b \in Pin /\ par[a] = a /\ par[b] = b
  BY DEF Root
<1>4. par' \in [Pin -> Pin]
  BY <1>3 DEF Joined, TypeOK
<1>5. \A p : p \in Root' <=> p \in Root \ {a}
  BY <1>1, <1>2, <1>3 DEF Root
<1>6. \A p \in Pin : par'[p] \in Root'
  BY <1>2, <1>5 DEF TypeOK
<1>7. \A r : r # a /\ r # b => Group(r)' = Group(r)
  BY <1>1, <1>2 DEF Group
<1>8. Group(b)' = Group(a) \cup Group(b)
  BY <1>1, <1>2 DEF Group
<1> QED BY <1>1, <1>2, <1>4, <1>5, <1>6, <1>7, <1>8

LEMMA GroupSizes ==
  ASSUME TypeOK, NEW a \in Root, NEW b \in Root, a # b
  PROVE  /\ Cardinality(Group(a) \cup Group(b)) = Cardinality(Group(a)) + Cardinality(Group(b))
         /\ Cardinality(Group(a)) \in Nat /\ Cardinality(Group(a)) >= 1
<1>1. Group(a) \in SUBSET Pin /\ Group(b) \in SUBSET Pin /\ Group(a) \cap Group(b) = {}
      /\ a \in Group(a)
  BY DEF Group, Root
<1>2. IsFiniteSet(Group(a)) /\ IsFiniteSet(Group(b))
  BY <1>1, PinsOf, FS_Subset DEF TypeOK
<1>3. /\ Cardinality(Group(a)) \in Nat /\ Cardinality(Group(b)) \in Nat
      /\ Cardinality(Group(a)) # 0
  BY <1>1, <1>2, FS_CardinalityType, FS_EmptySet
<1>4. Cardinality({}) = 0
  BY FS_EmptySet
<1>5. Cardinality(Group(a) \cup Group(b))
      = Cardinality(Group(a)) + Cardinality(Group(b)) - Cardinality(Group(a) \cap Group(b))
  BY <1>2, FS_Union
<1>6. Cardinality(Group(a) \cap Group(b)) = 0
  BY <1>1, <1>4
<1>7. Cardinality(Group(a)) \in Nat /\ Cardinality(Group(a)) >= 1
  BY <1>3
<1> QED BY <1>3, <1>5, <1>6, <1>7
-----------------------------------------------------------------------------
(* The first pass.                                                            *)
LEMMA SplitInit == Init => TypeOK /\ pass = "join" /\ JoinOK
<1> SUFFICES ASSUME Init PROVE TypeOK /\ pass = "join" /\ JoinOK
  OBVIOUS
<1>1. /\ pos \in Placements /\ pass = "join" /\ edges = <<>> /\ at = 0
      /\ par = [p \in Pin |-> p] /\ sz = [p \in Pin |-> 1]
      /\ new_pins = [p \in Pin |-> <<>>] /\ subnets = <<>>
  BY DEF Init
<1>2. Root = Pin
  BY <1>1 DEF Root
<1>3. TypeOK
  <2>1. Len(<<>>) = 0 /\ <<>> \in Seq(Pairs) /\ <<>> \in Seq(Pin) /\ <<>> \in Seq(Seq(Pin))
    OBVIOUS
  <2>2. at \in 0 .. Len(edges)
    BY <1>1, <2>1
  <2> QED BY <1>1, <1>2, <2>1, <2>2 DEF TypeOK
<1>4. ASSUME NEW r \in Root PROVE sz[r] = Cardinality(Group(r)) /\ sz[r] <= MAX_PIN_SIZE
  <2>1. Group(r) = {r}
    BY <1>1, <1>2, <1>4 DEF Group
  <2>2. Cardinality({r}) = 1
    BY FS_Singleton
  <2>3. sz[r] = 1
    BY <1>1, <1>2
  <2> QED BY <1>1, <2>1, <2>2, <2>3, PinsOf
<1>5. ToSet(edges) = {}
  BY <1>1 DEF ToSet
<1> QED BY <1>1, <1>3, <1>4, <1>5 DEF JoinOK

LEMMA JoinStep ==
  ASSUME TypeOK, JoinOK, JoinGroups
  PROVE  TypeOK' /\ pass' = "join" /\ JoinOK'
<1>1. PICK e \in Pairs \ ToSet(edges) :
       /\ edges' = Append(edges, e)
       /\ LET u == par[e[1]]  v == par[e[2]]
              o == SmallerFirst(u, v)
          IN  IF u = v \/ sz[u] + sz[v] > MAX_PIN_SIZE
              THEN UNCHANGED <<par, sz>>
              ELSE /\ par' = Joined(o[1], o[2])
                   /\ sz' = [sz EXCEPT ![o[2]] = @ + sz[o[1]]]
  BY DEF JoinGroups
<1>2. /\ UNCHANGED <<pos, pass, at, new_pins, subnets>> /\ pass = "join" /\ Pin' = Pin
      /\ Pairs' = Pairs
  BY DEF JoinGroups, Pin, Pairs
<1> DEFINE u == par[e[1]]
           v == par[e[2]]
<1>3. e[1] \in Pin /\ e[2] \in Pin
  BY EndsOf DEF TypeOK
<1>4. /\ edges' \in Seq(Pairs) /\ ToSet(edges') = ToSet(edges) \cup {e} /\ at' \in 0 .. Len(edges')
      /\ ToSet(edges) \subseteq Pairs
  <2>1. /\ Append(edges, e) \in Seq(Pairs) /\ Len(Append(edges, e)) = Len(edges) + 1
        /\ Len(edges) \in Nat /\ ToSet(Append(edges, e)) = ToSet(edges) \cup {e}
    BY Adding DEF TypeOK
  <2>2. at \in 0 .. Len(edges) + 1
    BY <2>1 DEF TypeOK
  <2> QED BY <1>1, <1>2, <2>1, <2>2, MembersOf DEF TypeOK
<1>5. u \in Root /\ v \in Root /\ u \in Pin /\ v \in Pin
  BY <1>3 DEF TypeOK, Root
<1>6. CASE u = v \/ sz[u] + sz[v] > MAX_PIN_SIZE
  <2>1. UNCHANGED <<par, sz>> /\ Root' = Root
    BY <1>1, <1>2, <1>6 DEF Root
  <2>2. TypeOK'
    BY <1>2, <1>4, <2>1 DEF TypeOK
  <2>3. \A r : Group(r)' = Group(r)
    BY <1>2, <2>1 DEF Group
  <2>4. JoinOK'
    BY <1>2, <1>4, <1>6, <2>1, <2>3 DEF JoinOK
  <2> QED BY <1>2, <2>2, <2>4
<1>7. CASE ~ (u = v \/ sz[u] + sz[v] > MAX_PIN_SIZE)
  <2>1. PICK a \in Root, b \in Root :
          /\ (a = u /\ b = v) \/ (a = v /\ b = u)
          /\ par' = Joined(a, b) /\ sz' = [sz EXCEPT ![b] = @ + sz[a]]
    BY <1>1, <1>5, <1>7 DEF SmallerFirst
  <2>2. a # b /\ a \in Pin /\ b \in Pin
    BY <1>5, <1>7, <2>1
  <2>3. sz[a] \in Nat /\ sz[b] \in Nat /\ sz[a] + sz[b] <= MAX_PIN_SIZE /\ MAX_PIN_SIZE \in Nat
    <3>1. sz[u] \in Nat /\ sz[v] \in Nat /\ MAX_PIN_SIZE \in Nat
      BY <1>5, PinsOf DEF TypeOK
    <3>2. sz[u] + sz[v] <= MAX_PIN_SIZE
      BY <1>7, <3>1
    <3> HIDE DEF u, v
    <3>3. CASE a = u /\ b = v
      BY <3>1, <3>2, <3>3
    <3>4. CASE a = v /\ b = u
      BY <3>1, <3>2, <3>4
    <3> QED BY <2>1, <3>3, <3>4
  <2> HIDE DEF u, v
  <2>4. /\ par' \in [Pin -> Pin]
        /\ \A p \in Pin : par'[p] = IF par[p] = a THEN b ELSE par[p]
        /\ Root' = Root \ {a} /\ \A p \in Pin : par'[p] \in Root'
        /\ \A p, q \in Pin : par[p] = par[q] => par'[p] = par'[q]
        /\ \A r : r # a /\ r # b => Group(r)' = Group(r)
        /\ Group(b)' = Group(a) \cup Group(b)
    BY <1>2, <2>1, <2>2, Joining
  <2>5. /\ sz' \in [Pin -> Nat] /\ sz'[b] = sz[a] + sz[b]
        /\ \A p \in Pin : p # b => sz'[p] = sz[p]
    <3>1. sz' = [sz EXCEPT ![b] = sz[b] + sz[a]] /\ sz \in [Pin -> Nat]
      BY <2>1 DEF TypeOK
    <3>2. sz[b] + sz[a] \in Nat /\ sz[b] + sz[a] = sz[a] + sz[b]
      BY <2>3
    <3> QED BY <2>2, <3>1, <3>2
  <2>6. TypeOK'
    BY <1>2, <1>4, <2>4, <2>5 DEF TypeOK
  <2>7. \A r \in Root' : sz'[r] = Cardinality(Group(r)') /\ sz'[r] <= MAX_PIN_SIZE
    <3>1. sz'[b] = Cardinality(Group(b)') /\ sz'[b] <= MAX_PIN_SIZE
      <4>1. Cardinality(Group(a) \cup Group(b)) = Cardinality(Group(a)) + Cardinality(Group(b))
        BY <2>2, GroupSizes
      <4>2. sz[a] = Cardinality(Group(a)) /\ sz[b] = Cardinality(Group(b))
        BY <2>2 DEF JoinOK
      <4> QED BY <2>3, <2>4, <2>5, <4>1, <4>2
    <3>2. \A r \in Root : r # a /\ r # b => sz'[r] = sz[r]
      BY <2>5 DEF Root
    <3>3. ASSUME NEW r \in Root, r # a, r # b
          PROVE  sz'[r] = Cardinality(Group(r)') /\ sz'[r] <= MAX_PIN_SIZE
      <4>1. Group(r)' = Group(r) /\ sz'[r] = sz[r]
        BY <2>4, <3>2, <3>3
      <4>2. sz[r] = Cardinality(Group(r)) /\ sz[r] <= MAX_PIN_SIZE
        BY DEF JoinOK
      <4> QED BY <4>1, <4>2
    <3> QED BY <2>4, <3>1, <3>3
  <2>8. \A p \in Pin : par[p] \in Root /\ par[p] \in Pin /\ sz[par[p]] \in Nat
                       /\ sz'[par'[p]] \in Nat /\ sz'[par'[p]] >= sz[par[p]]
    <3> SUFFICES ASSUME NEW p \in Pin
                 PROVE  par[p] \in Root /\ par[p] \in Pin /\ sz[par[p]] \in Nat
                        /\ sz'[par'[p]] \in Nat /\ sz'[par'[p]] >= sz[par[p]]
      OBVIOUS
    <3>1. par[p] \in Root /\ par[p] \in Pin /\ sz[par[p]] \in Nat
      BY DEF TypeOK
    <3>2. CASE par[p] = a \/ par[p] = b
      <4>1. par'[p] = b
        BY <2>4, <3>2
      <4> QED BY <2>3, <2>5, <3>1, <3>2, <4>1
    <3>3. CASE par[p] # a /\ par[p] # b
      <4>1. par'[p] = par[p] /\ sz'[par[p]] = sz[par[p]]
        BY <2>4, <2>5, <3>1, <3>3
      <4> QED BY <3>1, <4>1
    <3> QED BY <3>1, <3>2, <3>3
  <2>9. ASSUME NEW f \in ToSet(edges')
        PROVE  par'[f[1]] = par'[f[2]] \/ sz'[par'[f[1]]] + sz'[par'[f[2]]] > MAX_PIN_SIZE
    <3>1. f \in Pairs
      BY <1>4
    <3>2. f[1] \in Pin /\ f[2] \in Pin
      BY <3>1, EndsOf DEF TypeOK
    <3>3. CASE par[f[1]] = par[f[2]]
      BY <2>4, <3>2, <3>3
    <3>4. CASE f \in ToSet(edges) /\ par[f[1]] # par[f[2]]
      <4>1. sz[par[f[1]]] + sz[par[f[2]]] > MAX_PIN_SIZE
        BY <3>4 DEF JoinOK
      <4> QED BY <2>3, <2>8, <3>2, <4>1
    <3>5. CASE f = e
      BY <1>3, <2>1, <2>2, <2>4, <3>5 DEF u, v, Root
    <3> QED BY <1>4, <3>3, <3>4, <3>5
  <2>10. JoinOK'
    BY <1>2, <2>7, <2>9 DEF JoinOK
  <2> QED BY <1>2, <2>6, <2>10
<1> QED BY <1>6, <1>7
-----------------------------------------------------------------------------
(* Powers of two, as numbers of subsets.                                      *)
LEMMA SubsetsOfInterval ==
  ASSUME NEW k \in Nat
  PROVE  /\ IsFiniteSet(SUBSET (1 .. k)) /\ Cardinality(SUBSET (1 .. k)) = 2^k
         /\ Cardinality(SUBSET (1 .. k)) \in Nat
<1>1. 1 \in Int /\ k \in Int
  OBVIOUS
<1>2. IsFiniteSet(1 .. k) /\ Cardinality(1 .. k) = k
  BY <1>1, FS_Interval
<1>3. IsFiniteSet(SUBSET (1 .. k)) /\ Cardinality(SUBSET (1 .. k)) = 2^Cardinality(1 .. k)
  BY <1>2, FS_SUBSET
<1> QED BY <1>2, <1>3, FS_CardinalityType

LEMMA PowersOfTwo ==
  ASSUME NEW k \in Nat
  PROVE  /\ 2^k \in Nat /\ 2^0 = 1 /\ 2^(k + 1) = 2^k + 2^k
         /\ \A j \in 0 .. k : 2^j \in Nat /\ 2^j <= 2^k
<1> DEFINE Small == SUBSET (1 .. k)
           New   == {s \cup {k + 1} : s \in Small}
<1>1. /\ IsFiniteSet(Small) /\ Cardinality(Small) = 2^k /\ 2^k \in Nat
  BY SubsetsOfInterval
<1>2. 2^0 = 1
  <2>1. 0 \in Nat /\ 1 .. 0 = {}
    OBVIOUS
  <2>2. Cardinality(SUBSET (1 .. 0)) = 2^0
    BY <2>1, SubsetsOfInterval
  <2>3. SUBSET {} = {{}}
    OBVIOUS
  <2>4. Cardinality({{}}) = 1
    BY FS_Singleton
  <2> QED BY <2>1, <2>2, <2>3, <2>4
<1>3. 2^(k + 1) = 2^k + 2^k
  <2>1. k + 1 \in Nat /\ k + 1 \notin 1 .. k /\ 1 .. k + 1 = (1 .. k) \cup {k + 1}
    OBVIOUS
  <2>2. Cardinality(SUBSET (1 .. k + 1)) = 2^(k + 1)
    BY <2>1, SubsetsOfInterval
  <2> HIDE DEF Small, New
  <2>3. SUBSET (1 .. k + 1) = Small \cup New
    <3>1. ASSUME NEW t \in SUBSET (1 .. k + 1) PROVE t \in Small \cup New
      <4>1. CASE k + 1 \in t
        <5>1. t \ {k + 1} \in Small /\ t = (t \ {k + 1}) \cup {k + 1}
          BY <2>1, <4>1 DEF Small
        <5> QED BY <5>1 DEF New
      <4>2. CASE k + 1 \notin t
        BY <2>1, <4>2 DEF Small
      <4> QED BY <4>1, <4>2
    <3>2. ASSUME NEW t \in Small \cup New PROVE t \in SUBSET (1 .. k + 1)
      BY <2>1 DEF Small, New
    <3> QED BY <3>1, <3>2
  <2>4. Small \cap New = {}
    BY <2>1 DEF Small, New
  <2>5. IsFiniteSet(New) /\ Cardinality(New) = Cardinality(Small)
    <3> DEFINE f == [s \in Small |-> s \cup {k + 1}]
    <3>1. f \in Bijection(Small, New)
      <4>1. f \in [Small -> New] /\ \A t \in New : \E s \in Small : f[s] = t
        BY DEF New
      <4>2. ASSUME NEW s \in Small, NEW t \in Small, f[s] = f[t] PROVE s = t
        <5>1. k + 1 \notin s /\ k + 1 \notin t /\ s \cup {k + 1} = t \cup {k + 1}
          BY <2>1, <4>2 DEF Small
        <5> QED BY <5>1
      <4> QED BY <4>1, <4>2 DEF Bijection, Injection, Surjection, IsInjective
    <3> QED BY <1>1, <3>1, FS_Bijection DEF ExistsBijection
  <2>6. Cardinality(Small \cup New) = Cardinality(Small) + Cardinality(New) - Cardinality({})
    BY <1>1, <2>4, <2>5, FS_Union
  <2>7. Cardinality({}) = 0
    BY FS_EmptySet
  <2> DEFINE c == Cardinality(Small)
  <2>8. c \in Nat /\ c = 2^k /\ Cardinality(New) = c
    BY <1>1, <2>5
  <2>9. 2^(k + 1) = c + c - 0
    BY <2>2, <2>3, <2>6, <2>7, <2>8
  <2> HIDE DEF c
  <2> QED BY <2>8, <2>9
<1>4. ASSUME NEW j \in 0 .. k PROVE 2^j \in Nat /\ 2^j <= 2^k
  <2>1. j \in Nat /\ SUBSET (1 .. j) \in SUBSET Small
    OBVIOUS
  <2>2. Cardinality(SUBSET (1 .. j)) = 2^j /\ Cardinality(SUBSET (1 .. j)) \in Nat
    BY <2>1, SubsetsOfInterval
  <2>3. Cardinality(SUBSET (1 .. j)) <= Cardinality(Small)
    BY <1>1, <2>1, FS_Subset
  <2> QED BY <1>1, <2>2, <2>3
<1> QED BY <1>1, <1>2, <1>3, <1>4
-----------------------------------------------------------------------------
(* The places in lists.                                                       *)
LEMMA PlaceOf ==
  ASSUME NEW f
  PROVE  \A x : x \in Places(f) <=> \E k \in DOMAIN f : x \in {k} \X (DOMAIN f[k])
BY DEF Places

LEMMA PlacesInList ==
  ASSUME NEW k, NEW S, NEW s \in Seq(S)
  PROVE  IsFiniteSet({k} \X (DOMAIN s)) /\ Cardinality({k} \X (DOMAIN s)) = Len(s)
         /\ Len(s) \in Nat
<1>1. DOMAIN s = 1 .. Len(s) /\ Len(s) \in Nat /\ 1 \in Int
  BY LenProperties
<1>2. IsFiniteSet(1 .. Len(s)) /\ Cardinality(1 .. Len(s)) = Len(s)
  BY <1>1, FS_Interval
<1>3. IsFiniteSet({k}) /\ Cardinality({k}) = 1
  BY FS_Singleton
<1>4. IsFiniteSet({k} \X (1 .. Len(s)))
      /\ Cardinality({k} \X (1 .. Len(s))) = Cardinality({k}) * Cardinality(1 .. Len(s))
  BY <1>2, <1>3, FS_Product
<1> QED BY <1>1, <1>2, <1>3, <1>4

LEMMA PlacesOfAppended ==
  ASSUME NEW S, NEW lists \in Seq(Seq(S)), NEW s \in Seq(S), IsFiniteSet(Places(lists))
  PROVE  /\ IsFiniteSet(Places(Append(lists, s)))
         /\ Cardinality(Places(Append(lists, s))) = Cardinality(Places(lists)) + Len(s)
<1> DEFINE n    == Len(lists) + 1
           more == Append(lists, s)
           end  == {n} \X (DOMAIN s)
<1>1. /\ n \in Nat \ {0} /\ DOMAIN lists = 1 .. n - 1 /\ DOMAIN more = 1 .. n
      /\ more[n] = s /\ \A k \in 1 .. n - 1 : more[k] = lists[k]
  <2>1. /\ Len(lists) \in Nat /\ DOMAIN lists = 1 .. Len(lists)
        /\ more \in Seq(Seq(S)) /\ Len(more) = Len(lists) + 1
        /\ more[Len(lists) + 1] = s /\ \A k \in 1 .. Len(lists) : more[k] = lists[k]
    BY AppendProperties, LenProperties
  <2>2. DOMAIN more = 1 .. Len(lists) + 1
    BY <2>1, LenProperties
  <2>3. Len(lists) = n - 1 /\ n \in Nat \ {0}
    BY <2>1
  <2> QED BY <2>1, <2>2, <2>3
<1>2. IsFiniteSet(end) /\ Cardinality(end) = Len(s) /\ Len(s) \in Nat
  BY PlacesInList
<1> HIDE DEF n, more
<1>3. n \in 1 .. n /\ \A k : k \in 1 .. n <=> k \in 1 .. n - 1 \/ k = n
  BY <1>1
<1>4. Places(more) = Places(lists) \cup end
  <2>1. ASSUME NEW x, x \in Places(more) PROVE x \in Places(lists) \/ x \in end
    <3>1. PICK k \in 1 .. n : x \in {k} \X (DOMAIN more[k])
      BY <1>1, <2>1, PlaceOf
    <3>2. CASE k = n
      BY <1>1, <3>1, <3>2
    <3>3. CASE k \in 1 .. n - 1
      <4>1. x \in {k} \X (DOMAIN lists[k])
        BY <1>1, <3>1, <3>3
      <4> QED BY <1>1, <3>3, <4>1, PlaceOf
    <3> QED BY <1>3, <3>2, <3>3
  <2>2. ASSUME NEW x, x \in Places(lists) PROVE x \in Places(more)
    <3>1. PICK k \in 1 .. n - 1 : x \in {k} \X (DOMAIN lists[k])
      BY <1>1, <2>2, PlaceOf
    <3>2. x \in {k} \X (DOMAIN more[k]) /\ k \in 1 .. n
      BY <1>1, <1>3, <3>1
    <3> QED BY <1>1, <3>2, PlaceOf
  <2>3. ASSUME NEW x, x \in end PROVE x \in Places(more)
    <3>1. x \in {n} \X (DOMAIN more[n])
      BY <1>1, <2>3
    <3> QED BY <1>1, <1>3, <3>1, PlaceOf
  <2> QED BY <2>1, <2>2, <2>3
<1>5. Places(lists) \cap end = {}
  <2>1. n \notin 1 .. n - 1
    BY <1>1
  <2> QED BY <1>1, <2>1, PlaceOf
<1> HIDE DEF end
<1>6. Cardinality(Places(lists) \cup end)
      = Cardinality(Places(lists)) + Cardinality(end) - Cardinality(Places(lists) \cap end)
      /\ IsFiniteSet(Places(lists) \cup end)
  BY <1>2, FS_Union
<1>7. Cardinality(Places(lists) \cap end) = 0 /\ Cardinality(Places(lists)) \in Nat
  BY <1>5, FS_EmptySet, FS_CardinalityType
<1> QED BY <1>2, <1>4, <1>6, <1>7 DEF more

LEMMA PlacesOfLinked ==
  ASSUME NEW S, NEW D, NEW f, NEW a \in D, NEW b \in D, NEW x \in S, NEW g, a # b,
         DOMAIN f = D, f[a] \in Seq(S), f[b] \in Seq(S), IsFiniteSet(Places(f)), DOMAIN g = D,
         g[a] = Append(f[a], x), g[b] = <<>>, \A k \in D : k # a /\ k # b => g[k] = f[k]
  PROVE  /\ IsFiniteSet(Places(g))
         /\ Cardinality(Places(g)) = Cardinality(Places(f)) - Len(f[b]) + 1
<1> DEFINE old  == {b} \X (DOMAIN f[b])
           rest == Places(f) \ old
           new  == <<a, Len(f[a]) + 1>>
<1>1. /\ DOMAIN g = D /\ DOMAIN f = D /\ g[a] = Append(f[a], x) /\ g[b] = <<>>
      /\ \A k \in D : k # a /\ k # b => g[k] = f[k]
  OBVIOUS
<1>2. /\ Len(f[a]) \in Nat /\ DOMAIN f[a] = 1 .. Len(f[a])
      /\ DOMAIN g[a] = 1 .. Len(f[a]) + 1 /\ DOMAIN g[b] = {}
  <2>1. Append(f[a], x) \in Seq(S) /\ Len(Append(f[a], x)) = Len(f[a]) + 1
    BY AppendProperties
  <2>2. DOMAIN Append(f[a], x) = 1 .. Len(f[a]) + 1
    BY <2>1, LenProperties
  <2> QED BY <1>1, <2>2, LenProperties
<1>3. IsFiniteSet(old) /\ Cardinality(old) = Len(f[b]) /\ Len(f[b]) \in Nat
  BY PlacesInList
<1>4. old \in SUBSET Places(f)
  BY <1>1, PlaceOf
<1>5. \A k : k \in 1 .. Len(f[a]) + 1 <=> k \in 1 .. Len(f[a]) \/ k = Len(f[a]) + 1
  BY <1>2
<1>6. \A p : p \in Places(g) <=> p \in rest \/ p = new
  <2>1. ASSUME NEW p, p \in Places(g) PROVE p \in rest \/ p = new
    <3>1. PICK k \in D : p \in {k} \X (DOMAIN g[k])
      BY <1>1, <2>1, PlaceOf
    <3>2. CASE k = a
      BY <1>1, <1>2, <1>5, <3>1, <3>2, PlaceOf
    <3>3. CASE k = b
      BY <1>2, <3>1, <3>3
    <3>4. CASE k # a /\ k # b
      BY <1>1, <3>1, <3>4, PlaceOf
    <3> QED BY <3>2, <3>3, <3>4
  <2>2. ASSUME NEW p, p \in rest PROVE p \in Places(g)
    <3>1. PICK k \in D : p \in {k} \X (DOMAIN f[k])
      BY <1>1, <2>2, PlaceOf
    <3>2. k # b
      BY <2>2, <3>1
    <3>3. DOMAIN f[k] \subseteq DOMAIN g[k]
      BY <1>1, <1>2, <1>5, <3>2
    <3>4. p \in {k} \X (DOMAIN g[k])
      BY <3>1, <3>3
    <3> QED BY <1>1, <3>4, PlaceOf
  <2>3. new \in Places(g)
    <3>1. new \in {a} \X (DOMAIN g[a])
      BY <1>2, <1>5
    <3> QED BY <1>1, <3>1, PlaceOf
  <2> QED BY <2>1, <2>2, <2>3
<1>7. new \notin rest
  <2>1. Len(f[a]) + 1 \notin DOMAIN f[a]
    BY <1>2
  <2> QED BY <1>1, <2>1, PlaceOf
<1>8. IsFiniteSet(rest) /\ Cardinality(rest) = Cardinality(Places(f)) - Len(f[b])
  <2>1. Places(f) \cap old = old
    BY <1>4
  <2>2. IsFiniteSet(rest)
    BY FS_Subset
  <2>3. Cardinality(rest) = Cardinality(Places(f)) - Cardinality(Places(f) \cap old)
    BY FS_Difference
  <2> QED BY <1>3, <2>1, <2>2, <2>3
<1>9. Places(g) = rest \cup {new}
  BY <1>6
<1> HIDE DEF rest, new
<1>10. IsFiniteSet(rest \cup {new}) /\ Cardinality(rest \cup {new}) = Cardinality(rest) + 1
  BY <1>7, <1>8, FS_AddElement
<1> QED BY <1>8, <1>9, <1>10
-----------------------------------------------------------------------------
(* Between the passes: the lists are the groups.                              *)
LEMMA GroupListed ==
  ASSUME TypeOK, NEW r \in Pin
  PROVE  LET list == Ascending(Group(r))
         IN  /\ list \in Seq(Pin) /\ Len(list) = Cardinality(Group(r)) /\ Len(list) \in Nat
             /\ DOMAIN list = 1 .. Len(list) /\ IsInjective(list)
             /\ \A i \in 1 .. Len(list) : list[i] \in Pin /\ par[list[i]] = r
             /\ \A p \in Pin : par[p] = r => \E i \in 1 .. Len(list) : list[i] = p
<1> DEFINE list == Ascending(Group(r))
<1>1. Group(r) \in SUBSET Pin /\ \A p \in Group(r) : par[p] = r
  BY DEF Group
<1>2. Group(r) \in SUBSET Int /\ IsFiniteSet(Group(r))
  BY <1>1, PinsOf, FS_Subset DEF TypeOK
<1>3. /\ Cardinality(Group(r)) \in Nat
      /\ list \in Seq(Group(r)) /\ Len(list) = Cardinality(Group(r))
      /\ \A i \in Group(r) : \E k \in 1 .. Cardinality(Group(r)) : list[k] = i
      /\ \A k, l \in 1 .. Cardinality(Group(r)) : k < l => list[k] < list[l]
  BY <1>2, AscendingProperties
<1> HIDE DEF list
<1>4. DOMAIN list = 1 .. Len(list) /\ list \in Seq(Pin)
      /\ \A i \in 1 .. Len(list) : list[i] \in Group(r)
  BY <1>1, <1>3, LenProperties, SeqMonotonic, ElementOfSeq
<1>5. ASSUME NEW k \in 1 .. Len(list), NEW l \in 1 .. Len(list), list[k] = list[l]
      PROVE  k = l
  <2>1. list[k] \in Int
    BY <1>2, <1>4
  <2>2. ~ (list[k] < list[l]) /\ ~ (list[l] < list[k])
    BY <1>5, <2>1
  <2>3. ~ (k < l) /\ ~ (l < k)
    BY <1>3, <2>2
  <2> QED BY <1>3, <2>3
<1>6. IsInjective(list)
  BY <1>4, <1>5 DEF IsInjective
<1>7. \A p \in Pin : par[p] = r => p \in Group(r)
  BY DEF Group
<1> QED BY <1>1, <1>3, <1>4, <1>6, <1>7 DEF list

LEMMA ListStep ==
  ASSUME TypeOK, JoinOK, ListGroups
  PROVE  TypeOK' /\ pass' = "link" /\ LinkOK'
<1>1. /\ UNCHANGED <<pos, edges, at, par, sz, subnets>> /\ pass' = "link" /\ at = 0
      /\ ToSet(edges) = Pairs /\ new_pins' = [r \in Pin |-> Ascending(Group(r))]
      /\ subnets = <<>>
  BY DEF ListGroups, JoinOK, Group
<1>2. Pin' = Pin /\ Pairs' = Pairs /\ Root' = Root /\ \A r : LinksOf(r)' = LinksOf(r)
  BY <1>1 DEF Pin, Pairs, Root, LinksOf
<1>3. ASSUME NEW r \in Pin
      PROVE  /\ new_pins'[r] \in Seq(Pin) /\ Len(new_pins'[r]) = Cardinality(Group(r))
             /\ Len(new_pins'[r]) \in Nat
             /\ DOMAIN new_pins'[r] = 1 .. Len(new_pins'[r]) /\ IsInjective(new_pins'[r])
             /\ \A i \in 1 .. Len(new_pins'[r]) :
                  new_pins'[r][i] \in Pin /\ par[new_pins'[r][i]] = r
             /\ \A p \in Pin : par[p] = r => \E i \in 1 .. Len(new_pins'[r]) : new_pins'[r][i] = p
  BY <1>1, GroupListed
<1>4. DOMAIN new_pins' = Pin
  BY <1>1
<1>5. TypeOK'
  <2>1. new_pins' \in [Pin -> Seq(Pin)]
    <3>1. \A r \in Pin : Ascending(Group(r)) \in Seq(Pin)
      BY <1>1, <1>3
    <3> QED BY <1>1, <3>1
  <2> QED BY <1>1, <1>2, <2>1 DEF TypeOK
<1>6. \A r \in Root : r \in Pin /\ par[r] = r /\ sz[r] \in Nat
  BY DEF Root, TypeOK
<1>7. \A r \in Root : sz[r] = Len(new_pins'[r]) /\ sz[r] >= 1
  <2> SUFFICES ASSUME NEW r \in Root PROVE sz[r] = Len(new_pins'[r]) /\ sz[r] >= 1
    OBVIOUS
  <2>1. sz[r] = Len(new_pins'[r])
    BY <1>3, <1>6 DEF JoinOK
  <2>2. PICK i \in 1 .. Len(new_pins'[r]) : new_pins'[r][i] = r
    BY <1>3, <1>6
  <2> QED BY <1>6, <2>1, <2>2
<1>8. ListsOK'
  <2>1. ToSet(edges') = Pairs' /\ \A k \in 1 .. at' : par'[edges'[k][1]] = par'[edges'[k][2]]
    BY <1>1, <1>2
  <2>2. ASSUME NEW p \in Pin \ Root PROVE new_pins'[p] = <<>>
    <3>1. ASSUME NEW i \in 1 .. Len(new_pins'[p]) PROVE FALSE
      <4>1. new_pins'[p][i] \in Pin /\ par[new_pins'[p][i]] = p
        BY <1>3
      <4> QED BY <2>2, <4>1 DEF TypeOK
    <3>2. Len(new_pins'[p]) = 0
      BY <1>3, <3>1
    <3> QED BY <1>3, <3>2, EmptySeq
  <2>3. ASSUME NEW r \in Root
        PROVE  /\ sz'[r] = Len(new_pins'[r]) /\ sz'[r] >= 1 /\ IsInjective(new_pins'[r])
               /\ \A i \in DOMAIN new_pins'[r] : par'[new_pins'[r][i]] = r
    BY <1>1, <1>3, <1>6, <1>7
  <2> QED BY <1>2, <2>1, <2>2, <2>3 DEF ListsOK
<1>9. LargeOK'
  <2>1. ASSUME NEW r \in Root, NEW s \in Root, r # s PROVE sz[r] + sz[s] > 2
    <3>1. PICK e \in Pairs : (e[1] = r /\ e[2] = s) \/ (e[1] = s /\ e[2] = r)
      <4>1. r \in Pin /\ s \in Pin /\ r \in Int /\ s \in Int
        BY <1>6, PinsOf DEF TypeOK
      <4>2. r < s \/ s < r
        BY <2>1, <4>1
      <4>3. <<r, s>> \in Pairs \/ <<s, r>> \in Pairs
        BY <4>1, <4>2 DEF Pairs
      <4>4. <<r, s>>[1] = r /\ <<r, s>>[2] = s /\ <<s, r>>[1] = s /\ <<s, r>>[2] = r
        OBVIOUS
      <4> QED BY <4>3, <4>4
    <3>2. par[e[1]] = e[1] /\ par[e[2]] = e[2] /\ e[1] # e[2]
      BY <1>6, <2>1, <3>1
    <3>3. sz[e[1]] + sz[e[2]] > MAX_PIN_SIZE
      BY <1>1, <3>2 DEF JoinOK
    <3>4. MAX_PIN_SIZE \in Nat /\ MAX_PIN_SIZE >= 2 /\ sz[r] \in Nat /\ sz[s] \in Nat
      BY <1>6, PinsOf DEF TypeOK
    <3>5. sz[r] + sz[s] = sz[e[1]] + sz[e[2]]
      BY <3>1, <3>4
    <3> QED BY <3>3, <3>4, <3>5
  <2>2. ASSUME NEW r \in Root, \A s \in Root : s = r PROVE sz[r] >= 2
    <3>1. Group(r) = Pin
      BY <2>2 DEF Group, TypeOK
    <3>2. sz[r] = Cardinality(Pin)
      BY <3>1 DEF JoinOK
    <3> QED BY <3>2, PinsOf DEF TypeOK
  <2> QED BY <1>1, <1>2, <2>1, <2>2 DEF LargeOK
<1>10. DOMAIN subnets' = {} /\ Len(subnets') = 0
  BY <1>1
<1>11. EmittedOK'
  BY <1>10 DEF EmittedOK
<1>12. CountOK'
  <2>1. Places(subnets') = {}
    BY <1>10 DEF Places
  <2> DEFINE P == Places(new_pins')
             f == [x \in P |-> new_pins'[x[1]][x[2]]]
  <2>2. ASSUME NEW x \in P
        PROVE  /\ x[1] \in Pin /\ x[2] \in 1 .. Len(new_pins'[x[1]]) /\ x = <<x[1], x[2]>>
               /\ f[x] \in Pin /\ par[f[x]] = x[1]
    <3>1. PICK r \in Pin : x \in {r} \X (DOMAIN new_pins'[r])
      BY <1>4, PlaceOf
    <3>2. x[1] = r /\ x[2] \in 1 .. Len(new_pins'[r]) /\ x = <<x[1], x[2]>>
      BY <1>3, <3>1
    <3> QED BY <1>3, <3>2
  <2>3. ASSUME NEW x \in P, NEW y \in P, f[x] = f[y] PROVE x = y
    <3>1. x[1] = y[1] /\ new_pins'[x[1]][x[2]] = new_pins'[x[1]][y[2]]
      BY <2>2, <2>3
    <3>2. x[2] = y[2]
      BY <1>3, <2>2, <3>1 DEF IsInjective
    <3> QED BY <2>2, <3>1, <3>2
  <2>4. ASSUME NEW p \in Pin PROVE \E x \in P : f[x] = p
    <3>1. par[p] \in Pin
      BY DEF TypeOK
    <3>2. PICK i \in 1 .. Len(new_pins'[par[p]]) : new_pins'[par[p]][i] = p
      BY <1>3, <3>1
    <3>3. <<par[p], i>> \in {par[p]} \X (DOMAIN new_pins'[par[p]])
      BY <1>3, <3>1, <3>2
    <3>4. <<par[p], i>> \in P
      BY <1>4, <3>1, <3>3, PlaceOf
    <3>5. f[<<par[p], i>>] = p
      BY <3>2, <3>4
    <3> QED BY <3>4, <3>5
  <2>5. f \in [P -> Pin]
    BY <2>2
  <2> HIDE DEF f, P
  <2>6. f \in Injection(P, Pin) /\ f \in Surjection(P, Pin)
    BY <2>3, <2>4, <2>5 DEF Injection, Surjection, IsInjective
  <2>7. IsFiniteSet(P) /\ Cardinality(P) = Cardinality(Pin) /\ Cardinality(Pin) \in Nat
    BY <2>6, PinsOf, FS_Injection DEF TypeOK
  <2>8. Cardinality({}) = 0 /\ IsFiniteSet({})
    BY FS_EmptySet
  <2> QED BY <1>2, <1>10, <2>1, <2>7, <2>8 DEF CountOK, P
<1>13. ConnectedOK'
  <2> SUFFICES ASSUME NEW A \in SUBSET Pin, \A r \in Root : Whole(A, new_pins'[r]),
                      NEW p \in Pin, NEW q \in Pin, par[p] = par[q]
               PROVE  p \in A <=> q \in A
    BY <1>1, <1>2 DEF ConnectedOK, Whole
  <2>1. par[p] \in Root /\ par[p] \in Pin
    BY DEF TypeOK
  <2>2. p \in ToSet(new_pins'[par[p]]) /\ q \in ToSet(new_pins'[par[p]])
    BY <1>3, <2>1 DEF ToSet
  <2>3. Whole(A, new_pins'[par[p]])
    BY <2>1
  <2> QED BY <2>2, <2>3 DEF Whole
<1>14. WeightOK'
  BY <1>1, <1>2, <1>6, <1>7, <1>10 DEF WeightOK, Within, JoinOK
<1> QED BY <1>1, <1>5, <1>8, <1>9, <1>11, <1>12, <1>13, <1>14 DEF LinkOK
-----------------------------------------------------------------------------
(* The second pass.  Group a is given pin x of group b, whose list is emitted. *)
Links(a, b, x) ==
  /\ a # b /\ par[x] = b /\ sz[a] <= sz[b]
  /\ sz' = [sz EXCEPT ![a] = @ + 1]
  /\ subnets' = Append(subnets, new_pins[b])
  /\ new_pins' = [new_pins EXCEPT ![a] = Append(@, x), ![b] = <<>>]
  /\ par' = Joined(b, a)
  /\ UNCHANGED <<pos, pass, edges>>

LEMMA LinkCases ==
  ASSUME TypeOK, ListsOK, LinkGroups
  PROVE  /\ pass = "link" /\ UNCHANGED <<pos, pass, edges>>
         /\ at' = at + 1 /\ at + 1 \in 1 .. Len(edges) /\ edges[at + 1] \in Pairs
         /\ \/ /\ par[edges[at + 1][1]] = par[edges[at + 1][2]]
               /\ UNCHANGED <<par, sz, new_pins, subnets>>
            \/ \E a, b \in Root : \E x \in Pin :
                 /\ {par[edges[at + 1][1]], par[edges[at + 1][2]]} = {a, b}
                 /\ Links(a, b, x)
<1> DEFINE e == edges[at + 1]
           u == par[e[1]]
           v == par[e[2]]
           o == SmallerFirst(u, v)
<1>1. pass = "link" /\ at < Len(edges) /\ at' = at + 1 /\ UNCHANGED <<pos, pass, edges>>
  BY DEF LinkGroups
<1>2. at + 1 \in 1 .. Len(edges) /\ e \in Pairs
  <2>1. at \in Nat /\ Len(edges) \in Nat
    BY LenProperties DEF TypeOK
  <2>2. at + 1 \in 1 .. Len(edges)
    BY <1>1, <2>1
  <2> QED BY <2>2, ElementOfSeq DEF TypeOK
<1>3. e[1] \in Pin /\ e[2] \in Pin /\ ToSet(e) = {e[1], e[2]}
  BY <1>2, EndsOf DEF TypeOK
<1>4. u \in Root /\ v \in Root /\ sz[u] \in Nat /\ sz[v] \in Nat
  BY <1>3 DEF TypeOK
<1>5. IF u = v THEN UNCHANGED <<par, sz, new_pins, subnets>>
      ELSE /\ sz' = [sz EXCEPT ![o[1]] = @ + 1]
           /\ subnets' = Append(subnets, new_pins[o[2]])
           /\ new_pins' = [new_pins EXCEPT ![o[1]] = Append(@, FarEnd(e, o[1])), ![o[2]] = <<>>]
           /\ par' = Joined(o[2], o[1])
  BY DEF LinkGroups
<1>6. ASSUME u # v
      PROVE  \E a, b \in Root : \E x \in Pin : {u, v} = {a, b} /\ Links(a, b, x)
  <2>1. PICK a \in Root, b \in Root : o = <<a, b>> /\ {u, v} = {a, b} /\ a # b /\ sz[a] <= sz[b]
    BY <1>4, <1>6 DEF SmallerFirst
  <2> DEFINE far == FarEnd(e, a)
  <2>2. far \in {e[1], e[2]} /\ par[far] # a
    <3>1. \E p \in ToSet(e) : par[p] # a
      BY <1>3, <1>6
    <3> QED BY <1>3, <3>1 DEF FarEnd
  <2>3. far \in Pin /\ par[far] = b
    <3> HIDE DEF far
    <3> QED BY <1>3, <2>1, <2>2
  <2> HIDE DEF far
  <2>4. PICK x \in Pin : x = far
    BY <2>3
  <2>5. o[1] = a /\ o[2] = b
    BY <2>1
  <2>6. /\ sz' = [sz EXCEPT ![a] = @ + 1]
        /\ subnets' = Append(subnets, new_pins[b])
        /\ new_pins' = [new_pins EXCEPT ![a] = Append(@, x), ![b] = <<>>]
        /\ par' = Joined(b, a)
    <3> HIDE DEF e, u, v, o
    <3> QED BY <1>5, <1>6, <2>4, <2>5 DEF far
  <2>7. Links(a, b, x)
    BY <1>1, <2>1, <2>3, <2>4, <2>6 DEF Links
  <2> QED BY <2>1, <2>7
<1> QED BY <1>1, <1>2, <1>5, <1>6

(* What a link changes.                                                       *)
LinkChanges(a, b, x) ==
  /\ a # b /\ Pin' = Pin /\ Pairs' = Pairs /\ a \in Pin /\ b \in Pin
  /\ par' \in [Pin -> Pin] /\ Root' = Root \ {b}
  /\ \A p \in Pin : par'[p] = IF par[p] = b THEN a ELSE par[p]
  /\ \A p \in Pin : par'[p] \in Root'
  /\ \A p, q \in Pin : par[p] = par[q] => par'[p] = par'[q]
  /\ sz' \in [Pin -> Nat] /\ sz'[a] = sz[a] + 1 /\ \A r \in Pin : r # a => sz'[r] = sz[r]
  /\ new_pins' \in [Pin -> Seq(Pin)] /\ new_pins'[b] = <<>>
  /\ new_pins'[a] = Append(new_pins[a], x)
  /\ \A r \in Pin : r # a /\ r # b => new_pins'[r] = new_pins[r]

LEMMA Linked ==
  ASSUME TypeOK, NEW a \in Root, NEW b \in Root, NEW x \in Pin, Links(a, b, x)
  PROVE  LinkChanges(a, b, x)
<1>1. a # b /\ UNCHANGED pos /\ par' = Joined(b, a) /\ Pairs' = Pairs
  BY DEF Links, Pairs, Pin
<1>2. a \in Pin /\ b \in Pin
  BY DEF Root
<1>3. /\ Pin' = Pin /\ par' \in [Pin -> Pin] /\ Root' = Root \ {b}
      /\ \A p \in Pin : par'[p] = IF par[p] = b THEN a ELSE par[p]
      /\ \A p \in Pin : par'[p] \in Root'
      /\ \A p, q \in Pin : par[p] = par[q] => par'[p] = par'[q]
  BY <1>1, Joining
<1>4. /\ sz' \in [Pin -> Nat] /\ sz'[a] = sz[a] + 1
      /\ \A r \in Pin : r # a => sz'[r] = sz[r]
  <2>1. sz' = [sz EXCEPT ![a] = @ + 1]
    BY DEF Links
  <2>2. sz \in [Pin -> Nat]
    BY DEF TypeOK
  <2>3. sz[a] \in Nat /\ sz[a] + 1 \in Nat
    BY <1>2, <2>2
  <2> QED BY <1>2, <2>1, <2>2, <2>3
<1>5. Append(new_pins[a], x) \in Seq(Pin) /\ <<>> \in Seq(Pin)
  BY <1>2, AppendProperties DEF TypeOK
<1>6. /\ new_pins' \in [Pin -> Seq(Pin)] /\ new_pins'[b] = <<>>
      /\ new_pins'[a] = Append(new_pins[a], x)
      /\ \A r \in Pin : r # a /\ r # b => new_pins'[r] = new_pins[r]
  BY <1>1, <1>2, <1>5 DEF Links, TypeOK
<1> QED BY <1>1, <1>2, <1>3, <1>4, <1>6 DEF LinkChanges

LEMMA Emitted ==
  ASSUME TypeOK, NEW a \in Root, NEW b \in Root, NEW x \in Pin, Links(a, b, x)
  PROVE  /\ subnets' \in Seq(Seq(Pin)) /\ Len(subnets) \in Nat /\ Len(subnets') = Len(subnets) + 1
         /\ DOMAIN subnets = 1 .. Len(subnets) /\ DOMAIN subnets' = 1 .. Len(subnets) + 1
         /\ \A k \in 1 .. Len(subnets) : subnets'[k] = subnets[k] /\ subnets[k] \in Seq(Pin)
         /\ subnets'[Len(subnets) + 1] = new_pins[b] /\ new_pins[b] \in Seq(Pin)
         /\ \A k : k \in 1 .. Len(subnets) + 1 <=> k \in 1 .. Len(subnets) \/ k = Len(subnets) + 1
<1>1. b \in Pin /\ new_pins[b] \in Seq(Pin) /\ subnets \in Seq(Seq(Pin))
      /\ subnets' = Append(subnets, new_pins[b])
  BY DEF Links, Root, TypeOK
<1>2. /\ subnets' \in Seq(Seq(Pin)) /\ Len(subnets') = Len(subnets) + 1
      /\ DOMAIN subnets' = 1 .. Len(subnets) + 1 /\ Len(subnets) \in Nat
      /\ \A k \in 1 .. Len(subnets) : subnets'[k] = subnets[k]
      /\ subnets'[Len(subnets) + 1] = new_pins[b]
  BY <1>1, Adding
<1>3. DOMAIN subnets = 1 .. Len(subnets)
      /\ \A k \in 1 .. Len(subnets) : subnets[k] \in Seq(Pin)
  BY <1>1, LenProperties, ElementOfSeq
<1> QED BY <1>1, <1>2, <1>3

LEMMA LinkKeepsLists ==
  ASSUME TypeOK, ListsOK, NEW a \in Root, NEW b \in Root, NEW x \in Pin, Links(a, b, x),
         at' = at + 1, at + 1 \in 1 .. Len(edges), edges[at + 1] \in Pairs,
         {par[edges[at + 1][1]], par[edges[at + 1][2]]} = {a, b}
  PROVE  ListsOK'
<1>1. /\ a # b /\ Pin' = Pin /\ Pairs' = Pairs /\ a \in Pin /\ b \in Pin /\ Root' = Root \ {b}
      /\ \A p \in Pin : par'[p] = IF par[p] = b THEN a ELSE par[p]
      /\ \A p, q \in Pin : par[p] = par[q] => par'[p] = par'[q]
      /\ sz'[a] = sz[a] + 1 /\ \A r \in Pin : r # a => sz'[r] = sz[r]
      /\ new_pins'[b] = <<>> /\ new_pins'[a] = Append(new_pins[a], x)
      /\ \A r \in Pin : r # a /\ r # b => new_pins'[r] = new_pins[r]
  <2>1. LinkChanges(a, b, x)
    BY Linked
  <2> QED BY <2>1 DEF LinkChanges
<1>2. edges' = edges /\ par[x] = b /\ par[a] = a /\ sz[a] \in Nat
      /\ \A r \in Pin : new_pins[r] \in Seq(Pin)
  BY <1>1 DEF Links, Root, TypeOK
<1>3. \A k \in 1 .. at' : par'[edges'[k][1]] = par'[edges'[k][2]]
  <2>1. edges[at + 1][1] \in Pin /\ edges[at + 1][2] \in Pin
    BY EndsOf DEF TypeOK
  <2>2. par'[edges[at + 1][1]] = par'[edges[at + 1][2]]
    <3>1. \A p \in Pin : par[p] \in {a, b} => par'[p] = a
      BY <1>1
    <3>2. par[edges[at + 1][1]] \in {a, b} /\ par[edges[at + 1][2]] \in {a, b}
      OBVIOUS
    <3> QED BY <2>1, <3>1, <3>2
  <2>3. ASSUME NEW k \in 1 .. at PROVE par'[edges[k][1]] = par'[edges[k][2]]
    <3>1. k \in 1 .. Len(edges)
      BY LenProperties DEF TypeOK
    <3>2. edges[k] \in Pairs
      BY <3>1, ElementOfSeq DEF TypeOK
    <3>3. edges[k][1] \in Pin /\ edges[k][2] \in Pin
      BY <3>2, EndsOf DEF TypeOK
    <3> QED BY <1>1, <3>3 DEF ListsOK
  <2>4. at \in Nat
    BY LenProperties DEF TypeOK
  <2> QED BY <1>2, <2>2, <2>3, <2>4
<1> DEFINE n == Len(new_pins[a])
<1>4. /\ n \in Nat /\ DOMAIN new_pins[a] = 1 .. n /\ sz[a] = n /\ IsInjective(new_pins[a])
      /\ \A i \in 1 .. n : new_pins[a][i] \in Pin /\ par[new_pins[a][i]] = a
  BY <1>1, <1>2, LenProperties, ElementOfSeq DEF ListsOK
<1>5. /\ Len(new_pins'[a]) = n + 1 /\ DOMAIN new_pins'[a] = 1 .. n + 1
      /\ \A k \in 1 .. n : new_pins'[a][k] = new_pins[a][k]
      /\ new_pins'[a][n + 1] = x
  BY <1>1, <1>2, Adding
<1> HIDE DEF n
<1>6. \A k : k \in 1 .. n + 1 <=> k \in 1 .. n \/ k = n + 1
  BY <1>4
<1>7. sz'[a] = Len(new_pins'[a]) /\ sz'[a] >= 1
  BY <1>1, <1>4, <1>5
<1>8. IsInjective(new_pins'[a])
  <2>1. \A k \in 1 .. n : new_pins'[a][k] # x
    BY <1>1, <1>2, <1>4, <1>5
  <2> SUFFICES ASSUME NEW k \in 1 .. n + 1, NEW l \in 1 .. n + 1,
                      new_pins'[a][k] = new_pins'[a][l]
               PROVE  k = l
    BY <1>5 DEF IsInjective
  <2>2. CASE k \in 1 .. n /\ l \in 1 .. n
    BY <1>4, <1>5, <2>2 DEF IsInjective
  <2>3. CASE k = n + 1 \/ l = n + 1
    BY <1>5, <1>6, <2>1, <2>3
  <2> QED BY <1>6, <2>2, <2>3
<1>9. \A i \in DOMAIN new_pins'[a] : par'[new_pins'[a][i]] = a
  BY <1>1, <1>2, <1>4, <1>5, <1>6
<1>10. ASSUME NEW r \in Root, r # a, r # b
       PROVE  /\ sz'[r] = Len(new_pins'[r]) /\ sz'[r] >= 1 /\ IsInjective(new_pins'[r])
              /\ \A i \in DOMAIN new_pins'[r] : par'[new_pins'[r][i]] = r
  <2>1. r \in Pin /\ sz'[r] = sz[r] /\ new_pins'[r] = new_pins[r]
    BY <1>1, <1>10 DEF Root
  <2>2. \A i \in DOMAIN new_pins[r] : new_pins[r][i] \in Pin /\ par[new_pins[r][i]] = r
    BY <1>2, <2>1, LenProperties, ElementOfSeq DEF ListsOK
  <2>3. sz[r] = Len(new_pins[r]) /\ sz[r] >= 1 /\ IsInjective(new_pins[r])
    BY DEF ListsOK
  <2>4. \A i \in DOMAIN new_pins[r] : par'[new_pins[r][i]] = r
    BY <1>1, <1>10, <2>2
  <2> QED BY <2>1, <2>3, <2>4
<1>11. \A p \in Pin' \ Root' : new_pins'[p] = <<>>
  BY <1>1 DEF ListsOK
<1>12. ToSet(edges') = Pairs'
  BY <1>1, <1>2 DEF ListsOK
<1>13. Root' = Root \ {b}
  BY <1>1
<1>14. ASSUME NEW r \in Root'
       PROVE  /\ sz'[r] = Len(new_pins'[r]) /\ sz'[r] >= 1 /\ IsInjective(new_pins'[r])
              /\ \A i \in DOMAIN new_pins'[r] : par'[new_pins'[r][i]] = r
  <2>1. CASE r = a
    BY <1>7, <1>8, <1>9, <2>1
  <2>2. CASE r # a
    BY <1>10, <1>13, <2>2
  <2> QED BY <2>1, <2>2
<1>15. \A r \in Root' : /\ sz'[r] = Len(new_pins'[r]) /\ sz'[r] >= 1
                        /\ IsInjective(new_pins'[r])
                        /\ \A i \in DOMAIN new_pins'[r] : par'[new_pins'[r][i]] = r
  BY <1>14
<1> QED BY <1>3, <1>11, <1>12, <1>15 DEF ListsOK

LEMMA LinkKeepsLarge ==
  ASSUME TypeOK, ListsOK, LargeOK,
         NEW a \in Root, NEW b \in Root, NEW x \in Pin, Links(a, b, x)
  PROVE  LargeOK' /\ sz[b] >= 2
<1>1. /\ a # b /\ Root' = Root \ {b} /\ sz'[a] = sz[a] + 1
      /\ \A r \in Pin : r # a => sz'[r] = sz[r]
  BY Linked DEF LinkChanges
<1>2. \A r \in Root : r \in Pin /\ sz[r] \in Nat
  BY DEF Root, TypeOK
<1>3. sz[a] + sz[b] > 2 /\ sz[a] <= sz[b]
  BY <1>1 DEF LargeOK, Links
<1>4. \A r \in Root' : r \in Root /\ sz[r] \in Nat /\ sz'[r] \in Nat /\ sz'[r] >= sz[r]
  BY <1>1, <1>2
<1>5. \A r, s \in Root' : r # s => sz'[r] + sz'[s] > 2
  <2> SUFFICES ASSUME NEW r \in Root', NEW s \in Root', r # s PROVE sz'[r] + sz'[s] > 2
    OBVIOUS
  <2>1. sz[r] + sz[s] > 2
    BY <1>4 DEF LargeOK
  <2> QED BY <1>4, <2>1
<1>6. ASSUME NEW r \in Root' PROVE sz'[r] >= 2 \/ \E s \in Root' : s # r
  <2>1. CASE r # a
    BY <1>1, <2>1
  <2>2. CASE r = a
    <3>1. sz[a] \in Nat /\ sz[a] >= 1
      BY <1>2 DEF ListsOK
    <3> QED BY <1>1, <2>2, <3>1
  <2> QED BY <2>1, <2>2
<1> QED BY <1>2, <1>3, <1>5, <1>6 DEF LargeOK

LEMMA LinkKeepsEmitted ==
  ASSUME TypeOK, ListsOK, EmittedOK,
         NEW a \in Root, NEW b \in Root, NEW x \in Pin, Links(a, b, x), sz[b] >= 2
  PROVE  EmittedOK'
<1>1. /\ b \in Pin /\ \A p, q \in Pin : par[p] = par[q] => par'[p] = par'[q]
  <2>1. LinkChanges(a, b, x)
    BY Linked
  <2> QED BY <2>1 DEF LinkChanges
<1>2. /\ Len(subnets) \in Nat /\ DOMAIN subnets = 1 .. Len(subnets)
      /\ DOMAIN subnets' = 1 .. Len(subnets) + 1
      /\ \A k \in 1 .. Len(subnets) : subnets'[k] = subnets[k] /\ subnets[k] \in Seq(Pin)
      /\ subnets'[Len(subnets) + 1] = new_pins[b] /\ new_pins[b] \in Seq(Pin)
      /\ \A k : k \in 1 .. Len(subnets) + 1 <=> k \in 1 .. Len(subnets) \/ k = Len(subnets) + 1
  BY Emitted
<1>3. ASSUME NEW k \in 1 .. Len(subnets)
      PROVE  /\ IsInjective(subnets[k]) /\ Len(subnets[k]) >= 2
             /\ \A i, j \in DOMAIN subnets[k] : par'[subnets[k][i]] = par'[subnets[k][j]]
  <2>1. /\ IsInjective(subnets[k]) /\ Len(subnets[k]) >= 2
        /\ \A i, j \in DOMAIN subnets[k] : par[subnets[k][i]] = par[subnets[k][j]]
    BY <1>2 DEF EmittedOK
  <2>2. \A i \in DOMAIN subnets[k] : subnets[k][i] \in Pin
    BY <1>2, LenProperties, ElementOfSeq
  <2> QED BY <1>1, <2>1, <2>2
<1>4. /\ IsInjective(new_pins[b]) /\ Len(new_pins[b]) >= 2
      /\ \A i, j \in DOMAIN new_pins[b] : par'[new_pins[b][i]] = par'[new_pins[b][j]]
  <2>1. /\ IsInjective(new_pins[b]) /\ Len(new_pins[b]) = sz[b]
        /\ \A i \in DOMAIN new_pins[b] : par[new_pins[b][i]] = b
    BY DEF ListsOK
  <2>2. \A i \in DOMAIN new_pins[b] : new_pins[b][i] \in Pin
    BY <1>2, LenProperties, ElementOfSeq
  <2> QED BY <1>1, <2>1, <2>2
<1>5. \A k \in DOMAIN subnets' : /\ IsInjective(subnets'[k]) /\ Len(subnets'[k]) >= 2
        /\ \A i, j \in DOMAIN subnets'[k] : par'[subnets'[k][i]] = par'[subnets'[k][j]]
  BY <1>2, <1>3, <1>4
<1> QED BY <1>5 DEF EmittedOK

LEMMA LinkKeepsCount ==
  ASSUME TypeOK, ListsOK, CountOK, NEW a \in Root, NEW b \in Root, NEW x \in Pin, Links(a, b, x)
  PROVE  CountOK'
<1>1. a # b /\ Pin' = Pin /\ a \in Pin /\ b \in Pin
  <2>1. LinkChanges(a, b, x)
    BY Linked
  <2> QED BY <2>1 DEF LinkChanges
<1>2. Len(subnets') = Len(subnets) + 1 /\ Len(subnets) \in Nat /\ new_pins[b] \in Seq(Pin)
  BY Emitted
<1>3. /\ IsFiniteSet(Places(Append(subnets, new_pins[b])))
      /\ Cardinality(Places(Append(subnets, new_pins[b])))
           = Cardinality(Places(subnets)) + Len(new_pins[b])
  <2>1. subnets \in Seq(Seq(Pin)) /\ IsFiniteSet(Places(subnets))
    BY DEF TypeOK, CountOK
  <2> QED BY <1>2, <2>1, PlacesOfAppended
<1>4. IsFiniteSet(Places(new_pins'))
      /\ Cardinality(Places(new_pins')) = Cardinality(Places(new_pins)) - Len(new_pins[b]) + 1
  <2>1. /\ new_pins \in [Pin -> Seq(Pin)] /\ IsFiniteSet(Places(new_pins))
        /\ new_pins' \in [Pin -> Seq(Pin)] /\ new_pins'[b] = <<>>
        /\ new_pins'[a] = Append(new_pins[a], x)
        /\ \A r \in Pin : r # a /\ r # b => new_pins'[r] = new_pins[r]
    <3>1. LinkChanges(a, b, x)
      BY Linked
    <3> QED BY <3>1 DEF LinkChanges, TypeOK, CountOK
  <2>2. PICK D, f, g : D = Pin /\ f = new_pins /\ g = new_pins'
    OBVIOUS
  <2>3. /\ IsFiniteSet(Places(f)) /\ DOMAIN f = D /\ DOMAIN g = D /\ f[a] \in Seq(Pin)
        /\ f[b] \in Seq(Pin) /\ a \in D /\ b \in D /\ a # b
        /\ g[a] = Append(f[a], x) /\ g[b] = <<>>
        /\ \A r \in D : r # a /\ r # b => g[r] = f[r]
    BY <1>1, <2>1, <2>2
  <2>4. IsFiniteSet(Places(g)) /\ Cardinality(Places(g)) = Cardinality(Places(f)) - Len(f[b]) + 1
    BY <2>3, PlacesOfLinked
  <2> QED BY <2>2, <2>4
<1>5. subnets' = Append(subnets, new_pins[b])
  BY DEF Links
<1>6. /\ Cardinality(Places(subnets)) \in Nat /\ Cardinality(Places(new_pins)) \in Nat
      /\ Cardinality(Pin) \in Nat /\ Len(new_pins[b]) \in Nat
  BY <1>2, FS_CardinalityType, PinsOf, LenProperties DEF CountOK, TypeOK
<1>7. Cardinality(Places(subnets)) + Cardinality(Places(new_pins))
        = Cardinality(Pin) + Len(subnets)
  BY DEF CountOK
<1>8. Cardinality(Places(subnets')) + Cardinality(Places(new_pins'))
        = Cardinality(Pin) + Len(subnets')
  BY <1>2, <1>3, <1>4, <1>5, <1>6, <1>7
<1>9. IsFiniteSet(Places(subnets')) /\ IsFiniteSet(Places(new_pins'))
  BY <1>3, <1>4, <1>5
<1> QED BY <1>1, <1>8, <1>9 DEF CountOK

LEMMA LinkKeepsConnected ==
  ASSUME TypeOK, ListsOK, ConnectedOK,
         NEW a \in Root, NEW b \in Root, NEW x \in Pin, Links(a, b, x)
  PROVE  ConnectedOK'
<1>1. /\ a # b /\ Pin' = Pin /\ a \in Pin /\ b \in Pin /\ Root' = Root \ {b}
      /\ \A p \in Pin : par'[p] = IF par[p] = b THEN a ELSE par[p]
      /\ new_pins'[a] = Append(new_pins[a], x)
      /\ \A r \in Pin : r # a /\ r # b => new_pins'[r] = new_pins[r]
  <2>1. LinkChanges(a, b, x)
    BY Linked
  <2> QED BY <2>1 DEF LinkChanges
<1>2. /\ Len(subnets) \in Nat /\ DOMAIN subnets = 1 .. Len(subnets)
      /\ DOMAIN subnets' = 1 .. Len(subnets) + 1
      /\ \A k \in 1 .. Len(subnets) : subnets'[k] = subnets[k]
      /\ subnets'[Len(subnets) + 1] = new_pins[b]
      /\ \A k : k \in 1 .. Len(subnets) + 1 <=> k \in 1 .. Len(subnets) \/ k = Len(subnets) + 1
  BY Emitted
<1>3. par[x] = b /\ \A r \in Root : r \in Pin
  BY DEF Links, Root
<1>4. PICK y \in Pin : par[y] = a /\ y \in ToSet(new_pins[a])
  <2>1. /\ new_pins[a] \in Seq(Pin) /\ sz[a] = Len(new_pins[a]) /\ sz[a] >= 1
        /\ \A i \in DOMAIN new_pins[a] : par[new_pins[a][i]] = a
    BY <1>1 DEF TypeOK, ListsOK
  <2>2. 1 \in 1 .. Len(new_pins[a]) /\ DOMAIN new_pins[a] = 1 .. Len(new_pins[a])
    BY <2>1, LenProperties
  <2>3. new_pins[a][1] \in Pin /\ new_pins[a][1] \in ToSet(new_pins[a])
    BY <2>1, <2>2, ElementOfSeq DEF ToSet
  <2> QED BY <2>1, <2>2, <2>3
<1>5. ToSet(new_pins'[a]) = ToSet(new_pins[a]) \cup {x}
  BY <1>1, Adding DEF TypeOK
<1>6. ASSUME NEW A \in SUBSET Pin,
             \A k \in DOMAIN subnets' : Whole(A, subnets'[k]),
             \A r \in Root' : Whole(A, new_pins'[r]),
             NEW p \in Pin, NEW q \in Pin, par'[p] = par'[q]
      PROVE  p \in A <=> q \in A
  <2>1. \A k \in DOMAIN subnets : Whole(A, subnets[k])
    BY <1>2, <1>6
  <2>2. Whole(A, new_pins'[a])
    BY <1>1, <1>6
  <2>3. \A r \in Root : Whole(A, new_pins[r])
    <3>1. Whole(A, new_pins[b])
      BY <1>2, <1>6
    <3>2. Whole(A, new_pins[a])
      BY <1>5, <2>2 DEF Whole
    <3>3. ASSUME NEW r \in Root, r # a, r # b PROVE Whole(A, new_pins[r])
      <4>1. r \in Root' /\ new_pins'[r] = new_pins[r]
        BY <1>1, <1>3, <3>3
      <4> QED BY <1>6, <4>1
    <3> QED BY <3>1, <3>2, <3>3
  <2>4. \A s, t \in Pin : par[s] = par[t] => (s \in A <=> t \in A)
    BY <2>1, <2>3 DEF ConnectedOK
  <2>5. x \in A <=> y \in A
    BY <1>4, <1>5, <2>2 DEF Whole
  <2>6. CASE par[p] = par[q]
    BY <2>4, <2>6
  <2>7. CASE par[p] = b /\ par[q] = a
    <3>1. (p \in A <=> x \in A) /\ (q \in A <=> y \in A)
      BY <1>3, <1>4, <2>4, <2>7
    <3> QED BY <2>5, <3>1
  <2>8. CASE par[p] = a /\ par[q] = b
    <3>1. (p \in A <=> y \in A) /\ (q \in A <=> x \in A)
      BY <1>3, <1>4, <2>4, <2>8
    <3> QED BY <2>5, <3>1
  <2>9. par'[p] = (IF par[p] = b THEN a ELSE par[p]) /\ par'[q] = (IF par[q] = b THEN a ELSE par[q])
    BY <1>1
  <2> QED BY <1>6, <2>6, <2>7, <2>8, <2>9
<1>7. \A A \in SUBSET Pin :
        (/\ \A k \in DOMAIN subnets' : Whole(A, subnets'[k])
         /\ \A r \in Root' : Whole(A, new_pins'[r]))
        => \A p, q \in Pin : par'[p] = par'[q] => (p \in A <=> q \in A)
  BY <1>6
<1> QED BY <1>1, <1>7 DEF ConnectedOK, Whole

LEMMA LinksFinite ==
  ASSUME TypeOK, NEW r
  PROVE  /\ IsFiniteSet(LinksOf(r)) /\ Cardinality(LinksOf(r)) \in Nat
         /\ Cardinality(LinksOf(r)) <= Len(subnets) /\ Len(subnets) \in Nat
         /\ LinksOf(r) \in SUBSET (1 .. Len(subnets))
<1>1. /\ DOMAIN subnets = 1 .. Len(subnets) /\ Len(subnets) \in Nat
      /\ 1 \in Int /\ Len(subnets) \in Int
  BY LenProperties DEF TypeOK
<1>2. IsFiniteSet(1 .. Len(subnets)) /\ Cardinality(1 .. Len(subnets)) = Len(subnets)
  <2>1. \A n \in Nat : IsFiniteSet(1 .. n) /\ Cardinality(1 .. n) = n
    BY FS_Interval
  <2> QED BY <1>1, <2>1
<1>3. LinksOf(r) \in SUBSET (1 .. Len(subnets))
  BY <1>1 DEF LinksOf
<1>4. IsFiniteSet(LinksOf(r)) /\ Cardinality(LinksOf(r)) <= Cardinality(1 .. Len(subnets))
  BY <1>2, <1>3, FS_Subset
<1> QED BY <1>1, <1>2, <1>3, <1>4, FS_CardinalityType

LEMMA WithinMore ==
  ASSUME NEW list \in Seq(Pin), NEW m \in Nat, NEW n \in Nat, m <= n, Within(list, m)
  PROVE  Within(list, n)
<1>1. MAX_PIN_SIZE \in Nat /\ Len(list) \in Nat
  BY SplitAssumption, LenProperties
<1> SUFFICES ASSUME ~ (Len(list) <= MAX_PIN_SIZE) PROVE 2^(Len(list) - MAX_PIN_SIZE) <= n
  BY DEF Within
<1>2. Len(list) - MAX_PIN_SIZE \in Nat
  BY <1>1
<1>3. 2^(Len(list) - MAX_PIN_SIZE) \in Nat
  BY <1>2, PowersOfTwo
<1>4. 2^(Len(list) - MAX_PIN_SIZE) <= m
  BY DEF Within
<1> QED BY <1>3, <1>4

(* When the list of a grows beyond the limit, so had that of b: both halves of *)
(* the doubled number of groups are there.                                     *)
LEMMA TwoHeavy ==
  ASSUME NEW m \in Nat, NEW n \in Nat, NEW c \in Nat, NEW d \in Nat, m <= n,
         m <= MAX_PIN_SIZE \/ 2^(m - MAX_PIN_SIZE) <= c + 1,
         n <= MAX_PIN_SIZE \/ 2^(n - MAX_PIN_SIZE) <= d + 1
  PROVE  m + 1 <= MAX_PIN_SIZE \/ 2^(m + 1 - MAX_PIN_SIZE) <= c + d + 2
<1> MAX_PIN_SIZE \in Nat
  BY SplitAssumption
<1> SUFFICES ASSUME ~ (m + 1 <= MAX_PIN_SIZE) PROVE 2^(m + 1 - MAX_PIN_SIZE) <= c + d + 2
  OBVIOUS
<1> DEFINE k == m - MAX_PIN_SIZE
           j == n - MAX_PIN_SIZE
<1>1. k \in Nat /\ j \in Nat /\ k \in 0 .. j /\ m + 1 - MAX_PIN_SIZE = k + 1
  OBVIOUS
<1>2. (k = 0 \/ 2^k <= c + 1) /\ (j = 0 \/ 2^j <= d + 1)
  OBVIOUS
<1> HIDE DEF k, j
<1>3. 2^k \in Nat /\ 2^j \in Nat /\ 2^0 = 1 /\ 2^(k + 1) = 2^k + 2^k /\ 2^k <= 2^j
  BY <1>1, PowersOfTwo
<1>4. 2^k <= c + 1
  <2>1. CASE k = 0
    <3>1. 2^k = 1
      BY <1>3, <2>1
    <3> QED BY <3>1
  <2> QED BY <1>2, <2>1
<1>5. 2^j <= d + 1
  <2>1. CASE j = 0
    <3>1. 2^j = 1
      BY <1>3, <2>1
    <3> QED BY <3>1
  <2> QED BY <1>2, <2>1
<1>6. 2^(k + 1) <= c + d + 2
  BY <1>3, <1>4, <1>5
<1> QED BY <1>1, <1>6

LEMMA LinkKeepsWeight ==
  ASSUME TypeOK, ListsOK, EmittedOK, WeightOK,
         NEW a \in Root, NEW b \in Root, NEW x \in Pin, Links(a, b, x), sz[b] >= 2
  PROVE  WeightOK'
<1> DEFINE n == Len(subnets)
<1>1. /\ a # b /\ Pin' = Pin /\ a \in Pin /\ b \in Pin /\ Root' = Root \ {b}
      /\ \A p \in Pin : par'[p] = IF par[p] = b THEN a ELSE par[p]
      /\ new_pins'[a] = Append(new_pins[a], x)
      /\ \A r \in Pin : r # a /\ r # b => new_pins'[r] = new_pins[r]
  <2>1. LinkChanges(a, b, x)
    BY Linked
  <2> QED BY <2>1 DEF LinkChanges
<1>2. /\ n \in Nat /\ Len(subnets') = n + 1 /\ DOMAIN subnets = 1 .. n
      /\ DOMAIN subnets' = 1 .. n + 1 /\ new_pins[b] \in Seq(Pin)
      /\ \A k \in 1 .. n : subnets'[k] = subnets[k] /\ subnets[k] \in Seq(Pin)
      /\ subnets'[n + 1] = new_pins[b]
      /\ \A k : k \in 1 .. n + 1 <=> k \in 1 .. n \/ k = n + 1
  BY Emitted
<1> HIDE DEF n
<1>3. par[a] = a /\ par[b] = b /\ new_pins[a] \in Seq(Pin) /\ sz[a] <= sz[b]
      /\ sz[a] = Len(new_pins[a]) /\ sz[b] = Len(new_pins[b]) /\ sz[a] \in Nat /\ sz[b] \in Nat
  BY <1>1 DEF Root, TypeOK, ListsOK, Links
<1>4. ASSUME NEW k \in 1 .. n PROVE subnets[k][1] \in Pin
  <2>1. Len(subnets[k]) >= 2 /\ subnets[k] \in Seq(Pin)
    BY <1>2 DEF EmittedOK
  <2>2. 1 \in 1 .. Len(subnets[k])
    BY <2>1, LenProperties
  <2> QED BY <2>1, <2>2, ElementOfSeq
<1>5. new_pins[b][1] \in Pin /\ par[new_pins[b][1]] = b
  <2>1. 1 \in 1 .. Len(new_pins[b]) /\ DOMAIN new_pins[b] = 1 .. Len(new_pins[b])
    BY <1>2, <1>3, LenProperties
  <2> QED BY <1>2, <2>1, ElementOfSeq DEF ListsOK
<1>6. \A k \in 1 .. n : par'[subnets'[k][1]] = IF par[subnets[k][1]] = b THEN a
                                               ELSE par[subnets[k][1]]
  BY <1>1, <1>2, <1>4
<1>7. par'[subnets'[n + 1][1]] = a
  BY <1>1, <1>2, <1>5
<1>8. \A r \in Root' : r # a => LinksOf(r)' = LinksOf(r)
  <2> SUFFICES ASSUME NEW r \in Root', r # a, NEW k
               PROVE  k \in LinksOf(r)' <=> k \in LinksOf(r)
    OBVIOUS
  <2>1. r # b
    BY <1>1
  <2>2. k \in LinksOf(r)' <=> k \in 1 .. n + 1 /\ par'[subnets'[k][1]] = r
    BY <1>2 DEF LinksOf
  <2>3. k \in LinksOf(r) <=> k \in 1 .. n /\ par[subnets[k][1]] = r
    BY <1>2 DEF LinksOf
  <2> QED BY <1>2, <1>6, <1>7, <2>1, <2>2, <2>3
<1>9. LinksOf(a)' = (LinksOf(a) \cup LinksOf(b)) \cup {n + 1}
  <2>1. ASSUME NEW k
        PROVE  k \in LinksOf(a)' <=> k \in LinksOf(a) \/ k \in LinksOf(b) \/ k = n + 1
    <3>1. k \in LinksOf(a)' <=> k \in 1 .. n + 1 /\ par'[subnets'[k][1]] = a
      BY <1>2 DEF LinksOf
    <3>2. k \in LinksOf(a) <=> k \in 1 .. n /\ par[subnets[k][1]] = a
      BY <1>2 DEF LinksOf
    <3>3. k \in LinksOf(b) <=> k \in 1 .. n /\ par[subnets[k][1]] = b
      BY <1>2 DEF LinksOf
    <3> QED BY <1>1, <1>2, <1>6, <1>7, <3>1, <3>2, <3>3
  <2> QED BY <2>1
<1> DEFINE c == Cardinality(LinksOf(a))
           d == Cardinality(LinksOf(b))
<1>10. /\ c \in Nat /\ d \in Nat /\ d <= n /\ n + 1 \notin LinksOf(a) \cup LinksOf(b)
       /\ IsFiniteSet(LinksOf(a)) /\ IsFiniteSet(LinksOf(b))
  BY <1>2, LinksFinite DEF n
<1>11. Cardinality(LinksOf(a)') = c + d + 1
  <2>1. LinksOf(a) \cap LinksOf(b) = {}
    BY <1>1 DEF LinksOf
  <2>2. /\ IsFiniteSet(LinksOf(a) \cup LinksOf(b))
        /\ Cardinality(LinksOf(a) \cup LinksOf(b)) = c + d - Cardinality(LinksOf(a) \cap LinksOf(b))
    BY <1>10, FS_Union
  <2>3. Cardinality(LinksOf(a) \cap LinksOf(b)) = 0
    BY <2>1, FS_EmptySet
  <2>4. Cardinality((LinksOf(a) \cup LinksOf(b)) \cup {n + 1})
          = Cardinality(LinksOf(a) \cup LinksOf(b)) + 1
    BY <1>10, <2>2, FS_AddElement
  <2> HIDE DEF c, d
  <2> QED BY <1>9, <1>10, <2>2, <2>3, <2>4
<1>12. Within(new_pins[a], c + 1) /\ Within(new_pins[b], d + 1)
  BY DEF WeightOK
<1> HIDE DEF c, d
<1>13. Within(new_pins'[a], c + d + 2)
  <2>1. Len(new_pins'[a]) = sz[a] + 1
    BY <1>1, <1>3, Adding
  <2>2. PICK m \in Nat : m = sz[a]
    BY <1>3
  <2>3. /\ m <= MAX_PIN_SIZE \/ 2^(m - MAX_PIN_SIZE) <= c + 1
        /\ sz[b] <= MAX_PIN_SIZE \/ 2^(sz[b] - MAX_PIN_SIZE) <= d + 1
    BY <1>3, <1>12, <2>2 DEF Within
  <2>4. m + 1 <= MAX_PIN_SIZE \/ 2^(m + 1 - MAX_PIN_SIZE) <= c + d + 2
    BY <1>3, <1>10, <2>2, <2>3, TwoHeavy
  <2>5. Len(new_pins'[a]) = m + 1 /\ m + 1 \in Nat /\ MAX_PIN_SIZE \in Nat
    BY <2>1, <2>2, SplitAssumption
  <2> QED BY <2>4, <2>5 DEF Within
<1>14. \A r \in Root' : Within(new_pins'[r], Cardinality(LinksOf(r)') + 1)
  <2>1. Within(new_pins'[a], Cardinality(LinksOf(a)') + 1)
    <3>1. Cardinality(LinksOf(a)') + 1 = c + d + 2
      BY <1>10, <1>11
    <3> QED BY <1>13, <3>1
  <2>2. ASSUME NEW r \in Root', r # a
        PROVE  Within(new_pins'[r], Cardinality(LinksOf(r)') + 1)
    <3>1. r \in Root /\ new_pins'[r] = new_pins[r]
      BY <1>1, <2>2 DEF Root
    <3>2. Within(new_pins[r], Cardinality(LinksOf(r)) + 1)
      BY <3>1 DEF WeightOK
    <3> QED BY <1>8, <2>2, <3>1, <3>2
  <2> QED BY <2>1, <2>2
<1>15. \A k \in DOMAIN subnets' : Within(subnets'[k], Len(subnets'))
  <2>1. ASSUME NEW k \in 1 .. n PROVE Within(subnets'[k], n + 1)
    <3>1. Within(subnets[k], n) /\ subnets'[k] = subnets[k]
      BY <1>2 DEF WeightOK, n
    <3> QED BY <1>2, <3>1, WithinMore
  <2>2. Within(subnets'[n + 1], n + 1)
    <3>1. Within(new_pins[b], d + 1) /\ d + 1 <= n + 1 /\ d + 1 \in Nat /\ n + 1 \in Nat
      BY <1>2, <1>10, <1>12
    <3> QED BY <1>2, <3>1, WithinMore
  <2> QED BY <1>2, <2>1, <2>2
<1> QED BY <1>14, <1>15 DEF WeightOK, Within

LEMMA LinkStep ==
  ASSUME TypeOK, LinkOK, LinkGroups
  PROVE  TypeOK' /\ pass' = "link" /\ LinkOK'
<1>1. /\ pass = "link" /\ UNCHANGED <<pos, pass, edges>>
      /\ at' = at + 1 /\ at + 1 \in 1 .. Len(edges) /\ edges[at + 1] \in Pairs
      /\ \/ /\ par[edges[at + 1][1]] = par[edges[at + 1][2]]
            /\ UNCHANGED <<par, sz, new_pins, subnets>>
         \/ \E a, b \in Root : \E x \in Pin :
              /\ {par[edges[at + 1][1]], par[edges[at + 1][2]]} = {a, b}
              /\ Links(a, b, x)
  BY LinkCases DEF LinkOK
<1>2. at \in Nat /\ Len(edges) \in Nat /\ at' \in 0 .. Len(edges)
  <2>1. at \in Nat /\ Len(edges) \in Nat
    BY LenProperties DEF TypeOK
  <2> QED BY <1>1, <2>1
<1>3. Pin' = Pin /\ Pairs' = Pairs
  BY <1>1 DEF Pin, Pairs
<1>4. CASE /\ par[edges[at + 1][1]] = par[edges[at + 1][2]]
           /\ UNCHANGED <<par, sz, new_pins, subnets>>
  <2>1. Root' = Root /\ \A r : LinksOf(r)' = LinksOf(r)
    BY <1>3, <1>4 DEF Root, LinksOf
  <2>2. TypeOK'
    BY <1>1, <1>2, <1>3, <1>4, <2>1 DEF TypeOK
  <2>3. \A k \in 1 .. at' : par'[edges'[k][1]] = par'[edges'[k][2]]
    <3>1. \A k : k \in 1 .. at + 1 <=> k \in 1 .. at \/ k = at + 1
      BY <1>2
    <3> QED BY <1>1, <1>4, <3>1 DEF LinkOK, ListsOK
  <2>4. ListsOK'
    BY <1>1, <1>3, <1>4, <2>1, <2>3 DEF LinkOK, ListsOK
  <2>5. LargeOK' /\ EmittedOK'
    BY <1>4, <2>1 DEF LinkOK, LargeOK, EmittedOK
  <2>6. CountOK' /\ ConnectedOK'
    BY <1>3, <1>4, <2>1 DEF LinkOK, CountOK, ConnectedOK
  <2>7. WeightOK'
    BY <1>4, <2>1 DEF LinkOK, WeightOK
  <2> QED BY <1>1, <2>2, <2>4, <2>5, <2>6, <2>7 DEF LinkOK
<1>5. ASSUME NEW a \in Root, NEW b \in Root, NEW x \in Pin,
             {par[edges[at + 1][1]], par[edges[at + 1][2]]} = {a, b}, Links(a, b, x)
      PROVE  TypeOK' /\ LinkOK'
  <2>1. TypeOK'
    <3>1. /\ par' \in [Pin' -> Pin'] /\ sz' \in [Pin' -> Nat] /\ new_pins' \in [Pin' -> Seq(Pin')]
          /\ \A p \in Pin' : par'[p] \in Root'
      <4>1. LinkChanges(a, b, x)
        BY <1>5, Linked
      <4> QED BY <1>3, <4>1 DEF LinkChanges
    <3>2. subnets' \in Seq(Seq(Pin'))
      BY <1>3, <1>5, Emitted
    <3> QED BY <1>1, <1>2, <1>3, <3>1, <3>2 DEF TypeOK
  <2>2. ListsOK'
    BY <1>1, <1>5, LinkKeepsLists DEF LinkOK
  <2>3. LargeOK' /\ sz[b] >= 2
    BY <1>5, LinkKeepsLarge DEF LinkOK
  <2>4. EmittedOK'
    BY <1>5, <2>3, LinkKeepsEmitted DEF LinkOK
  <2>5. CountOK'
    BY <1>5, LinkKeepsCount DEF LinkOK
  <2>6. ConnectedOK'
    BY <1>5, LinkKeepsConnected DEF LinkOK
  <2>7. WeightOK'
    BY <1>5, <2>3, LinkKeepsWeight DEF LinkOK
  <2> QED BY <2>1, <2>2, <2>3, <2>4, <2>5, <2>6, <2>7 DEF LinkOK
<1> QED BY <1>1, <1>4, <1>5
-----------------------------------------------------------------------------
(* The end: every pair has been seen, so one group is left.                   *)
LEMMA OneGroup ==
  ASSUME TypeOK, ListsOK, at = Len(edges)
  PROVE  \E r \in Root : Root = {r} /\ Ascending(Root) = <<r>> /\ Cardinality(Root) = 1
<1>1. IsFiniteSet(Pin) /\ Pin \in SUBSET Int /\ Cardinality(Pin) > 2 /\ Root \in SUBSET Pin
  BY PinsOf DEF TypeOK, Root
<1>2. ASSUME NEW r \in Root, NEW s \in Root, r < s PROVE FALSE
  <2>1. r \in Pin /\ s \in Pin /\ par[r] = r /\ par[s] = s /\ r # s
    BY <1>1, <1>2 DEF Root
  <2>2. PICK e \in Pairs : e[1] = r /\ e[2] = s
    <3>1. <<r, s>> \in Pairs /\ <<r, s>>[1] = r /\ <<r, s>>[2] = s
      BY <1>2, <2>1 DEF Pairs
    <3> QED BY <3>1
  <2>3. PICK k \in 1 .. Len(edges) : edges[k] = e
    BY <2>2, MembersOf DEF TypeOK, ListsOK
  <2>4. par[edges[k][1]] = par[edges[k][2]]
    BY DEF ListsOK
  <2> QED BY <2>1, <2>2, <2>3, <2>4
<1>3. Pin # {}
  <2>1. Cardinality({}) = 0
    BY FS_EmptySet
  <2> QED BY <1>1, <2>1
<1>4. PICK r \in Root : TRUE
  BY <1>3 DEF TypeOK
<1>5. Root = {r}
  <2> SUFFICES ASSUME NEW s \in Root PROVE s = r
    BY <1>4
  <2>1. r \in Int /\ s \in Int
    BY <1>1
  <2>2. ~ (r < s) /\ ~ (s < r)
    BY <1>2
  <2> QED BY <2>1, <2>2
<1>6. Cardinality(Root) = 1 /\ IsFiniteSet(Root) /\ Root \in SUBSET Int
  BY <1>1, <1>5, FS_Singleton
<1>7. Ascending(Root) \in Seq(Root) /\ Len(Ascending(Root)) = 1
  BY <1>6, AscendingProperties
<1>8. Ascending(Root)[1] = r
  <2>1. 1 \in 1 .. Len(Ascending(Root))
    BY <1>7
  <2> QED BY <1>5, <1>7, <2>1, ElementOfSeq
<1>9. Ascending(Root) = <<r>>
  BY <1>7, <1>8
<1> QED BY <1>5, <1>6, <1>9

LEMMA EmitStep ==
  ASSUME TypeOK, LinkOK, EmitRoots
  PROVE  TypeOK' /\ pass' = "done" /\ SubnetsFormATree'
<1>1. /\ at = Len(edges) /\ pass' = "done" /\ UNCHANGED <<pos, edges, at, par, sz>>
      /\ subnets' = subnets \o [k \in 1 .. Cardinality(Root) |-> new_pins[Ascending(Root)[k]]]
      /\ new_pins' = [p \in Pin |-> IF p \in Root THEN <<>> ELSE new_pins[p]]
  BY DEF EmitRoots
<1>2. Pin' = Pin /\ Pairs' = Pairs /\ Root' = Root
  BY <1>1 DEF Pin, Pairs, Root
<1>3. PICK r \in Root : Root = {r} /\ Ascending(Root) = <<r>> /\ Cardinality(Root) = 1
  BY <1>1, OneGroup DEF LinkOK
<1> DEFINE n == Len(subnets)
           last == new_pins[r]
<1>4. r \in Pin /\ last \in Seq(Pin) /\ subnets \in Seq(Seq(Pin))
  BY DEF Root, TypeOK
<1>5. subnets' = Append(subnets, last)
  <2>1. [k \in 1 .. 1 |-> new_pins[Ascending(Root)[k]]] = <<last>>
    <3>1. \A k \in 1 .. 1 : k = 1 /\ Ascending(Root)[k] = r
      BY <1>3
    <3> QED BY <3>1
  <2>2. subnets' = subnets \o <<last>>
    BY <1>1, <1>3, <2>1
  <2> QED BY <1>4, <2>2, AppendIsConcat
<1>6. /\ subnets' \in Seq(Seq(Pin)) /\ Len(subnets') = n + 1 /\ n \in Nat
      /\ DOMAIN subnets' = 1 .. n + 1 /\ DOMAIN subnets = 1 .. n
      /\ \A k \in 1 .. n : subnets'[k] = subnets[k] /\ subnets[k] \in Seq(Pin)
      /\ subnets'[n + 1] = last
      /\ \A k : k \in 1 .. n + 1 <=> k \in 1 .. n \/ k = n + 1
  <2>1. /\ Append(subnets, last) \in Seq(Seq(Pin)) /\ Len(Append(subnets, last)) = n + 1 /\ n \in Nat
        /\ DOMAIN Append(subnets, last) = 1 .. n + 1 /\ Append(subnets, last)[n + 1] = last
        /\ \A k \in 1 .. n : Append(subnets, last)[k] = subnets[k]
    BY <1>4, Adding
  <2>2. DOMAIN subnets = 1 .. n /\ \A k \in 1 .. n : subnets[k] \in Seq(Pin)
    BY <1>4, LenProperties, ElementOfSeq
  <2> HIDE DEF n, last
  <2>3. \A k : k \in 1 .. n + 1 <=> k \in 1 .. n \/ k = n + 1
    BY <2>1
  <2> QED BY <1>5, <2>1, <2>2, <2>3
<1> HIDE DEF n, last
<1>7. TypeOK'
  <2>1. new_pins' \in [Pin -> Seq(Pin)]
    BY <1>1 DEF TypeOK
  <2> QED BY <1>1, <1>2, <1>6, <2>1 DEF TypeOK
<1>8. IsInjective(last) /\ Len(last) >= 2 /\ \A p \in Pin \ {r} : new_pins[p] = <<>>
  <2>1. IsInjective(last) /\ sz[r] = Len(last) /\ \A p \in Pin \ {r} : new_pins[p] = <<>>
    BY <1>3 DEF LinkOK, ListsOK, last
  <2>2. sz[r] >= 2
    BY <1>3 DEF LinkOK, LargeOK
  <2> QED BY <2>1, <2>2
<1>9. \A k \in DOMAIN subnets' : IsInjective(subnets'[k]) /\ Len(subnets'[k]) >= 2
  <2>1. \A k \in 1 .. n : IsInjective(subnets[k]) /\ Len(subnets[k]) >= 2
    BY <1>6 DEF LinkOK, EmittedOK
  <2> QED BY <1>6, <1>8, <2>1
<1>10. ASSUME NEW A \in SUBSET Pin, \A k \in DOMAIN subnets' : Whole(A, subnets'[k])
       PROVE  A \in {{}, Pin}
  <2>1. \A k \in DOMAIN subnets : Whole(A, subnets[k])
    BY <1>6, <1>10
  <2>2. \A s \in Root : Whole(A, new_pins[s])
    BY <1>3, <1>6, <1>10 DEF last
  <2>3. \A p, q \in Pin : par[p] = par[q] => (p \in A <=> q \in A)
    BY <2>1, <2>2 DEF LinkOK, ConnectedOK
  <2>4. \A p \in Pin : par[p] = r
    BY <1>3 DEF TypeOK
  <2>5. \A p, q \in Pin : p \in A <=> q \in A
    BY <2>3, <2>4
  <2> QED BY <2>5
<1>11. Cardinality(Places(subnets')) = Cardinality(Pin) + Len(subnets') - 1
  <2>1. IsFiniteSet(Places(subnets)) /\ IsFiniteSet(Places(new_pins))
        /\ Cardinality(Places(subnets)) + Cardinality(Places(new_pins)) = Cardinality(Pin) + n
    BY DEF LinkOK, CountOK, n
  <2>2. Cardinality(Places(subnets')) = Cardinality(Places(subnets)) + Len(last)
    BY <1>4, <1>5, <2>1, PlacesOfAppended
  <2>3. Places(new_pins) = {r} \X (DOMAIN last)
    <3>1. DOMAIN new_pins = Pin
      BY DEF TypeOK
    <3>2. DOMAIN <<>> = {}
      OBVIOUS
    <3>3. \A y : y \in Places(new_pins) <=> \E k \in Pin : y \in {k} \X (DOMAIN new_pins[k])
      BY <3>1, PlaceOf
    <3>4. ASSUME NEW y, NEW k \in Pin, y \in {k} \X (DOMAIN new_pins[k]) PROVE k = r
      <4>1. CASE k # r
        <5>1. DOMAIN new_pins[k] = {}
          BY <1>8, <3>2, <4>1
        <5> QED BY <3>4, <5>1
      <4> QED BY <4>1
    <3>5. \A y : y \in Places(new_pins) <=> y \in {r} \X (DOMAIN new_pins[r])
      BY <1>4, <3>3, <3>4
    <3> QED BY <3>5 DEF last
  <2>4. Cardinality(Places(new_pins)) = Len(last) /\ Len(last) \in Nat
    BY <1>4, <2>3, PlacesInList
  <2>5. Cardinality(Places(subnets)) \in Nat /\ Cardinality(Pin) \in Nat
    BY <2>1, FS_CardinalityType, PinsOf DEF TypeOK
  <2> QED BY <1>6, <2>1, <2>2, <2>4, <2>5
<1>12. ASSUME NEW A \in SUBSET Pin,
              \A S \in {ToSet(subnets'[k]) : k \in DOMAIN subnets'} : S \subseteq A \/ S \cap A = {}
       PROVE  A \in {{}, Pin}
  BY <1>10, <1>12 DEF Whole
<1> QED BY <1>1, <1>2, <1>7, <1>9, <1>11, <1>12 DEF SubnetsFormATree, Pin, Places
-----------------------------------------------------------------------------
(* What holds in every state of a net that is broken.                         *)
THEOREM SplitInvariance == Spec => []SplitInv
<1>1. Init => SplitInv
  BY SplitInit DEF SplitInv, SubnetsFormATree
<1>2. SplitInv /\ [Next]_vars => SplitInv'
  <2> SUFFICES ASSUME SplitInv, [Next]_vars PROVE SplitInv'
    OBVIOUS
  <2>1. CASE JoinGroups
    <3>1. TypeOK /\ JoinOK
      BY <2>1 DEF SplitInv, JoinGroups
    <3>2. TypeOK' /\ pass' = "join" /\ JoinOK'
      BY <2>1, <3>1, JoinStep
    <3> QED BY <3>2 DEF SplitInv, SubnetsFormATree
  <2>2. CASE ListGroups
    <3>1. TypeOK /\ JoinOK
      BY <2>2 DEF SplitInv, ListGroups
    <3>2. TypeOK' /\ pass' = "link" /\ LinkOK'
      BY <2>2, <3>1, ListStep
    <3> QED BY <3>2 DEF SplitInv, SubnetsFormATree
  <2>3. CASE LinkGroups
    <3>1. TypeOK /\ LinkOK
      BY <2>3 DEF SplitInv, LinkGroups
    <3>2. TypeOK' /\ pass' = "link" /\ LinkOK'
      BY <2>3, <3>1, LinkStep
    <3> QED BY <3>2 DEF SplitInv, SubnetsFormATree
  <2>4. CASE EmitRoots
    <3>1. TypeOK /\ LinkOK
      BY <2>4 DEF SplitInv, EmitRoots
    <3>2. TypeOK' /\ pass' = "done" /\ SubnetsFormATree'
      BY <2>4, <3>1, EmitStep
    <3> QED BY <3>2 DEF SplitInv
  <2>5. CASE UNCHANGED vars
    <3>1. UNCHANGED <<pos, pass, edges, at, par, sz, new_pins, subnets>>
      BY <2>5 DEF vars
    <3>2. /\ Pin' = Pin /\ Pairs' = Pairs /\ Root' = Root
          /\ \A r : Group(r)' = Group(r) /\ LinksOf(r)' = LinksOf(r)
      BY <3>1 DEF Pin, Pairs, Root, Group, LinksOf
    <3>3. TypeOK' /\ (pass = "join" => JoinOK')
      BY <3>1, <3>2 DEF SplitInv, TypeOK, JoinOK
    <3>4. ASSUME pass = "link" PROVE LinkOK'
      <4>1. ListsOK' /\ LargeOK' /\ EmittedOK'
        BY <3>1, <3>2, <3>4 DEF SplitInv, LinkOK, ListsOK, LargeOK, EmittedOK
      <4>2. CountOK' /\ ConnectedOK' /\ WeightOK'
        BY <3>1, <3>2, <3>4 DEF SplitInv, LinkOK, CountOK, ConnectedOK, WeightOK
      <4> QED BY <4>1, <4>2 DEF LinkOK
    <3>5. SubnetsFormATree'
      BY <3>1, <3>2 DEF SplitInv, SubnetsFormATree
    <3> QED BY <3>1, <3>3, <3>4, <3>5 DEF SplitInv
  <2> QED BY <2>1, <2>2, <2>3, <2>4, <2>5 DEF Next
<1> QED BY <1>1, <1>2, PTL DEF Spec

(* Whatever the net, when its subnets are all emitted they form a tree: they  *)
(* reach every pin, close no loop, name no pin twice and have two pins each.  *)
THEOREM SubnetsAreATree == Spec => []SubnetsFormATree
<1>1. SplitInv => SubnetsFormATree
  BY DEF SplitInv
<1> QED BY <1>1, SplitInvariance, PTL

(* Whatever the net, a list k pins beyond MAX_PIN_SIZE takes 2^k of the groups *)
(* that the first pass left.                                                   *)
THEOREM ExcessIsBounded == Spec => []ExcessIsLogarithmic
<1>1. SplitInv => ExcessIsLogarithmic
  <2> SUFFICES ASSUME SplitInv, pass = "link" PROVE ExcessIsLogarithmic
    BY DEF ExcessIsLogarithmic
  <2> TypeOK /\ LinkOK
    BY DEF SplitInv
  <2> DEFINE groups == Cardinality(Root) + Len(subnets)
  <2>1. Root \in SUBSET Pin /\ Root # {}
    <3>1. Cardinality({}) = 0
      BY FS_EmptySet
    <3>2. Cardinality(Pin) > 2
      BY PinsOf DEF TypeOK
    <3>3. Pin # {}
      BY <3>1, <3>2
    <3> QED BY <3>3 DEF TypeOK, Root
  <2>2. IsFiniteSet(Root)
    BY <2>1, PinsOf, FS_Subset DEF TypeOK
  <2>3. Cardinality(Root) \in Nat /\ Cardinality(Root) # 0
    BY <2>1, <2>2, FS_CardinalityType, FS_EmptySet
  <2>4. Len(subnets) \in Nat /\ groups \in Nat /\ groups >= Len(subnets) + 1
    BY <2>3, LenProperties DEF TypeOK
  <2> HIDE DEF groups
  <2>5. ASSUME NEW r \in Root PROVE Within(new_pins[r], groups) /\ sz[r] = Len(new_pins[r])
    <3>1. /\ Within(new_pins[r], Cardinality(LinksOf(r)) + 1) /\ sz[r] = Len(new_pins[r])
          /\ new_pins[r] \in Seq(Pin)
      BY <2>1 DEF LinkOK, WeightOK, ListsOK, TypeOK
    <3>2. Cardinality(LinksOf(r)) \in Nat /\ Cardinality(LinksOf(r)) <= Len(subnets)
      BY LinksFinite
    <3>3. Cardinality(LinksOf(r)) + 1 \in Nat /\ Cardinality(LinksOf(r)) + 1 <= groups
      BY <2>4, <3>2
    <3> QED BY <2>4, <3>1, <3>3, WithinMore
  <2>6. ASSUME NEW k \in DOMAIN subnets PROVE Within(subnets[k], groups)
    <3>1. Within(subnets[k], Len(subnets)) /\ Len(subnets) <= groups
      BY <2>4 DEF LinkOK, WeightOK
    <3>2. subnets[k] \in Seq(Pin)
      BY LenProperties, ElementOfSeq DEF TypeOK
    <3> QED BY <2>4, <3>1, <3>2, WithinMore
  <2> QED BY <2>5, <2>6 DEF ExcessIsLogarithmic, Within, groups
<1> QED BY <1>1, SplitInvariance, PTL
=============================================================================
