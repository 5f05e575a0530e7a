------------------------------- MODULE BatchGen -------------------------------
(***************************************************************************)
(* GPU batch generation: gpu_batch::generate and its five kernels.         *)
(*                                                                         *)
(* The host keeps the unplaced nets in priority order and puts a prefix of *)
(* them, the wavefront, in flight.  One round launches five kernels over   *)
(* the wavefront, one warp per net and a barrier between kernels:          *)
(*   pick     first open batch, from where this net's scan last stopped,   *)
(*            that has room and whose bitmap leaves the net's points free; *)
(*   commit   atomicMin of the net's index into a shared owner map;        *)
(*   check    a net that owns all of its points takes a place with an      *)
(*            atomicAdd on the batch size, unless the batch filled up;     *)
(*   stamp    the placed nets' marks go into their batches' bitmaps;       *)
(*   release  every net clears the owner cells it holds.                   *)
(* The host then drops the placed nets, opens a batch when the newest one  *)
(* is no longer empty (closing the oldest when the ring is full) and       *)
(* retunes the wavefront.                                                  *)
(*                                                                         *)
(* A net is its priority index.  A warp's work on one net is one step:     *)
(* within a kernel the lanes only do commuting atomics or touch cells of   *)
(* their own net.  pending_host stays sorted (the host compacts it in      *)
(* place), so it is modelled as a set whose prefixes are taken by index.   *)
(* Statistics (rounds, commits, retired) are left out.                     *)
(***************************************************************************)
EXTENDS Integers, FiniteSets

CONSTANTS
  NetCnt,            \* net_cnt
  Cell,              \* cells of the X by Y grid
  Footprints,        \* the possible nets: records of points and marks
  MaxBatchSize,      \* max_batch_size
  Ring,              \* ring: bitmaps kept, so batches open at once
  MinWavefront, InitialWavefront, MaxWavefront,
  ShrinkRatio,       \* 8: a round placing under 1/8 of the wavefront halves it
  MaxStalled         \* 4: rounds without a placement before giving up

Net == 0 .. NetCnt - 1
kEmpty == NetCnt     \* INT_MAX in the code: above every net

ASSUME SizesAssumption ==
  /\ NetCnt \in Nat \ {0} /\ MaxBatchSize \in Nat \ {0} /\ Ring \in Nat \ {0}
  /\ MinWavefront \in Nat \ {0} /\ InitialWavefront \in Nat \ {0}
  /\ MaxWavefront \in Nat /\ MinWavefront <= MaxWavefront
  /\ InitialWavefront <= MaxWavefront
  /\ ShrinkRatio \in Nat \ {0} /\ MaxStalled \in Nat

\* every point is one of the net's marks, and a net has at least one point
ASSUME FootprintAssumption ==
  \A f \in Footprints : /\ f \in [points : SUBSET Cell, marks : SUBSET Cell]
                        /\ f.points # {} /\ f.points \subseteq f.marks

MinOf(a, b) == IF a < b THEN a ELSE b
MaxOf(a, b) == IF a < b THEN b ELSE a

cap == MinOf(NetCnt, MaxBatchSize)
wavefront_cap == MinOf(NetCnt, MaxWavefront)

VARIABLES
  footprint,         \* the marks handed to generate(); never changes
  pc,                \* the kernel running, or "host", "done", "failed"
  todo,              \* nets of the wavefront that kernel has not handled yet
  pending,           \* pending_host[head ..]: unplaced nets as the host knows
  active,            \* the wavefront of this round
  wavefront,
  slot_base, live_cnt,    \* the open batches are slot_base .. + live_cnt - 1
  slot_maps, slot_size,   \* per ring slot: occupancy bitmap and size counter
  owner,             \* the shared commit map
  batch_of_net, scan_from, pick, status,
  stalled,
  batch_count        \* out.batch_count; -1 until generate() returns

device == <<slot_maps, slot_size, owner, batch_of_net, scan_from, pick, status>>
host   == <<pending, active, wavefront, slot_base, live_cnt, stalled, batch_count>>
vars   == <<footprint, pc, todo, device, host>>

-----------------------------------------------------------------------------
Points(n) == footprint[n].points
Marks(n)  == footprint[n].marks

\* mutant: the k nets of S with the lowest priority
Suffix(S, k) == {n \in S : Cardinality({m \in S : m > n}) < k}

\* the k nets of S with the highest priority
Prefix(S, k) == {n \in S : Cardinality({m \in S : m < n}) < k}

Slot(b) == b % Ring
Newest  == slot_base + live_cnt - 1
Live    == slot_base .. Newest

Init ==
  /\ footprint \in [Net -> Footprints]
  /\ wavefront = MinOf(NetCnt, InitialWavefront)
  /\ pending = Net
  /\ active = Prefix(Net, wavefront)
  /\ pc = "pick" /\ todo = active
  /\ slot_base = 0 /\ live_cnt = 1
  /\ slot_maps = [s \in 0 .. Ring - 1 |-> {}]
  /\ slot_size = [s \in 0 .. Ring - 1 |-> 0]
  /\ owner = [p \in Cell |-> kEmpty]
  /\ batch_of_net = [n \in Net |-> -1]
  /\ scan_from = [n \in Net |-> 0]
  /\ pick = [n \in Net |-> -1]
  /\ status = [n \in Net |-> "active"]
  /\ stalled = 0
  /\ batch_count = -1

-----------------------------------------------------------------------------
(* Kernels: each handles the nets of the wavefront in any order.            *)

\* mutant: off by one
OvershootRoom(slot) == slot_size[slot] <= cap

HasRoom(slot) == slot_size[slot] < cap

Fits(n, slot) == HasRoom(slot) /\ Points(n) \cap slot_maps[slot] = {}

\* mutant: resumes after the batch last looked at
AcceptableAfter(n) ==
  {b \in MaxOf(scan_from[n] + 1, slot_base) .. Newest : Fits(n, Slot(b))} \cup
  {b \in {Newest} : Fits(n, Slot(b))}

\* batches the scan of net n would accept, from where it last stopped
Acceptable(n) == {b \in MaxOf(scan_from[n], slot_base) .. Newest : Fits(n, Slot(b))}

PickNet(n) ==
  /\ pc = "pick" /\ n \in todo
  /\ todo' = todo \ {n}
  /\ IF Acceptable(n) = {}
     THEN /\ pick' = [pick EXCEPT ![n] = -1]
          /\ scan_from' = [scan_from EXCEPT ![n] = Newest + 1]
     ELSE \E b \in Acceptable(n) :
            /\ \A other \in Acceptable(n) : b <= other
            /\ pick' = [pick EXCEPT ![n] = b]
            /\ scan_from' = [scan_from EXCEPT ![n] = b]
  /\ UNCHANGED <<footprint, pc, host, slot_maps, slot_size, owner, batch_of_net, status>>

\* mutant: a plain store instead of atomicMin
CommitLastWins(n) ==
  /\ pc = "commit" /\ n \in todo
  /\ todo' = todo \ {n}
  /\ owner' = [p \in Cell |-> IF p \in Marks(n) THEN n ELSE owner[p]]
  /\ UNCHANGED <<footprint, pc, host, slot_maps, slot_size, batch_of_net, scan_from,
                 pick, status>>

CommitNet(n) ==
  /\ pc = "commit" /\ n \in todo
  /\ todo' = todo \ {n}
  /\ owner' = [p \in Cell |-> IF p \in Marks(n) THEN MinOf(owner[p], n) ELSE owner[p]]
  /\ UNCHANGED <<footprint, pc, host, slot_maps, slot_size, batch_of_net, scan_from,
                 pick, status>>

\* mutant: stops at the first point the net owns
OwnsAPoint(n) == \E p \in Points(n) : owner[p] = n

OwnsItsPoints(n) == \A p \in Points(n) : owner[p] = n

CheckNet(n) ==
  /\ pc = "check" /\ n \in todo
  /\ todo' = todo \ {n}
  /\ LET slot   == Slot(pick[n])
         clean  == OwnsItsPoints(n) /\ pick[n] >= 0
         placed == clean /\ HasRoom(slot)
     IN  /\ slot_size' = IF clean THEN [slot_size EXCEPT ![slot] = @ + 1] ELSE slot_size
         /\ batch_of_net' = IF placed THEN [batch_of_net EXCEPT ![n] = pick[n]]
                                      ELSE batch_of_net
         /\ status' = [status EXCEPT ![n] = IF placed THEN "assigned" ELSE "active"]
  /\ UNCHANGED <<footprint, pc, host, slot_maps, owner, scan_from, pick>>

\* mutant: stamps the points only
StampPoints(n) ==
  /\ pc = "stamp" /\ n \in todo
  /\ todo' = todo \ {n}
  /\ slot_maps' = IF status[n] = "assigned"
                  THEN [slot_maps EXCEPT ![Slot(pick[n])] = @ \cup Points(n)]
                  ELSE slot_maps
  /\ UNCHANGED <<footprint, pc, host, slot_size, owner, batch_of_net, scan_from, pick,
                 status>>

StampNet(n) ==
  /\ pc = "stamp" /\ n \in todo
  /\ todo' = todo \ {n}
  /\ slot_maps' = IF status[n] = "assigned"
                  THEN [slot_maps EXCEPT ![Slot(pick[n])] = @ \cup Marks(n)]
                  ELSE slot_maps
  /\ UNCHANGED <<footprint, pc, host, slot_size, owner, batch_of_net, scan_from, pick,
                 status>>

\* mutant: releases the points only
ReleasePoints(n) ==
  /\ pc = "release" /\ n \in todo
  /\ todo' = todo \ {n}
  /\ owner' = [p \in Cell |-> IF p \in Points(n) /\ owner[p] = n THEN kEmpty ELSE owner[p]]
  /\ UNCHANGED <<footprint, pc, host, slot_maps, slot_size, batch_of_net, scan_from,
                 pick, status>>

ReleaseNet(n) ==
  /\ pc = "release" /\ n \in todo
  /\ todo' = todo \ {n}
  /\ owner' = [p \in Cell |-> IF p \in Marks(n) /\ owner[p] = n THEN kEmpty ELSE owner[p]]
  /\ UNCHANGED <<footprint, pc, host, slot_maps, slot_size, batch_of_net, scan_from,
                 pick, status>>

NextKernel == [pick |-> "commit", commit |-> "check", check |-> "stamp",
               stamp |-> "release", release |-> "host"]

\* a kernel starts when the one before it has handled every net
Launch ==
  /\ pc \in DOMAIN NextKernel /\ todo = {}
  /\ pc' = NextKernel[pc]
  /\ todo' = IF pc = "release" THEN {} ELSE active
  /\ UNCHANGED <<footprint, device, host>>

-----------------------------------------------------------------------------
(* The end of a round on the host.                                          *)

\* mutant: the oldest batch is never closed
OpenNeverCloses ==
  /\ slot_base' = slot_base
  /\ live_cnt'  = live_cnt + 1
  /\ slot_maps' = [slot_maps EXCEPT ![Slot(Newest + 1)] = {}]
  /\ slot_size' = [slot_size EXCEPT ![Slot(Newest + 1)] = 0]

\* open_batch: close the oldest batch when the ring is full, clear a bitmap
OpenBatch ==
  LET full == live_cnt = Ring
      slot == Slot(Newest + 1)
  IN  /\ slot_base' = IF full THEN slot_base + 1 ELSE slot_base
      /\ live_cnt'  = IF full THEN live_cnt ELSE live_cnt + 1
      /\ slot_maps' = [slot_maps EXCEPT ![slot] = {}]
      /\ slot_size' = [slot_size EXCEPT ![slot] = 0]

\* mutant: grows past what the arrays were allocated for
RetuneUncapped(assigned) ==
  IF assigned * ShrinkRatio < wavefront THEN MaxOf(MinWavefront, wavefront \div 2)
  ELSE IF assigned * 2 > wavefront THEN wavefront * 2
  ELSE wavefront

Retune(assigned) ==
  IF assigned * ShrinkRatio < wavefront THEN MaxOf(MinWavefront, wavefront \div 2)
  ELSE IF assigned * 2 > wavefront THEN MinOf(wavefront_cap, wavefront * 2)
  ELSE wavefront

\* mutant: counts the newest batch although nothing joined it
CountOpened == slot_base + live_cnt

\* out.batch_count: every batch opened, but not the newest one while it is empty
BatchTotal == slot_base + live_cnt - (IF slot_size[Slot(Newest)] = 0 THEN 1 ELSE 0)

EndRound ==
  LET kept        == {n \in active : status[n] = "active"}
      assigned    == Cardinality(active) - Cardinality(kept)
      rest        == kept \cup (pending \ active)
  IN
  /\ pc = "host"
  /\ stalled' = IF assigned = 0 THEN stalled + 1 ELSE 0
  /\ pending' = rest
  /\ wavefront' = Retune(assigned)
  /\ active' = Prefix(rest, wavefront')
  /\ pc' = IF stalled' > MaxStalled THEN "failed" ELSE IF rest = {} THEN "done" ELSE "pick"
  /\ todo' = active'
  /\ IF slot_size[Slot(Newest)] > 0 /\ rest # {}
     THEN OpenBatch
     ELSE UNCHANGED <<slot_base, live_cnt, slot_maps, slot_size>>
  /\ batch_count' = IF pc' = "done" THEN BatchTotal ELSE -1
  /\ UNCHANGED <<footprint, owner, batch_of_net, scan_from, pick, status>>

Next ==
  \/ \E n \in Net : \/ PickNet(n) \/ CommitNet(n) \/ CheckNet(n)
                    \/ StampNet(n) \/ ReleaseNet(n)
  \/ Launch
  \/ EndRound

\* the host loop waits for its kernels and the GPU runs what is launched
Spec == Init /\ [][Next]_vars /\ WF_vars(Next)
-----------------------------------------------------------------------------
(* Properties.                                                              *)

Placed(n)  == batch_of_net[n] >= 0
Members(b) == {n \in Net : batch_of_net[n] = b}

\* Every variable has its type; slot counters may pass cap, never shrink below 0.
TypeOK ==
  /\ footprint \in [Net -> Footprints]
  /\ pc \in (DOMAIN NextKernel) \cup {"host", "done", "failed"}
  /\ todo \subseteq active /\ active \subseteq pending /\ pending \subseteq Net
  /\ wavefront \in Nat \ {0}
  /\ slot_base \in Nat /\ live_cnt \in 1 .. Ring
  /\ slot_maps \in [0 .. Ring - 1 -> SUBSET Cell]
  /\ slot_size \in [0 .. Ring - 1 -> Nat]
  /\ owner \in [Cell -> Net \cup {kEmpty}]
  /\ batch_of_net \in [Net -> Nat \cup {-1}] /\ pick \in [Net -> Nat \cup {-1}]
  /\ scan_from \in [Net -> Nat]
  /\ status \in [Net -> {"active", "assigned"}]
  /\ stalled \in Nat /\ batch_count \in Int

\* The invariant the router relies on (replayed by batches_are_conflict_free):
\* no net's points are covered by a higher-priority member of its batch, also
\* when that member joined rounds later or in the same round.
ConflictFree ==
  \A a, c \in Net :
    a < c /\ Placed(a) /\ batch_of_net[a] = batch_of_net[c]
      => Marks(a) \cap Points(c) = {}

\* What makes late joins safe: when a net is placed, every net of higher priority
\* that is still unplaced has marks that leave the placed net's points alone.
NoOvertaking ==
  \A a, c \in Net :
    a < c /\ ~Placed(a) /\ Placed(c) => Marks(a) \cap Points(c) = {}

\* No room in batch b for net n
Refuses(b, n) ==
  \/ Cardinality(Members(b)) >= cap
  \/ Points(n) \cap UNION {Marks(m) : m \in Members(b)} # {}

\* First fit over the ring: a placed net could join no older batch that is still
\* open, so resuming the scan at scan_from never skips a batch that had room.
FirstFitAmongOpen ==
  \A n \in Net : \A b \in Live : Placed(n) /\ b < batch_of_net[n] => Refuses(b, n)

\* The router's memory guard: however the warps of a kernel race for the last
\* places of a batch, no batch holds more than cap nets.
BatchSizeBound == \A b \in 0 .. Newest : Cardinality(Members(b)) <= cap

\* The stall counter that sends the job back to the CPU never leaves 0: in every
\* round some net is placed, although the best net can lose the size race.
EveryRoundPlaces == stalled = 0

\* pick and status hold wavefront_cap entries, and the wavefront is retuned past
\* that bound when there are fewer nets than MinWavefront; it still never
\* launches more warps than the arrays have room for.
WavefrontFitsBuffers == Cardinality(active) <= wavefront_cap

\* The result handed to generate_batches_rsmt: every net in a batch below
\* batch_count, no batch empty, although the newest one is kept empty meanwhile.
\* The comment at database_cuda.hpp:463-465 says otherwise, that a batch can come
\* out empty when its round lost every candidate to another batch.  generate()
\* never leaves one: a batch is opened only when the newest one has a net (line 426
\* of gpu_batch_gen.hpp), and a newest one without is not counted (line 441).
ResultComplete ==
  pc = "done" => /\ \A n \in Net : batch_of_net[n] \in 0 .. batch_count - 1
                 /\ \A b \in 0 .. batch_count - 1 : Members(b) # {}

\* generate() returns: the loop over the pending nets ends.
Terminates == <>(pc = "done")

\* The kernels implement the abstract promise: one net at a time, for ever in one
\* batch, in order, conflict-free and bounded, until all nets are placed.
Partition == INSTANCE BatchPartition WITH Cap <- cap
ImplementsPartition == Partition!Spec
-----------------------------------------------------------------------------
(* Why ConflictFree holds: the inductive invariant of BatchGen_proofs.      *)

Handled == active \ todo        \* nets the running kernel is done with

\* the host's list covers every unplaced net, and the wavefront is a prefix of it
WavefrontIsPrefix ==
  /\ \A n \in Net : ~Placed(n) => n \in pending
  /\ \A n \in pending \ active : ~Placed(n)
  /\ \A m \in pending, n \in active : m < n => m \in active

\* status, pick and batch_of_net agree on who was placed in this round
StatusAgrees ==
  \A n \in active :
    /\ pc \in {"pick", "commit"} \/ (pc = "check" /\ n \in todo) => ~Placed(n)
    /\ pc \in {"stamp", "release", "host"} \/ (pc = "check" /\ n \in Handled)
         => /\ Placed(n) <=> status[n] = "assigned"
            /\ Placed(n) => batch_of_net[n] = pick[n]

\* what pick found still holds while the bitmaps are not written
PicksAreFree ==
  /\ \A n \in Net : Placed(n) => batch_of_net[n] <= Newest
  /\ \A n \in active :
       \/ pc = "pick" /\ n \in Handled
       \/ pc = "commit"
       \/ pc = "check" /\ n \in todo
       => \/ pick[n] = -1
          \/ pick[n] \in Live /\ Points(n) \cap slot_maps[Slot(pick[n])] = {}

\* a cell belongs to a net no worse than any that committed it
OwnersAreBest ==
  \A n \in active :
    pc = "check" \/ (pc = "commit" /\ n \in Handled)
      => \A p \in Marks(n) : owner[p] <= n

\* the bitmap of an open batch holds its members' marks, those of this round
\* once they are stamped
MarksAreStamped ==
  \A n \in Net :
    /\ Placed(n) /\ batch_of_net[n] \in Live
    /\ \/ n \notin active
       \/ pc \in {"release", "host"}
       \/ pc = "stamp" /\ n \in Handled
    => Marks(n) \subseteq slot_maps[Slot(batch_of_net[n])]

\* The strengthening of ConflictFree that every step preserves.
KernelInv ==
  /\ TypeOK
  /\ WavefrontIsPrefix
  /\ StatusAgrees
  /\ PicksAreFree
  /\ OwnersAreBest
  /\ MarksAreStamped
  /\ NoOvertaking
  /\ ConflictFree
-----------------------------------------------------------------------------
(* Why every round places a net, and what the batches are made of: the      *)
(* inductive invariant of BatchGen_proofs.                                  *)

\* slot_size counts the members until the batch is full, then also the nets that
\* came too late; a batch was joined before the next one was opened
CountsAgree ==
  /\ BatchSizeBound
  /\ \A b \in Live : Cardinality(Members(b)) = MinOf(slot_size[Slot(b)], cap)
  /\ \A b \in 0 .. Newest - 1 : Members(b) # {}
  /\ pc \in {"pick", "commit"} => slot_size[Slot(Newest)] = 0

\* nothing but members marked the bitmap of an open batch
BitmapsAreMarks ==
  \A b \in Live : slot_maps[Slot(b)] \subseteq UNION {Marks(m) : m \in Members(b)}

\* the nets that have picked a batch in this round
Picked(n) ==
  n \in active /\ (pc = "pick" => n \in Handled)
               /\ pc \in {"pick", "commit", "check", "stamp", "release", "host"}

\* a scan stops at a batch, and what it has passed stays refused
ScansAreFinal ==
  \A n \in Net :
    /\ scan_from[n] <= Newest
    /\ Placed(n) => scan_from[n] = batch_of_net[n]
    /\ Picked(n) => pick[n] = scan_from[n] /\ pick[n] \in Live
    /\ \A b \in Live : b < scan_from[n] => Refuses(b, n)

\* the owner map holds nets in flight, at their marks, and is empty between rounds
OwnersInFlight ==
  \A p \in Cell : owner[p] # kEmpty =>
    /\ owner[p] \in active /\ p \in Marks(owner[p])
    /\ pc = "release" => owner[p] \in todo
    /\ pc \in {"commit", "check", "stamp", "release"}

\* until a net of the wavefront is placed, every batch picked has room
RoomIsLeft ==
  \A n \in Net : Picked(n) /\ (\A k \in active : ~Placed(k)) => HasRoom(Slot(pick[n]))

\* once the best net of the wavefront is checked, it or a net before it is placed
BestIsPlaced ==
  /\ pc \in {"pick", "commit", "check", "stamp", "release", "host"} => active # {}
  /\ pc = "check" => \A m \in Handled :
                       (\A k \in active : m <= k) => \E k \in active : Placed(k)
  /\ pc \in {"stamp", "release", "host"} => \E k \in active : Placed(k)

\* the strengthening of the properties about placements
PlacementInv ==
  /\ CountsAgree
  /\ BitmapsAreMarks
  /\ ScansAreFinal
  /\ OwnersInFlight
  /\ RoomIsLeft
  /\ BestIsPlaced
  /\ EveryRoundPlaces
  /\ wavefront <= MaxWavefront /\ WavefrontFitsBuffers
  /\ pc = "done" => pending = {} /\ batch_count = BatchTotal

\* What every step preserves.
IInv == KernelInv /\ PlacementInv
=============================================================================
