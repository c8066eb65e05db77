------------------------------ MODULE MaskBits ------------------------------
(***************************************************************************)
(* The allocator of router mask bits in NodeTracker                        *)
(* (python/qpid_dispatch_internal/router/node.py): bit 0 stands for the    *)
(* local router, next_maskbit caches the bit to hand out next.             *)
(***************************************************************************)
EXTENDS Integers, WellFoundedInduction, TLAPS

CONSTANT MaxRouters     \* container.max_routers, the width of a bit mask

ASSUME MaxRoutersAssumption == MaxRouters \in Nat /\ MaxRouters >= 2

NoBit == -1     \* next_maskbit is None

Width == 0 .. MaxRouters - 1

\* (mutant: bit 0 is not reserved)
AllBitsFree_ZeroToo == [used |-> {}, next |-> 0]

\* An allocator is a record: the maskbits in use and next_maskbit.
AllBitsFree == [used |-> {0}, next |-> 1]

Lowest(S) == CHOOSE i \in S : \A j \in S : i <= j

\* The caller raises an exception first when m.next is NoBit.
_allocate_maskbit(m) ==
    LET above == {n \in Width : n > m.next /\ n \notin m.used}
    IN  [used |-> m.used \cup {m.next},
         next |-> IF above = {} THEN NoBit ELSE Lowest(above)]

_free_maskbit(m, i) ==
    [used |-> m.used \ {i},
     next |-> IF m.next = NoBit \/ i < m.next THEN i ELSE m.next]

-----------------------------------------------------------------------------
VARIABLES
    m,          \* the allocator
    granted     \* the bits of the RouterNodes that exist

mbvars == <<m, granted>>

MBInit == m = AllBitsFree /\ granted = {}

\* RouterNode's constructor and its delete().
Create ==
    /\ m.next # NoBit
    /\ m' = _allocate_maskbit(m)
    /\ granted' = granted \cup {m.next}

Delete(i) ==
    /\ m' = _free_maskbit(m, i)
    /\ granted' = granted \ {i}

MBNext == Create \/ \E i \in granted : Delete(i)

MBSpec == MBInit /\ [][MBNext]_mbvars

\* The exception "Exceeded Maximum Router Count" is raised only when no bit is
\* free, and the bit handed out is the lowest free one: next_maskbit, which every
\* allocation and release moves, is never stale.
NextIsLowestFree ==
    LET free == Width \ m.used
    IN  IF free = {} THEN m.next = NoBit
        ELSE m.next \in free /\ \A j \in free : m.next <= j

MBTypeOK ==
    /\ m.used \subseteq Width
    /\ m.next \in Width \cup {NoBit}
    /\ m = [used |-> m.used, next |-> m.next]

\* The bits in use are those of the existing nodes and bit 0, so that a node is
\* never given the bit of another, nor the local router's.
BitsAccounted == m.used = granted \cup {0} /\ 0 \notin granted

-----------------------------------------------------------------------------
(* Proofs, for every width of the mask. *)

MBInv == MBTypeOK /\ NextIsLowestFree /\ BitsAccounted

\* A nonempty set of bits has a lowest member, which is what the scan finds.
LEMMA LowestExists ==
  ASSUME NEW S \in SUBSET Width, S # {}
  PROVE  Lowest(S) \in S /\ \A j \in S : Lowest(S) <= j
<1>1. S \subseteq Nat
  BY MaxRoutersAssumption DEF Width
<1>2. \E x \in S : \A y \in S : ~(<<y, x>> \in OpToRel(<, Nat))
  BY <1>1, NatLessThanWellFounded, WFMin, Zenon
<1>3. \E i \in S : \A j \in S : i <= j
  <2>1. PICK x \in S : \A y \in S : ~(<<y, x>> \in OpToRel(<, Nat))
    BY <1>2, Zenon
  <2>2. ASSUME NEW j \in S PROVE x <= j
    <3>1. j < x => <<j, x>> \in OpToRel(<, Nat)
      BY <1>1, Zenon DEF OpToRel
    <3>2. ~(j < x)
      BY <3>1, <2>1, Zenon
    <3> QED BY <3>2, <1>1
  <2> QED BY <2>2
<1> QED BY <1>3 DEF Lowest

\* _allocate_maskbit keeps next_maskbit the lowest free bit: all below the bit
\* handed out are taken, so the search above it misses nothing.
LEMMA AllocateKeepsLowest ==
  ASSUME MBInv, Create
  PROVE  MBInv'
<1> DEFINE above == {n \in Width : n > m.next /\ n \notin m.used}
<1>1. /\ m.next \in Width /\ m.next \notin m.used
      /\ \A j \in Width \ m.used : m.next <= j
  BY DEF MBInv, NextIsLowestFree, Create, MBTypeOK, NoBit
<1>2. /\ m'.used = m.used \cup {m.next}
      /\ m'.next = IF above = {} THEN NoBit ELSE Lowest(above)
      /\ m' = [used |-> m'.used, next |-> m'.next]
      /\ granted' = granted \cup {m.next}
  BY DEF Create, _allocate_maskbit
<1>3. Width \ m'.used = above
  BY <1>1, <1>2, MaxRoutersAssumption DEF Width
<1>4. above # {} => Lowest(above) \in above /\ \A j \in above : Lowest(above) <= j
  BY LowestExists
<1> HIDE DEF above
<1>5. NextIsLowestFree'
  BY <1>2, <1>3, <1>4 DEF NextIsLowestFree
<1>6. MBTypeOK'
  BY <1>1, <1>2, <1>3, <1>4 DEF MBTypeOK, MBInv
<1>7. BitsAccounted'
  BY <1>1, <1>2 DEF BitsAccounted, MBInv
<1> QED BY <1>5, <1>6, <1>7 DEF MBInv

\* _free_maskbit keeps it too: the released bit is the only one that can be lower.
LEMMA FreeKeepsLowest ==
  ASSUME MBInv, NEW i \in granted, Delete(i)
  PROVE  MBInv'
<1>1. i \in m.used /\ i # 0 /\ i \in Width
  BY DEF MBInv, BitsAccounted, MBTypeOK
<1>2. /\ m'.used = m.used \ {i}
      /\ m'.next = IF m.next = NoBit \/ i < m.next THEN i ELSE m.next
      /\ m' = [used |-> m'.used, next |-> m'.next]
      /\ granted' = granted \ {i}
  BY DEF Delete, _free_maskbit
<1>3. Width \ m'.used = (Width \ m.used) \cup {i}
  BY <1>1, <1>2
<1>4. NextIsLowestFree'
  <2>1. CASE Width \ m.used = {}
    BY <2>1, <1>1, <1>2, <1>3, MaxRoutersAssumption
       DEF MBInv, NextIsLowestFree, Width
  <2>2. CASE Width \ m.used # {}
    <3>1. m.next \in Width /\ m.next \notin m.used /\ \A j \in Width \ m.used : m.next <= j
      BY <2>2 DEF MBInv, NextIsLowestFree
    <3>2. m.next # NoBit
      BY <3>1, MaxRoutersAssumption DEF Width, NoBit
    <3> QED BY <3>1, <3>2, <1>1, <1>2, <1>3, MaxRoutersAssumption
            DEF NextIsLowestFree, Width
  <2> QED BY <2>1, <2>2
<1>5. MBTypeOK'
  BY <1>1, <1>2 DEF MBTypeOK, MBInv
<1>6. BitsAccounted'
  BY <1>1, <1>2 DEF BitsAccounted, MBInv
<1> QED BY <1>4, <1>5, <1>6 DEF MBInv

\* The three facts hold of every behaviour of the allocator.
THEOREM AllocatorInvariant == MBSpec => []MBInv
<1>1. MBInit => MBInv
  BY MaxRoutersAssumption DEF MBInit, AllBitsFree, MBInv, MBTypeOK, NextIsLowestFree,
     BitsAccounted, Width, NoBit
<1>2. MBInv /\ [MBNext]_mbvars => MBInv'
  <2> SUFFICES ASSUME MBInv, [MBNext]_mbvars PROVE MBInv'
    OBVIOUS
  <2>1. CASE Create
    BY <2>1, AllocateKeepsLowest
  <2>2. CASE \E i \in granted : Delete(i)
    BY <2>2, FreeKeepsLowest
  <2>3. CASE UNCHANGED mbvars
    BY <2>3 DEF mbvars, MBInv, MBTypeOK, NextIsLowestFree, BitsAccounted
  <2> QED BY <2>1, <2>2, <2>3 DEF MBNext
<1> QED BY <1>1, <1>2, PTL DEF MBSpec

\* next_maskbit is always the lowest free bit, or None when all are taken, however
\* nodes come and go (_allocate_maskbit, _free_maskbit).
THEOREM NextAlwaysLowestFree == MBSpec => []NextIsLowestFree
<1>1. MBInv => NextIsLowestFree
  BY DEF MBInv
<1> QED BY <1>1, AllocatorInvariant, PTL

\* No two router nodes ever have the same mask bit, and none has the local
\* router's: a bit is handed out only while it is not in use.
THEOREM BitsAlwaysAccounted == MBSpec => []BitsAccounted
<1>1. MBInv => BitsAccounted
  BY DEF MBInv
<1> QED BY <1>1, AllocatorInvariant, PTL

=============================================================================
