--------------------------- MODULE Buffers_proofs ---------------------------
(***************************************************************************)
(* Proofs about Buffers, for every number of mbufs, every size of the      *)
(* rings, the bursts, the pool and the NIC's queue: ring->out is a queue   *)
(* until its two producers meet, one of them can always publish, and a     *)
(* buffer is held twice or lost only where it is handed on and freed.      *)
(***************************************************************************)
EXTENDS Buffers, Places_proofs

(***************************************************************************)
(* Remainders.                                                             *)
(***************************************************************************)
LEMMA Division ==
  ASSUME NEW n \in Nat \ {0}, NEW a \in Int
  PROVE  \E q \in Int, r \in 0 .. n - 1 : a = n * q + r /\ a % n = r
<1>1. a = n * (a \div n) + (a % n)
  BY Z3
<1>2. a \div n \in Int /\ a % n \in 0 .. n - 1
  OBVIOUS
<1>. QED BY <1>1, <1>2, Zenon

LEMMA Remainder ==
  ASSUME NEW n \in Nat \ {0}, NEW q \in Int, NEW r \in 0 .. n - 1, NEW a, a = n * q + r
  PROVE  a % n = r
OBVIOUS

LEMMA Turns ==
  ASSUME NEW n \in Nat \ {0}, NEW a \in Int, NEW k \in Int
  PROVE  (a + n * k) % n = a % n
<1>1. PICK q \in Int, r \in 0 .. n - 1 : a = n * q + r /\ a % n = r
  BY Division
<1>2. n * (q + k) = n * q + n * k
  OBVIOUS
<1>3. n * q \in Int /\ n * k \in Int /\ q + k \in Int /\ a + n * k = n * (q + k) + r
  BY <1>1, <1>2
<1>4. (a + n * k) % n = r
  BY <1>3, Remainder
<1>. QED BY <1>1, <1>4

\* Every number is a remainder and whole turns t, and whole turns do not matter.
Whole(t, n) == t \in Int /\ \A b \in Int : (b + t) % n = b % n

LEMMA WholeTurns ==
  ASSUME NEW n \in Nat \ {0}, NEW a \in Int
  PROVE  \E t \in Int, r \in 0 .. n - 1 : a = t + r /\ a % n = r /\ Whole(t, n)
<1>1. PICK q \in Int, r \in 0 .. n - 1 : a = n * q + r /\ a % n = r
  BY Division
<1>2. ASSUME NEW b \in Int PROVE (b + n * q) % n = b % n
  BY Turns
<1>3. n * q \in Int
  OBVIOUS
<1>4. Whole(n * q, n)
  BY <1>2, <1>3 DEF Whole
<1>. QED BY <1>1, <1>3, <1>4, Zenon

LEMMA TurnsDoNotMatter ==
  ASSUME NEW n, NEW t, Whole(t, n), NEW b \in Int, NEW x, x = b + t
  PROVE  x % n = b % n
BY DEF Whole

\* Numbers with the same remainder are equal or a whole turn apart.
LEMMA TurnApart ==
  ASSUME NEW n \in Nat \ {0}, NEW a \in Int, NEW b \in Int, a % n = b % n,
         a - b < n, b - a < n
  PROVE  a = b
<1>1. PICK q \in Int, r \in 0 .. n - 1 : a = n * q + r /\ a % n = r
  BY Division
<1>2. PICK q1 \in Int, r1 \in 0 .. n - 1 : b = n * q1 + r1 /\ b % n = r1
  BY Division
<1>3. q - q1 \in Int /\ a - b = n * (q - q1)
  BY <1>1, <1>2
<1>4. ASSUME NEW k \in Int, -n < n * k, n * k < n PROVE k = 0
  BY <1>4
<1>5. q - q1 = 0
  BY <1>3, <1>4
<1>. QED BY <1>1, <1>2, <1>5

-----------------------------------------------------------------------------
(***************************************************************************)
(* Positions of ring->out.                                                 *)
(***************************************************************************)
LEMMA Sizes ==
  /\ RING_SIZE \in Nat /\ RING_SIZE >= 2 /\ Capacity = RING_SIZE - 1 /\ Capacity \in Nat
  /\ Positions \in Nat /\ Positions >= RING_SIZE
  /\ \E k \in Int : Positions = RING_SIZE * k
<1>1. /\ RING_SIZE \in Nat \ {0, 1} /\ Positions \in Nat \ {0} /\ Positions % RING_SIZE = 0
      /\ Capacity = RING_SIZE - 1
  BY SizesAssumption DEF Capacity
<1>2. PICK k \in Int, r \in 0 .. RING_SIZE - 1 :
        Positions = RING_SIZE * k + r /\ Positions % RING_SIZE = r
  BY <1>1, Division
<1>3. Positions = RING_SIZE * k
  BY <1>1, <1>2
<1>4. ASSUME NEW n \in Nat \ {0}, NEW j \in Int, n * j > 0 PROVE n * j >= n
  BY <1>4
<1>. QED BY <1>1, <1>3, <1>4

\* A position p is d behind c.
LEMMA DistanceOf ==
  ASSUME NEW c \in Int, NEW d \in 0 .. Positions - 1
  PROVE  (((c + d) % Positions) - c) % Positions = d
<1>0. Positions \in Nat \ {0}
  BY Sizes
<1>1. c + d \in Int
  OBVIOUS
<1>2. PICK t \in Int, r \in 0 .. Positions - 1 :
        c + d = t + r /\ (c + d) % Positions = r /\ Whole(t, Positions)
  BY <1>0, <1>1, WholeTurns
<1>3. r - c \in Int /\ (r - c) + t = d
  BY <1>0, <1>2
<1>4. d % Positions = (r - c) % Positions
  BY <1>2, <1>3 DEF Whole
<1>. QED BY <1>0, <1>2, <1>4

LEMMA AtDistance ==
  ASSUME NEW c \in Int, NEW p \in 0 .. Positions - 1
  PROVE  (c + ((p - c) % Positions)) % Positions = p
<1>0. Positions \in Nat \ {0}
  BY Sizes
<1>1. p - c \in Int
  OBVIOUS
<1>2. PICK t \in Int, r \in 0 .. Positions - 1 :
        p - c = t + r /\ (p - c) % Positions = r /\ Whole(t, Positions)
  BY <1>0, <1>1, WholeTurns
<1>3. c + r \in Int /\ (c + r) + t = p
  BY <1>0, <1>2
<1>4. p % Positions = (c + r) % Positions
  BY <1>2, <1>3 DEF Whole
<1>. QED BY <1>0, <1>2, <1>4

LEMMA Onward ==
  ASSUME NEW a \in Int, NEW d \in Int
  PROVE  ((a % Positions) + d) % Positions = (a + d) % Positions
<1>0. Positions \in Nat \ {0}
  BY Sizes
<1>1. PICK t \in Int, r \in 0 .. Positions - 1 :
        a = t + r /\ a % Positions = r /\ Whole(t, Positions)
  BY <1>0, WholeTurns
<1>2. a + d = (r + d) + t /\ r + d \in Int
  BY <1>1
<1>. QED BY <1>0, <1>1, <1>2 DEF Whole

LEMMA RoomLeft ==
  ASSUME NEW c \in Int, NEW h \in 0 .. Capacity,
         NEW v, v = (c + h) % Positions
  PROVE  (Capacity + c - v) % Positions = Capacity - h
<1>0. Positions \in Nat \ {0} /\ Capacity \in Nat /\ Capacity < Positions
  BY Sizes
<1>1. c + h \in Int
  BY <1>0
<1>2. PICK t \in Int, r \in 0 .. Positions - 1 :
        c + h = t + r /\ (c + h) % Positions = r /\ Whole(t, Positions)
  BY <1>0, <1>1, WholeTurns
<1> DEFINE b == Capacity - h
           x == Capacity + c - v
<1>3. b \in 0 .. Positions - 1
  BY <1>0
<1>4. x = b + t
  <2>1. c + h = t + r /\ v = r
    BY <1>0, <1>2
  <2>2. t \in Int /\ r \in Int
    BY <1>0, <1>2
  <2>. QED BY <1>0, <2>1, <2>2
<1>. HIDE DEF b, x
<1>5. x % Positions = b % Positions
  <2>1. b \in Int /\ Whole(t, Positions)
    BY <1>2, <1>3
  <2>. QED BY <1>4, <2>1 DEF Whole
<1>6. b % Positions = b
  BY <1>0, <1>3
<1>. QED BY <1>5, <1>6 DEF b, x

LEMMA SlotAt ==
  ASSUME NEW a \in Int
  PROVE  Slot(a % Positions) = Slot(a)
<1>1. RING_SIZE \in Nat \ {0} /\ Positions \in Nat \ {0}
  BY Sizes
<1>2. PICK k \in Int : Positions = RING_SIZE * k
  BY Sizes
<1>3. PICK q \in Int, r \in 0 .. Positions - 1 : a = Positions * q + r /\ a % Positions = r
  BY <1>1, Division
<1>4. k * q \in Int /\ (RING_SIZE * k) * q = RING_SIZE * (k * q)
  <2>1. ASSUME NEW x \in Int, NEW y \in Int, NEW z \in Int
        PROVE  y * z \in Int /\ (x * y) * z = x * (y * z)
    OBVIOUS
  <2>2. RING_SIZE \in Int
    BY <1>1
  <2>. HIDE <1>3
  <2>. QED BY <2>1, <2>2
<1>5. Positions * q = RING_SIZE * (k * q)
  BY <1>2, <1>4
<1>6. (r + RING_SIZE * (k * q)) % RING_SIZE = r % RING_SIZE
  <2> DEFINE m == k * q
  <2>1. m \in Int /\ r \in Int
    BY <1>1, <1>4
  <2>. HIDE DEF m
  <2>2. (r + RING_SIZE * m) % RING_SIZE = r % RING_SIZE
    BY <1>1, <2>1, Turns
  <2>. QED BY <2>2 DEF m
<1>7. Positions * q + r = r + Positions * q
  <2>1. ASSUME NEW x \in Int, NEW y \in Int PROVE x * y \in Int /\ x + y = y + x
    OBVIOUS
  <2>2. Positions * q \in Int /\ r \in Int
    BY <1>1, <1>3, <2>1
  <2>. QED BY <2>1, <2>2
<1>. QED BY <1>3, <1>5, <1>6, <1>7 DEF Slot

\* The position d behind c, and how far p is behind c.
At(c, d) == (c + d) % Positions
From(c, p) == (p - c) % Positions

LEMMA AtFacts ==
  ASSUME NEW c \in Int
  PROVE  /\ \A p \in 0 .. Positions - 1 : At(c, From(c, p)) = p
         /\ \A d \in 0 .. Positions - 1 : From(c, At(c, d)) = d
         /\ \A d \in Int : Slot(At(c, d)) = Slot(c + d)
         /\ \A d \in Int : After(At(c, d)) = At(c, d + 1)
         /\ \A n, d \in Int : At(At(c, n), d) = At(c, n + d)
<1>1. ASSUME NEW p \in 0 .. Positions - 1 PROVE At(c, From(c, p)) = p
  <2>1. (c + ((p - c) % Positions)) % Positions = p
    BY AtDistance
  <2>. QED BY <2>1 DEF At, From
<1>2. ASSUME NEW d \in 0 .. Positions - 1 PROVE From(c, At(c, d)) = d
  BY DistanceOf DEF At, From
<1>3. ASSUME NEW d \in Int PROVE Slot(At(c, d)) = Slot(c + d)
  <2>1. c + d \in Int
    OBVIOUS
  <2>. QED BY <2>1, SlotAt DEF At
<1>4. ASSUME NEW n \in Int, NEW d \in Int PROVE At(At(c, n), d) = At(c, n + d)
  <2>1. c + n \in Int /\ (c + n) + d = c + (n + d)
    OBVIOUS
  <2>2. (((c + n) % Positions) + d) % Positions = ((c + n) + d) % Positions
    BY <2>1, Onward
  <2>3. (((c + n) % Positions) + d) % Positions = (c + (n + d)) % Positions
    BY <2>1, <2>2
  <2>. QED BY <2>3 DEF At
<1>5. ASSUME NEW d \in Int PROVE After(At(c, d)) = At(c, d + 1)
  <2>1. At(At(c, d), 1) = At(c, d + 1)
    BY <1>4
  <2>. QED BY <2>1 DEF At, After
<1>. QED BY <1>1, <1>2, <1>3, <1>4, <1>5

LEMMA RoomAt ==
  ASSUME NEW c \in Int, NEW h \in 0 .. Capacity
  PROVE  (Capacity + c - At(c, h)) % Positions = Capacity - h
<1>1. ASSUME NEW v, v = (c + h) % Positions
      PROVE  (Capacity + c - v) % Positions = Capacity - h
  BY <1>1, RoomLeft
<1>2. At(c, h) = (c + h) % Positions
  BY DEF At
<1>. QED BY <1>1, <1>2, Zenon

-----------------------------------------------------------------------------
(***************************************************************************)
(* The pool, and sequences.                                                *)
(***************************************************************************)
Copies(p) == {place \in Mbufs \X (1 .. PoolSlots) : place[2] <= p[place[1]]}
Pools == [Mbufs -> 0 .. PoolSlots]

LEMMA CopiesFinite ==
  ASSUME NEW p
  PROVE  IsFiniteSet(Copies(p)) /\ Cardinality(Copies(p)) \in Nat
<1>1. IsFiniteSet(1 .. PoolSlots) /\ IsFiniteSet(Mbufs)
  BY PoolAssumption, FS_Interval
<1>2. IsFiniteSet(Mbufs \X (1 .. PoolSlots))
  BY <1>1, FS_Product
<1>3. Copies(p) \subseteq Mbufs \X (1 .. PoolSlots)
  BY DEF Copies
<1>. QED BY <1>2, <1>3, FS_Subset, FS_CardinalityType

LEMMA CopiesLess ==
  ASSUME NEW p \in Pools, NEW q \in Pools, \A m \in Mbufs : q[m] <= p[m]
  PROVE  Cardinality(Copies(q)) <= Cardinality(Copies(p))
<1>1. ASSUME NEW place \in Copies(q) PROVE place \in Copies(p)
  <2>1. /\ place \in Mbufs \X (1 .. PoolSlots) /\ place[1] \in Mbufs /\ place[2] \in Nat
        /\ place[2] <= q[place[1]]
    BY PoolAssumption DEF Copies
  <2>2. q[place[1]] <= p[place[1]] /\ q[place[1]] \in Nat /\ p[place[1]] \in Nat
    BY <2>1 DEF Pools
  <2>3. place[2] <= p[place[1]]
    BY <2>1, <2>2
  <2>. QED BY <2>1, <2>3 DEF Copies
<1>2. Copies(q) \subseteq Copies(p)
  BY <1>1
<1>. QED BY <1>2, CopiesFinite, FS_Subset

LEMMA CopiesMore ==
  ASSUME NEW p \in Pools, NEW m \in Mbufs, p[m] < PoolSlots,
         NEW q, q = [p EXCEPT ![m] = @ + 1]
  PROVE  q \in Pools /\ Cardinality(Copies(q)) = Cardinality(Copies(p)) + 1
<1>1. PoolSlots \in Nat /\ p[m] \in Nat
  BY PoolAssumption DEF Pools
<1>2. q \in Pools /\ q[m] = p[m] + 1 /\ \A k \in Mbufs : k # m => q[k] = p[k]
  BY <1>1 DEF Pools
<1> DEFINE new == <<m, p[m] + 1>>
<1>3. new \notin Copies(p)
  BY <1>1 DEF Copies
<1>4. ASSUME NEW k \in Mbufs, NEW i \in 1 .. PoolSlots
      PROVE  <<k, i>> \in Copies(q) <=> <<k, i>> \in Copies(p) \/ <<k, i>> = new
  <2>1. <<k, i>> \in Copies(q) <=> i <= q[k]
    BY DEF Copies
  <2>2. <<k, i>> \in Copies(p) <=> i <= p[k]
    BY DEF Copies
  <2>3. CASE k = m
    <3>1. i <= p[m] + 1 <=> i <= p[m] \/ i = p[m] + 1
      BY <1>1
    <3>. QED BY <1>2, <2>1, <2>2, <2>3, <3>1
  <2>4. CASE k # m
    BY <1>2, <2>1, <2>2, <2>4
  <2>. QED BY <2>3, <2>4
<1>5. new \in Mbufs \X (1 .. PoolSlots)
  BY <1>1
<1>6. Copies(q) = Copies(p) \cup {new}
  <2>1. /\ Copies(q) \subseteq Mbufs \X (1 .. PoolSlots)
        /\ Copies(p) \cup {new} \subseteq Mbufs \X (1 .. PoolSlots)
    BY <1>5 DEF Copies
  <2>. HIDE DEF new
  <2>2. ASSUME NEW place \in Mbufs \X (1 .. PoolSlots)
        PROVE  place \in Copies(q) <=> place \in Copies(p) \cup {new}
    <3>1. PICK k \in Mbufs, i \in 1 .. PoolSlots : place = <<k, i>>
      OBVIOUS
    <3>. QED BY <1>4, <3>1
  <2>. QED BY <2>1, <2>2
<1>. HIDE DEF new
<1>. QED BY <1>2, <1>3, <1>6, CopiesFinite, FS_AddElement

LEMMA CopiesOf ==
  ASSUME NEW p \in Pools, NEW m \in Mbufs
  PROVE  p[m] <= Cardinality(Copies(p))
<1>1. PoolSlots \in Nat /\ p[m] \in Nat /\ p[m] <= PoolSlots
  BY PoolAssumption DEF Pools
<1> DEFINE own == {m} \X (1 .. p[m])
<1>2. IsFiniteSet({m}) /\ Cardinality({m}) = 1
  BY FS_Singleton
<1>3. IsFiniteSet(1 .. p[m]) /\ Cardinality(1 .. p[m]) = p[m]
  <2>1. ASSUME NEW n \in Nat PROVE IsFiniteSet(1 .. n) /\ Cardinality(1 .. n) = n
    <3>1. Cardinality(1 .. n) = IF 1 > n THEN 0 ELSE n - 1 + 1
      BY FS_Interval
    <3>. QED BY <3>1, FS_Interval
  <2>. QED BY <1>1, <2>1
<1>4. Cardinality(own) = p[m]
  <2>1. ASSUME NEW A, NEW B, IsFiniteSet(A), IsFiniteSet(B)
        PROVE  Cardinality(A \X B) = Cardinality(A) * Cardinality(B)
    BY <2>1, FS_Product
  <2>2. Cardinality(own) = Cardinality({m}) * Cardinality(1 .. p[m])
    BY <1>2, <1>3, <2>1
  <2>. QED BY <1>1, <1>2, <1>3, <2>2
<1>5. own \subseteq Copies(p)
  <2>1. ASSUME NEW i \in 1 .. p[m] PROVE <<m, i>> \in Copies(p)
    BY <1>1 DEF Copies
  <2>. QED BY <2>1
<1>. HIDE DEF own
<1>. QED BY <1>4, <1>5, CopiesFinite, FS_Subset

LEMMA CopiesAtFirst == Cardinality(Copies([m \in Mbufs |-> 1])) <= PoolSlots
<1> DEFINE one == {1}
<1>1. IsFiniteSet(Mbufs) /\ Cardinality(Mbufs) \in Nat /\ IsFiniteSet(one) /\ Cardinality(one) = 1
  BY PoolAssumption, FS_Singleton, FS_CardinalityType
<1>2. IsFiniteSet(Mbufs \X one) /\ Cardinality(Mbufs \X one) = Cardinality(Mbufs) * 1
  BY <1>1, FS_Product
<1>3. Copies([m \in Mbufs |-> 1]) \subseteq Mbufs \X one
  <2>1. ASSUME NEW place \in Copies([m \in Mbufs |-> 1]) PROVE place \in Mbufs \X one
    <3>1. PICK k \in Mbufs, i \in 1 .. PoolSlots : place = <<k, i>> /\ i <= 1
      BY <2>1 DEF Copies
    <3>. QED BY <3>1, PoolAssumption
  <2>. QED BY <2>1
<1>4. Cardinality(Copies([m \in Mbufs |-> 1])) <= Cardinality(Mbufs \X one)
  BY <1>2, <1>3, FS_Subset
<1>5. Cardinality(Mbufs) * 1 = Cardinality(Mbufs)
  BY <1>1
<1>. HIDE DEF one
<1>. QED BY <1>1, <1>2, <1>4, <1>5, CopiesFinite, PoolAssumption

LEMMA FunctionIsSeq ==
  ASSUME NEW T, NEW n \in Nat, NEW f \in [1 .. n -> T]
  PROVE  f \in Seq(T) /\ Len(f) = n
<1>1. f \in Seq(T)
  BY SeqDef
<1>2. Len(f) \in Nat /\ DOMAIN f = 1 .. Len(f) /\ DOMAIN f = 1 .. n
  BY <1>1, LenProperties
<1>. QED BY <1>1, <1>2

-----------------------------------------------------------------------------
(***************************************************************************)
(* Types, and what each lcore holds at which stage.                        *)
(***************************************************************************)
Waits(t) == pc[t] \in {"publish", "tail"}
Held == (prod_head - cons) % Positions

Stages ==
  /\ pc["main"] \notin {"deal", "load", "store", "tail"}
  /\ pc["packet"] \notin {"receive", "transmit", "free", "request"}
  /\ pc["main"] \in {"claim", "publish", "enqueued"} => mbuf["main"] \in Mbufs
  /\ pc["main"] \notin {"claim", "publish", "enqueued"} => mbuf["main"] = NULL
  /\ pc["packet"] \in {"claim", "publish", "load", "store", "tail"} => mbuf["packet"] \in Mbufs
  /\ pc["packet"] \notin {"claim", "publish", "load", "store", "tail"} => mbuf["packet"] = NULL
  /\ pc["main"] = "request" => asked < Asked
  /\ InPool <= PoolSlots

TypeInv == TypeOK /\ Stages

LEMMA InPoolIs ==
  /\ InPool = Cardinality(Copies(pool)) /\ InPool \in Nat
  /\ InPool' = Cardinality(Copies(pool')) /\ InPool' \in Nat
BY CopiesFinite DEF InPool, Copies

LEMMA FreeFacts ==
  ASSUME TypeInv, NEW m \in Mbufs, Free(m)
  PROVE  /\ pool' \in Pools /\ InPool' <= PoolSlots
         /\ \A k \in Mbufs : k # m => pool'[k] = pool[k]
         /\ \/ pool'[m] = pool[m] + 1
            \/ pool'[m] = pool[m] /\ InPool = PoolSlots
<1>1. pool \in Pools /\ InPool <= PoolSlots /\ PoolSlots \in Nat
  BY PoolAssumption DEF TypeInv, TypeOK, Stages, Pools
<1>2. CASE InPool < PoolSlots
  <2>1. pool' = [pool EXCEPT ![m] = @ + 1]
    BY <1>2 DEF Free
  <2>2. pool[m] < PoolSlots
    <3>1. pool[m] <= InPool /\ pool[m] \in Nat
      BY <1>1, InPoolIs, CopiesOf DEF Pools
    <3>. QED BY <1>1, <1>2, <3>1, InPoolIs
  <2>3. pool' \in Pools /\ Cardinality(Copies(pool')) = Cardinality(Copies(pool)) + 1
    BY <1>1, <2>1, <2>2, CopiesMore
  <2>4. InPool' = InPool + 1
    BY <2>3, InPoolIs
  <2>. QED BY <1>1, <1>2, <2>1, <2>3, <2>4, InPoolIs DEF Pools
<1>3. CASE ~(InPool < PoolSlots)
  <2>1. pool' = pool /\ InPool = PoolSlots
    BY <1>1, <1>3, InPoolIs DEF Free, Pools
  <2>. QED BY <1>1, <2>1, InPoolIs
<1>. QED BY <1>2, <1>3

LEMMA AllocFacts ==
  ASSUME TypeInv, NEW t \in Lcores, Alloc(t)
  PROVE  /\ pool' \in Pools /\ InPool' <= PoolSlots /\ frames' \in Nat
         /\ \E m \in Mbufs :
              /\ mbuf' = [mbuf EXCEPT ![t] = m]
              /\ pool'[m] = pool[m] - 1
              /\ \A k \in Mbufs : k # m => pool'[k] = pool[k]
<1>1. pool \in Pools /\ InPool <= PoolSlots /\ PoolSlots \in Nat /\ frames \in Nat
  BY PoolAssumption DEF TypeInv, TypeOK, Stages, Pools
<1>2. PICK m \in Mbufs : /\ pool[m] > 0
                         /\ pool' = [pool EXCEPT ![m] = @ - 1]
                         /\ mbuf' = [mbuf EXCEPT ![t] = m]
  BY DEF Alloc
<1>3. /\ pool' \in Pools /\ pool'[m] = pool[m] - 1
      /\ \A k \in Mbufs : k # m => pool'[k] = pool[k]
  BY <1>1, <1>2 DEF Pools
<1>4. \A k \in Mbufs : pool'[k] <= pool[k]
  BY <1>1, <1>3 DEF Pools
<1>5. InPool' <= InPool
  BY <1>1, <1>3, <1>4, CopiesLess, InPoolIs
<1>6. frames' \in Nat
  BY <1>1 DEF Alloc, Build
<1>7. InPool' <= PoolSlots
  BY <1>1, <1>5, InPoolIs
<1>. QED BY <1>2, <1>3, <1>6, <1>7

LEMMA ReceiveFacts ==
  ASSUME TypeInv, Receive
  PROVE  /\ pool' \in Pools /\ InPool' <= PoolSlots /\ frames' \in Nat
         /\ \E burst \in Seq(Mbufs) : \E k \in 0 .. Len(burst) :
              /\ \A m \in Mbufs : pool'[m] = pool[m] - Count(burst, m)
              /\ in' = in \o SubSeq(burst, 1, k)
              /\ in' \in Seq(Mbufs) /\ Len(in') <= Capacity
              /\ k = Len(burst) \/ Len(in') = Capacity
<1>1. /\ pool \in Pools /\ InPool <= PoolSlots /\ PoolSlots \in Nat /\ frames \in Nat
      /\ in \in Seq(Mbufs) /\ Len(in) \in Nat /\ Len(in) <= Capacity
      /\ Capacity \in Nat /\ BURST_SIZE \in Nat
  BY PoolAssumption, SizesAssumption, Sizes, LenProperties DEF TypeInv, TypeOK, Stages, Pools
<1>2. PICK n \in 0 .. BURST_SIZE : \E burst \in [1 .. n -> Mbufs] :
         /\ \A m \in Mbufs : Count(burst, m) <= pool[m]
         /\ pool' = [m \in Mbufs |-> pool[m] - Count(burst, m)]
         /\ in' = in \o FirstOf(burst, Least(n, Capacity - Len(in)))
         /\ Build(n)
  <2>1. (IF Received = {} THEN {0} ELSE 0 .. BURST_SIZE) \subseteq 0 .. BURST_SIZE
    BY <1>1
  <2>. QED BY <2>1, Zenon DEF Receive
<1>3. PICK burst \in [1 .. n -> Mbufs] :
         /\ \A m \in Mbufs : Count(burst, m) <= pool[m]
         /\ pool' = [m \in Mbufs |-> pool[m] - Count(burst, m)]
         /\ in' = in \o FirstOf(burst, Least(n, Capacity - Len(in)))
         /\ Build(n)
  BY <1>2
<1>4. burst \in Seq(Mbufs) /\ Len(burst) = n /\ n \in Nat
  BY <1>1, FunctionIsSeq
<1> DEFINE k == Least(n, Capacity - Len(in))
<1>5. k \in 0 .. Len(burst) /\ Len(in) + k <= Capacity /\ (k = n \/ Len(in) + k = Capacity)
  BY <1>1, <1>4 DEF Least
<1>6. in' = in \o SubSeq(burst, 1, k)
  BY <1>3 DEF FirstOf
<1>. HIDE DEF k
<1>7. in' \in Seq(Mbufs) /\ Len(in') = Len(in) + k
  <2>1. SubSeq(burst, 1, k) \in Seq(Mbufs) /\ Len(SubSeq(burst, 1, k)) = k
    BY <1>4, <1>5, Split
  <2>. QED BY <1>1, <1>6, <2>1, ConcatProperties
<1>8. /\ pool' \in Pools /\ \A m \in Mbufs : pool'[m] = pool[m] - Count(burst, m)
      /\ \A m \in Mbufs : pool'[m] <= pool[m]
  <2>1. \A m \in Mbufs : Count(burst, m) \in Nat
    BY <1>4, CountNat
  <2>. QED BY <1>1, <1>3, <2>1 DEF Pools
<1>9. InPool' <= PoolSlots
  <2>1. InPool' <= InPool
    BY <1>1, <1>8, CopiesLess, InPoolIs
  <2>. QED BY <1>1, <2>1, InPoolIs
<1>10. frames' \in Nat
  BY <1>1, <1>3, <1>4 DEF Build
<1>. QED BY <1>4, <1>5, <1>6, <1>7, <1>8, <1>9, <1>10

LEMMA RingTypes ==
  ASSUME TypeInv
  PROVE  /\ Ready \in Nat /\ Ready < Positions /\ Held \in Nat /\ Held < Positions
         /\ prod_head \in 0 .. Positions - 1 /\ prod_tail \in 0 .. Positions - 1
         /\ cons \in 0 .. Positions - 1
         /\ \A i \in Int : Slot(i) \in 0 .. RING_SIZE - 1 /\ After(i) \in 0 .. Positions - 1
<1>1. /\ RING_SIZE \in Nat \ {0} /\ Positions \in Nat \ {0}
      /\ prod_head \in 0 .. Positions - 1 /\ prod_tail \in 0 .. Positions - 1
      /\ cons \in 0 .. Positions - 1
  BY Sizes DEF TypeInv, TypeOK
<1>2. ASSUME NEW n \in Nat \ {0}, NEW i \in Int PROVE i % n \in 0 .. n - 1
  OBVIOUS
<1>3. Ready \in 0 .. Positions - 1 /\ Held \in 0 .. Positions - 1
  BY <1>1, <1>2 DEF Ready, Held
<1>. QED BY <1>1, <1>2, <1>3 DEF Slot, After

\* What the main lcore takes off ring->out and gives to the NIC.
LEMMA TransmitFacts ==
  ASSUME TypeInv, Transmit
  PROVE  \E n \in 0 .. Ready : \E burst :
           /\ n <= BURST_SIZE
           /\ burst = [i \in 1 .. n |-> slots[Slot(cons + i - 1)]]
           /\ cons' = (cons + n) % Positions
           /\ \/ /\ burst \in Seq(Mbufs) /\ Len(burst) = n /\ tx' = burst
                 /\ \E k \in 0 .. n :
                      /\ nic' = nic \o SubSeq(burst, 1, k)
                      /\ nic' \in Seq(Mbufs) /\ Len(nic') <= TxSlots
                      /\ shared' = shared \cup ToSet(SubSeq(burst, 1, k))
              \/ /\ NULL \in ToSet(burst) /\ process' = "undefined"
                 /\ UNCHANGED <<tx, nic, shared>>
<1>1. /\ Ready \in Nat /\ BURST_SIZE \in Nat /\ TxSlots \in Nat /\ cons \in Int
      /\ nic \in Seq(Mbufs) /\ Len(nic) \in Nat /\ Len(nic) <= TxSlots
      /\ slots \in [0 .. RING_SIZE - 1 -> Mbufs \cup {NULL}]
  BY SizesAssumption, RingTypes, LenProperties DEF TypeInv, TypeOK
<1> DEFINE n == Least(Ready, BURST_SIZE)
           burst == [i \in 1 .. n |-> slots[Slot(cons + i - 1)]]
           k == Least(n, TxSlots - Len(nic))
<1>2. n \in 0 .. Ready /\ n <= BURST_SIZE /\ n \in Nat
  BY <1>1 DEF Least
<1>3. /\ cons' = (cons + n) % Positions
      /\ \/ /\ NULL \notin ToSet(burst) /\ tx' = burst /\ nic' = nic \o SubSeq(burst, 1, k)
            /\ shared' = shared \cup ToSet(SubSeq(burst, 1, k))
         \/ /\ NULL \in ToSet(burst) /\ process' = "undefined"
            /\ UNCHANGED <<tx, nic, shared>>
  BY DEF Transmit, FirstOf
<1>4. k \in 0 .. n /\ Len(nic) + k <= TxSlots
  BY <1>1, <1>2 DEF Least
<1>. HIDE DEF n, k
<1>5. CASE NULL \notin ToSet(burst)
  <2>1. burst \in [1 .. n -> Mbufs]
    <3>1. ASSUME NEW i \in 1 .. n PROVE slots[Slot(cons + i - 1)] \in Mbufs
      <4>1. cons + i - 1 \in Int
        BY <1>1, <1>2
      <4>2. slots[Slot(cons + i - 1)] \in Mbufs \cup {NULL}
        BY <1>1, <4>1, RingTypes
      <4>3. burst[i] = slots[Slot(cons + i - 1)] /\ i \in DOMAIN burst
        OBVIOUS
      <4>4. slots[Slot(cons + i - 1)] \in ToSet(burst)
        BY <4>3 DEF ToSet
      <4>. QED BY <1>5, <4>2, <4>4
    <3>. QED BY <3>1
  <2>. HIDE DEF burst
  <2>2. burst \in Seq(Mbufs) /\ Len(burst) = n
    BY <1>2, <2>1, FunctionIsSeq
  <2>3. SubSeq(burst, 1, k) \in Seq(Mbufs) /\ Len(SubSeq(burst, 1, k)) = k
    BY <1>4, <2>2, Split
  <2>4. nic' = nic \o SubSeq(burst, 1, k)
    BY <1>3, <1>5
  <2>5. nic' \in Seq(Mbufs) /\ Len(nic') <= TxSlots
    BY <1>1, <1>4, <2>3, <2>4, ConcatProperties
  <2>6. burst = [i \in 1 .. n |-> slots[Slot(cons + i - 1)]]
    BY DEF burst
  <2>. QED BY <1>2, <1>3, <1>4, <1>5, <2>2, <2>4, <2>5, <2>6
<1>6. CASE NULL \in ToSet(burst)
  BY <1>2, <1>3, <1>6
<1>. QED BY <1>5, <1>6

LEMMA PoolKept == pool' = pool => InPool' = InPool
BY DEF InPool

\* Steps that only take what is first in a queue and free it, or do not.
LEMMA HeadTypes ==
  ASSUME TypeInv
  PROVE  /\ tx # <<>> => Head(tx) \in Mbufs /\ Tail(tx) \in Seq(Mbufs)
         /\ rx # <<>> => Head(rx) \in Mbufs /\ Tail(rx) \in Seq(Mbufs)
         /\ nic # <<>> => /\ Head(nic) \in Mbufs /\ Tail(nic) \in Seq(Mbufs)
                          /\ Len(Tail(nic)) <= TxSlots
<1>1. tx \in Seq(Mbufs) /\ rx \in Seq(Mbufs) /\ nic \in Seq(Mbufs) /\ Len(nic) <= TxSlots
  BY DEF TypeInv, TypeOK
<1>2. TxSlots \in Nat /\ Len(nic) \in Nat
  BY <1>1, SizesAssumption, LenProperties
<1>3. nic # <<>> => /\ Head(nic) \in Mbufs /\ Tail(nic) \in Seq(Mbufs)
                    /\ Len(Tail(nic)) = Len(nic) - 1
  BY <1>1, HeadTailProperties
<1>. QED BY <1>1, <1>2, <1>3, HeadTailProperties

LEMMA TypeEnqueue ==
  ASSUME TypeInv, NEW t \in Lcores, Claim(t) \/ Publish(t)
  PROVE  TypeInv'
<1>1. /\ After(prod_head) \in 0 .. Positions - 1 /\ After(prod_tail) \in 0 .. Positions - 1
      /\ Slot(prod_head) \in 0 .. RING_SIZE - 1
  BY RingTypes
<1>2. mbuf[t] \in Mbufs
  BY DEF Claim, Publish, TypeInv, Stages, Lcores
<1>3. pool' = pool /\ InPool' = InPool
  BY PoolKept DEF Claim, Publish
<1>4. CASE Claim(t)
  <2>1. /\ slots' \in [0 .. RING_SIZE - 1 -> Mbufs \cup {NULL}]
        /\ head' \in [Lcores -> 0 .. Positions - 1]
        /\ prod_head' \in 0 .. Positions - 1 /\ raced' \in BOOLEAN
    <3>1. /\ slots \in [0 .. RING_SIZE - 1 -> Mbufs \cup {NULL}]
          /\ head \in [Lcores -> 0 .. Positions - 1]
          /\ prod_head \in 0 .. Positions - 1 /\ raced \in BOOLEAN
      BY DEF TypeInv, TypeOK
    <3>2. /\ slots' = slots \/ slots' = [slots EXCEPT ![Slot(prod_head)] = mbuf[t]]
          /\ head' = head \/ head' = [head EXCEPT ![t] = prod_head]
          /\ prod_head' = prod_head \/ prod_head' = After(prod_head)
      BY <1>4 DEF Claim
    <3>3. raced' \in BOOLEAN
      BY <1>4, <3>1 DEF Claim
    <3>. QED BY <1>1, <1>2, <3>1, <3>2, <3>3
  <2>2. \/ pc' = [pc EXCEPT ![t] = "publish"] /\ mbuf' = mbuf
        \/ /\ pc' = [pc EXCEPT ![t] = "enqueued"]
           /\ mbuf' = IF t = "packet" THEN [mbuf EXCEPT ![t] = NULL] ELSE mbuf
    BY <1>4 DEF Claim, Enqueued, Goto
  <2>3. UNCHANGED <<pool, in, prod_tail, cons, nic, tx, asked, rx, shared, frames, process>>
    BY <1>4 DEF Claim
  <2>4. pc[t] = "claim"
    BY <1>4 DEF Claim
  <2>5. pc' \in [Lcores -> Labels] /\ mbuf' \in [Lcores -> Mbufs \cup {NULL}]
    <3>1. pc \in [Lcores -> Labels] /\ mbuf \in [Lcores -> Mbufs \cup {NULL}]
      BY DEF TypeInv, TypeOK
    <3>. QED BY <2>2, <3>1 DEF Labels
  <2>6. TypeOK'
    BY <1>3, <2>1, <2>3, <2>5 DEF TypeInv, TypeOK
  <2>7. Stages'
    BY <1>2, <1>3, <2>2, <2>3, <2>4 DEF TypeInv, TypeOK, Stages, Lcores
  <2>. QED BY <2>6, <2>7 DEF TypeInv
<1>5. CASE Publish(t)
  BY <1>1, <1>2, <1>3, <1>5
     DEF Publish, Enqueued, Goto, TypeInv, TypeOK, Stages, Lcores, Labels
<1>. QED BY <1>4, <1>5

LEMMA TypeMain ==
  ASSUME TypeInv, Main
  PROVE  TypeInv'
<1>1. CASE Receive
  <2>1. /\ pool' \in [Mbufs -> 0 .. PoolSlots] /\ InPool' <= PoolSlots /\ frames' \in Nat
        /\ in' \in Seq(Mbufs) /\ Len(in') <= Capacity
    BY <1>1, ReceiveFacts DEF Pools
  <2>. QED BY <1>1, <2>1
       DEF Receive, Goto, ringVars, TypeInv, TypeOK, Stages, Lcores, Labels
<1>2. CASE Transmit
  <2>1. /\ tx' \in Seq(Mbufs) /\ nic' \in Seq(Mbufs) /\ Len(nic') <= TxSlots
        /\ shared' \subseteq Mbufs /\ cons' \in 0 .. Positions - 1
        /\ process' \in {"running", "exited", "undefined"}
    <3>0. PICK n \in 0 .. Ready : \E burst :
           /\ n <= BURST_SIZE
           /\ burst = [i \in 1 .. n |-> slots[Slot(cons + i - 1)]]
           /\ cons' = (cons + n) % Positions
           /\ \/ /\ burst \in Seq(Mbufs) /\ Len(burst) = n /\ tx' = burst
                 /\ \E k \in 0 .. n :
                      /\ nic' = nic \o SubSeq(burst, 1, k)
                      /\ nic' \in Seq(Mbufs) /\ Len(nic') <= TxSlots
                      /\ shared' = shared \cup ToSet(SubSeq(burst, 1, k))
              \/ /\ NULL \in ToSet(burst) /\ process' = "undefined"
                 /\ UNCHANGED <<tx, nic, shared>>
      BY <1>2, TransmitFacts
    <3>1. PICK burst :
           /\ n <= BURST_SIZE
           /\ burst = [i \in 1 .. n |-> slots[Slot(cons + i - 1)]]
           /\ cons' = (cons + n) % Positions
           /\ \/ /\ burst \in Seq(Mbufs) /\ Len(burst) = n /\ tx' = burst
                 /\ \E k \in 0 .. n :
                      /\ nic' = nic \o SubSeq(burst, 1, k)
                      /\ nic' \in Seq(Mbufs) /\ Len(nic') <= TxSlots
                      /\ shared' = shared \cup ToSet(SubSeq(burst, 1, k))
              \/ /\ NULL \in ToSet(burst) /\ process' = "undefined"
                 /\ UNCHANGED <<tx, nic, shared>>
      BY <3>0
    <3>2. cons + n \in Int /\ Positions \in Nat \ {0}
      BY Sizes, RingTypes
    <3>3. cons' \in 0 .. Positions - 1
      BY <3>1, <3>2
    <3>4. process' \in {"running", "exited", "undefined"}
      BY <1>2 DEF Transmit, TypeInv, TypeOK
    <3>5. ASSUME burst \in Seq(Mbufs), Len(burst) = n, tx' = burst, NEW k \in 0 .. n,
                 nic' \in Seq(Mbufs), Len(nic') <= TxSlots,
                 shared' = shared \cup ToSet(SubSeq(burst, 1, k))
          PROVE  /\ tx' \in Seq(Mbufs) /\ nic' \in Seq(Mbufs) /\ Len(nic') <= TxSlots
                 /\ shared' \subseteq Mbufs
      <4>1. SubSeq(burst, 1, k) \in Seq(Mbufs)
        BY <3>5, Split
      <4>2. ToSet(SubSeq(burst, 1, k)) \subseteq Mbufs
        BY <4>1, ElementOfSeq, LenProperties DEF ToSet
      <4>. QED BY <3>5, <4>2 DEF TypeInv, TypeOK
    <3>6. CASE UNCHANGED <<tx, nic, shared>>
      BY <3>3, <3>4, <3>6 DEF TypeInv, TypeOK
    <3>. QED BY <3>1, <3>3, <3>4, <3>5, <3>6
  <2>. QED BY <1>2, <2>1, PoolKept
       DEF Transmit, Goto, ringVars, TypeInv, TypeOK, Stages, Lcores, Labels
<1>3. CASE FreeSent
  <2>1. tx # <<>> /\ Head(tx) \in Mbufs /\ tx' \in Seq(Mbufs) /\ Free(Head(tx))
    BY <1>3, HeadTypes DEF FreeSent
  <2>2. pool' \in [Mbufs -> 0 .. PoolSlots] /\ InPool' <= PoolSlots
    BY <2>1, FreeFacts DEF Pools
  <2>. QED BY <1>3, <2>1, <2>2
       DEF FreeSent, ringVars, TypeInv, TypeOK, Stages, Lcores, Labels
<1>4. CASE TimerDue
  <2>1. /\ pool' \in [Mbufs -> 0 .. PoolSlots] /\ InPool' <= PoolSlots /\ frames' \in Nat
        /\ \E m \in Mbufs : mbuf' = [mbuf EXCEPT !["main"] = m]
    BY <1>4, AllocFacts DEF TimerDue, Pools, Lcores
  <2>2. 1 \in 0 .. Asked
    BY SizesAssumption
  <2>. QED BY <1>4, <2>1, <2>2
       DEF TimerDue, Goto, ringVars, TypeInv, TypeOK, Stages, Lcores, Labels
<1>5. CASE NextRequest
  <2>1. /\ pool' \in [Mbufs -> 0 .. PoolSlots] /\ InPool' <= PoolSlots /\ frames' \in Nat
        /\ \E m \in Mbufs : mbuf' = [mbuf EXCEPT !["main"] = m]
    BY <1>5, AllocFacts DEF NextRequest, Pools, Lcores
  <2>2. asked + 1 \in 0 .. Asked
    BY <1>5, SizesAssumption DEF NextRequest, TypeInv, TypeOK, Stages
  <2>. QED BY <1>5, <2>1, <2>2
       DEF NextRequest, Goto, ringVars, TypeInv, TypeOK, Stages, Lcores, Labels
<1>6. CASE Claim("main") \/ Publish("main")
  BY <1>6, TypeEnqueue DEF Lcores
<1>7. CASE FreeRequest
  <2>1. mbuf["main"] \in Mbufs /\ Free(mbuf["main"])
    BY <1>7 DEF FreeRequest, TypeInv, Stages
  <2>2. pool' \in [Mbufs -> 0 .. PoolSlots] /\ InPool' <= PoolSlots
    BY <2>1, FreeFacts DEF Pools
  <2>3. asked \in Nat /\ Asked \in Nat
    BY SizesAssumption DEF TypeInv, TypeOK
  <2>. QED BY <1>7, <2>2, <2>3
       DEF FreeRequest, Goto, ringVars, TypeInv, TypeOK, Stages, Lcores, Labels
<1>. QED BY <1>1, <1>2, <1>3, <1>4, <1>5, <1>6, <1>7 DEF Main

LEMMA TypePacket ==
  ASSUME TypeInv, Packet
  PROVE  TypeInv'
<1>1. CASE NextBurst
  <2> DEFINE n == Least(Len(in), BURST_SIZE)
  <2>1. in \in Seq(Mbufs) /\ Len(in) \in Nat /\ BURST_SIZE \in Nat
    BY SizesAssumption, LenProperties DEF TypeInv, TypeOK
  <2>2. n \in 0 .. Len(in)
    BY <2>1 DEF Least
  <2>3. rx' = SubSeq(in, 1, n) /\ in' = SubSeq(in, n + 1, Len(in))
    BY <1>1 DEF NextBurst, FirstOf, Behind
  <2>. HIDE DEF n
  <2>4. rx' \in Seq(Mbufs) /\ in' \in Seq(Mbufs) /\ Len(in') = Len(in) - n
    BY <2>1, <2>2, <2>3, Split
  <2>5. Len(in') <= Capacity
    BY <2>1, <2>2, <2>4, Sizes DEF TypeInv, TypeOK
  <2>. QED BY <1>1, <2>4, <2>5, PoolKept
       DEF NextBurst, ringVars, TypeInv, TypeOK, Stages, Lcores, Labels
<1>2. CASE Reply
  <2>1. /\ pool' \in [Mbufs -> 0 .. PoolSlots] /\ InPool' <= PoolSlots /\ frames' \in Nat
        /\ \E m \in Mbufs : mbuf' = [mbuf EXCEPT !["packet"] = m]
    BY <1>2, AllocFacts DEF Reply, Pools, Lcores
  <2>. QED BY <1>2, <2>1
       DEF Reply, Goto, ringVars, TypeInv, TypeOK, Stages, Lcores, Labels
<1>3. CASE Answered
  <2>1. pool' \in [Mbufs -> 0 .. PoolSlots] /\ InPool' <= PoolSlots /\ rx' \in Seq(Mbufs)
    <3>1. CASE rx # <<>> /\ Free(Head(rx)) /\ rx' = Tail(rx)
      BY <3>1, HeadTypes, FreeFacts DEF Pools
    <3>2. CASE UNCHANGED <<pool, rx>>
      BY <3>2, PoolKept DEF TypeInv, TypeOK, Stages
    <3>. QED BY <1>3, <3>1, <3>2 DEF Answered
  <2>. QED BY <1>3, <2>1
       DEF Answered, Goto, ringVars, TypeInv, TypeOK, Stages, Lcores, Labels
<1>4. CASE FreeReceived
  <2>1. pool' \in [Mbufs -> 0 .. PoolSlots] /\ InPool' <= PoolSlots /\ rx' \in Seq(Mbufs)
    BY <1>4, HeadTypes, FreeFacts DEF FreeReceived, Pools
  <2>. QED BY <1>4, <2>1
       DEF FreeReceived, ringVars, TypeInv, TypeOK, Stages, Lcores, Labels
<1>5. CASE Rarp
  <2>1. rx' \in Seq(Mbufs)
    BY <1>5, HeadTypes DEF Rarp
  <2>. QED BY <1>5, <2>1, PoolKept
       DEF Rarp, ringVars, TypeInv, TypeOK, Stages, Lcores, Labels
<1>6. CASE SweepFrame("arp", "claim") \/ SweepFrame("udp", "load")
  <2>1. /\ pool' \in [Mbufs -> 0 .. PoolSlots] /\ InPool' <= PoolSlots /\ frames' \in Nat
        /\ \E m \in Mbufs : mbuf' = [mbuf EXCEPT !["packet"] = m]
    BY <1>6, AllocFacts DEF SweepFrame, Pools, Lcores
  <2>2. \/ pc' = [pc EXCEPT !["packet"] = "claim"]
        \/ pc' = [pc EXCEPT !["packet"] = "load"]
    BY <1>6 DEF SweepFrame, Goto
  <2>. QED BY <1>6, <2>1, <2>2
       DEF SweepFrame, ringVars, TypeInv, TypeOK, Stages, Lcores, Labels
<1>7. CASE Claim("packet") \/ Publish("packet")
  BY <1>7, TypeEnqueue DEF Lcores
<1>8. CASE LoadHead
  BY <1>8, PoolKept
     DEF LoadHead, Enqueued, Goto, ringVars, TypeInv, TypeOK, Stages, Lcores, Labels
<1>9. CASE StoreHead \/ StoreTail
  <2>1. /\ After(head["packet"]) \in 0 .. Positions - 1
        /\ Slot(head["packet"]) \in 0 .. RING_SIZE - 1
    BY RingTypes DEF TypeInv, TypeOK, Lcores
  <2>2. CASE StoreHead
    BY <2>1, <2>2, PoolKept
       DEF StoreHead, Goto, TypeInv, TypeOK, Stages, Lcores, Labels
  <2>3. CASE StoreTail
    BY <2>1, <2>3, PoolKept
       DEF StoreTail, Enqueued, Goto, TypeInv, TypeOK, Stages, Lcores, Labels
  <2>. QED BY <1>9, <2>2, <2>3
<1>. QED BY <1>1, <1>2, <1>3, <1>4, <1>5, <1>6, <1>7, <1>8, <1>9 DEF Packet

LEMMA TypeInvHolds == SafeSpec => []TypeInv
<1>1. Init => TypeInv
  <2> SUFFICES ASSUME Init PROVE TypeInv
    OBVIOUS
  <2>1. InPool <= PoolSlots
    BY InPoolIs, CopiesAtFirst DEF Init
  <2>2. Mbufs # {} => PoolSlots \in Nat \ {0}
    <3>1. IsFiniteSet(Mbufs) /\ Cardinality(Mbufs) \in Nat /\ Cardinality(Mbufs) <= PoolSlots
      BY PoolAssumption, FS_CardinalityType
    <3>. QED BY <3>1, PoolAssumption, FS_EmptySet
  <2>3. pool \in [Mbufs -> 0 .. PoolSlots]
    BY <2>2 DEF Init
  <2>4. <<>> \in Seq(Mbufs) /\ Len(<<>>) = 0
    BY EmptySeq
  <2>5. 0 \in 0 .. Positions - 1 /\ 0 \in 0 .. Asked /\ 0 <= TxSlots /\ 0 <= Capacity
    BY Sizes, SizesAssumption
  <2>6. TypeOK
    <3>1. pc \in [Lcores -> Labels]
      BY DEF Init, Lcores, Labels
    <3>2. /\ slots \in [0 .. RING_SIZE - 1 -> Mbufs \cup {NULL}]
          /\ mbuf \in [Lcores -> Mbufs \cup {NULL}]
      BY DEF Init
    <3>3. head \in [Lcores -> 0 .. Positions - 1]
      BY <2>5 DEF Init
    <3>. QED BY <2>3, <2>4, <2>5, <3>1, <3>2, <3>3 DEF Init, TypeOK
  <2>7. Stages
    BY <2>1 DEF Init, Stages, Lcores
  <2>. QED BY <2>6, <2>7 DEF TypeInv
<1>2. TypeInv /\ [Next]_vars => TypeInv'
  <2> SUFFICES ASSUME TypeInv, [Next]_vars PROVE TypeInv'
    OBVIOUS
  <2>1. CASE UNCHANGED vars
    BY <2>1, PoolKept DEF vars, ringVars, lcoreVars, TypeInv, TypeOK, Stages
  <2>2. CASE NicSent
    <3>1. nic # <<>> /\ Head(nic) \in Mbufs /\ nic' \in Seq(Mbufs) /\ Len(nic') <= TxSlots
      BY <2>2, HeadTypes DEF NicSent
    <3>2. pool' \in [Mbufs -> 0 .. PoolSlots] /\ InPool' <= PoolSlots
      BY <2>2, <3>1, FreeFacts DEF NicSent, Pools
    <3>. QED BY <2>2, <3>1, <3>2
         DEF NicSent, ringVars, lcoreVars, TypeInv, TypeOK, Stages
  <2>3. CASE Exit
    BY <2>3, PoolKept DEF Exit, ringVars, lcoreVars, TypeInv, TypeOK, Stages
  <2>. QED BY <2>1, <2>2, <2>3, TypeMain, TypePacket DEF Next
<1>. QED BY <1>1, <1>2, PTL DEF SafeSpec

\* Types of the variables; no queue is longer than its slots, no buffer more
\* often in the pool than the pool has slots, and no lcore at a stage of the
\* other.
THEOREM TypeCorrect == SafeSpec => []TypeOK
  BY TypeInvHolds, PTL DEF TypeInv

-----------------------------------------------------------------------------
(***************************************************************************)
(* The producers of ring->out.  Held positions are claimed or published    *)
(* and not yet consumed; Ready of them are published.  Until a race each   *)
(* lcore that has claimed a position waits at its own, one behind the      *)
(* other, and what it has stored there is still in the slot.               *)
(***************************************************************************)
Claimed ==
  /\ ~Waits("main") /\ ~Waits("packet") => Held = Ready
  /\ \A t, u \in Lcores :
       t # u /\ Waits(t) /\ ~Waits(u) => Held = Ready + 1 /\ head[t] = prod_tail
  /\ Waits("main") /\ Waits("packet") =>
       /\ Held = Ready + 2
       /\ \E t, u \in Lcores : t # u /\ head[t] = prod_tail /\ head[u] = After(prod_tail)

RingOK ==
  /\ Claimed
  /\ Held <= Capacity
  /\ pc["packet"] = "store" => head["packet"] = prod_head /\ Held < Capacity
  /\ \A t \in Lcores : Waits(t) => slots[Slot(head[t])] = mbuf[t]
  /\ \A i \in 0 .. Ready - 1 : slots[Slot(cons + i)] \in Mbufs

RingInv == ~raced => RingOK

LEMMA Distances ==
  ASSUME TypeInv
  PROVE  /\ Ready = From(cons, prod_tail) /\ Held = From(cons, prod_head)
         /\ prod_tail = At(cons, Ready) /\ prod_head = At(cons, Held)
         /\ Held <= Capacity => Room = Capacity - Held
         /\ Held < Capacity => From(cons, After(prod_head)) = Held + 1
         /\ Ready < Capacity => From(cons, After(prod_tail)) = Ready + 1
         /\ Held = Ready + 1 => prod_head = After(prod_tail)
<1>1. /\ Positions \in Nat /\ cons \in Int /\ Ready \in Nat /\ Held \in Nat
      /\ prod_tail \in 0 .. Positions - 1 /\ prod_head \in 0 .. Positions - 1
      /\ Capacity \in Nat /\ Capacity < Positions
  BY Sizes, RingTypes
<1>2. Ready = From(cons, prod_tail) /\ Held = From(cons, prod_head)
  BY DEF Ready, Held, From
<1>3. prod_tail = At(cons, Ready) /\ prod_head = At(cons, Held)
  BY <1>1, <1>2, AtFacts
<1>4. ASSUME Held <= Capacity PROVE Room = Capacity - Held
  <2>1. Held \in 0 .. Capacity
    BY <1>1, <1>4
  <2>2. (Capacity + cons - At(cons, Held)) % Positions = Capacity - Held
    BY <1>1, <2>1, RoomAt
  <2>3. (Capacity + cons - prod_head) % Positions = Capacity - Held
    BY <1>3, <2>2, Zenon
  <2>. QED BY <2>3 DEF Room
<1>5. ASSUME NEW d \in Nat
      PROVE  /\ After(At(cons, d)) = At(cons, d + 1)
             /\ d < Capacity => From(cons, After(At(cons, d))) = d + 1
  <2>1. After(At(cons, d)) = At(cons, d + 1)
    BY <1>1, AtFacts
  <2>2. d < Capacity => d + 1 \in 0 .. Positions - 1
    BY <1>1
  <2>3. d < Capacity => From(cons, At(cons, d + 1)) = d + 1
    BY <1>1, <2>2, AtFacts
  <2>. QED BY <2>1, <2>3
<1>6. Held < Capacity => From(cons, After(prod_head)) = Held + 1
  BY <1>1, <1>3, <1>5
<1>7. Ready < Capacity => From(cons, After(prod_tail)) = Ready + 1
  BY <1>1, <1>3, <1>5
<1>8. Held = Ready + 1 => prod_head = After(prod_tail)
  BY <1>1, <1>3, <1>5
<1>. QED BY <1>2, <1>3, <1>4, <1>6, <1>7, <1>8

\* The slots of all that the ring can hold are different ones.
LEMMA SlotsApart ==
  ASSUME TypeInv, NEW i \in 0 .. Capacity, NEW j \in 0 .. Capacity,
         Slot(cons + i) = Slot(cons + j)
  PROVE  i = j
<1>1. /\ RING_SIZE \in Nat \ {0} /\ Capacity = RING_SIZE - 1 /\ cons \in Int
      /\ i \in Int /\ j \in Int
  BY Sizes, RingTypes
<1> DEFINE a == cons + i
           b == cons + j
<1>2. a \in Int /\ b \in Int /\ a - b < RING_SIZE /\ b - a < RING_SIZE
  BY <1>1
<1>3. a % RING_SIZE = b % RING_SIZE
  BY DEF Slot
<1>. HIDE DEF a, b
<1>4. a = b
  BY <1>1, <1>2, <1>3, TurnApart
<1>. QED BY <1>1, <1>4 DEF a, b

LEMMA NextPosition ==
  ASSUME TypeInv
  PROVE  /\ After(prod_tail) # prod_tail
         /\ \A p \in 0 .. Positions - 1 : After(p) \in 0 .. Positions - 1
<1>1. Positions \in Nat /\ Positions >= 2 /\ prod_tail \in 0 .. Positions - 1
  BY Sizes, RingTypes
<1>2. CASE prod_tail + 1 < Positions
  <2>1. After(prod_tail) = prod_tail + 1
    BY <1>1, <1>2 DEF After
  <2>. QED BY <1>1, <2>1, RingTypes
<1>3. CASE prod_tail + 1 = Positions
  <2>1. After(prod_tail) = 0
    BY <1>1, <1>3 DEF After
  <2>. QED BY <1>1, <1>3, <2>1, RingTypes
<1>. QED BY <1>1, <1>2, <1>3

-----------------------------------------------------------------------------
\* One lcore claims the position at the head and stores its buffer there.
LEMMA ClaimRing ==
  ASSUME TypeInv, TypeInv', RingOK, NEW t \in Lcores, ~Waits(t), Held < Capacity,
         pc["packet"] # "store" \/ t = "packet",
         UNCHANGED <<prod_tail, cons, mbuf>>,
         head'[t] = prod_head, prod_head' = After(prod_head),
         \A u \in Lcores : u # t => head'[u] = head[u] /\ pc'[u] = pc[u],
         slots' = [slots EXCEPT ![Slot(prod_head)] = mbuf[t]], pc'[t] \in {"publish", "tail"}
  PROVE  /\ RingOK' /\ Held' = Held + 1 /\ Ready' = Ready
         /\ \A i \in 0 .. Ready - 1 : slots'[Slot(cons + i)] = slots[Slot(cons + i)]
<1>1. /\ Ready \in Nat /\ Held \in Nat /\ Capacity \in Nat /\ Positions \in Nat
      /\ Capacity < Positions /\ cons \in Int
      /\ prod_head = At(cons, Held) /\ prod_tail = At(cons, Ready)
  BY RingTypes, Distances, Sizes
<1>2. Held' = Held + 1 /\ Ready' = Ready
  <2>1. From(cons, After(prod_head)) = Held + 1
    BY Distances
  <2>. QED BY <2>1 DEF Held, Ready, From
<1>3. Ready <= Held
  BY <1>1 DEF RingOK, Claimed, Lcores
<1>4. ASSUME NEW i \in 0 .. Held - 1
      PROVE  slots'[Slot(cons + i)] = slots[Slot(cons + i)]
  <2>1. i \in 0 .. Capacity /\ Held \in 0 .. Capacity /\ i # Held /\ cons + i \in Int
    BY <1>1
  <2>2. Slot(cons + i) # Slot(cons + Held)
    BY <2>1, SlotsApart
  <2>3. Slot(prod_head) = Slot(cons + Held)
    BY <1>1, AtFacts
  <2>4. slots \in [0 .. RING_SIZE - 1 -> Mbufs \cup {NULL}] /\ Slot(cons + i) \in 0 .. RING_SIZE - 1
    BY <2>1, RingTypes DEF TypeInv, TypeOK
  <2>. QED BY <2>2, <2>3, <2>4
<1>5. slots'[Slot(prod_head)] = mbuf[t]
  BY <1>1, RingTypes DEF TypeInv, TypeOK
<1>6. Waits(t)' /\ \A u \in Lcores : u # t => Waits(u)' = Waits(u)
  BY DEF Waits
<1>7. PICK u \in Lcores : u # t /\ \A v \in Lcores : v = t \/ v = u
  BY DEF Lcores
<1>8. CASE ~Waits(u)
  <2>1. Held = Ready
    BY <1>7, <1>8 DEF RingOK, Claimed, Lcores
  <2>2. prod_head = prod_tail
    BY <1>1, <2>1, Zenon
  <2>3. Claimed'
    BY <1>1, <1>2, <1>6, <1>7, <1>8, <2>1, <2>2 DEF Claimed, Lcores
  <2>4. \A v \in Lcores : Waits(v)' => slots'[Slot(head'[v])] = mbuf'[v]
    BY <1>5, <1>6, <1>7, <1>8, Zenon
  <2>. QED BY <1>1, <1>2, <1>4, <2>1, <2>3, <2>4, <1>7 DEF RingOK, Lcores
<1>9. CASE Waits(u)
  <2>1. Held = Ready + 1 /\ head[u] = prod_tail
    BY <1>7, <1>9 DEF RingOK, Claimed
  <2>2. prod_head = After(prod_tail)
    BY <2>1, Distances
  <2>3. Claimed'
    BY <1>1, <1>2, <1>6, <1>7, <1>9, <2>1, <2>2 DEF Claimed, Lcores
  <2>4. slots'[Slot(head'[u])] = mbuf'[u]
    <3>1. Slot(prod_tail) = Slot(cons + Ready) /\ Ready \in 0 .. Held - 1
      BY <1>1, <2>1, AtFacts
    <3>2. slots'[Slot(prod_tail)] = slots[Slot(prod_tail)]
      BY <1>4, <3>1
    <3>3. slots[Slot(head[u])] = mbuf[u] /\ head'[u] = head[u]
      BY <1>7, <1>9 DEF RingOK
    <3>. QED BY <2>1, <3>2, <3>3
  <2>5. \A v \in Lcores : Waits(v)' => slots'[Slot(head'[v])] = mbuf'[v]
    BY <1>5, <1>7, <2>4
  <2>. QED BY <1>1, <1>2, <1>4, <2>1, <2>3, <2>5, <1>7 DEF RingOK, Lcores
<1>. QED BY <1>2, <1>3, <1>1, <1>4, <1>8, <1>9

\* The lcore whose position the tail has reached publishes it.
LEMMA PublishRing ==
  ASSUME TypeInv, TypeInv', RingOK, NEW t \in Lcores, Waits(t), head[t] = prod_tail,
         UNCHANGED <<prod_head, cons, slots, head>>, prod_tail' = After(prod_tail),
         \A u \in Lcores : u # t => mbuf'[u] = mbuf[u] /\ pc'[u] = pc[u],
         pc'[t] = "enqueued"
  PROVE  /\ RingOK' /\ Held' = Held /\ Ready' = Ready + 1 /\ Ready < Capacity
         /\ slots[Slot(cons + Ready)] = mbuf[t] /\ mbuf[t] \in Mbufs
<1>1. /\ Ready \in Nat /\ Held \in Nat /\ Capacity \in Nat /\ Positions \in Nat
      /\ Capacity < Positions /\ cons \in Int
      /\ prod_head = At(cons, Held) /\ prod_tail = At(cons, Ready)
  BY RingTypes, Distances, Sizes
<1>2. PICK u \in Lcores : u # t /\ \A v \in Lcores : v = t \/ v = u
  BY DEF Lcores
<1>3. Ready < Held /\ Held <= Capacity
  BY <1>1, <1>2 DEF RingOK, Claimed, Lcores
<1>4. Held' = Held /\ Ready' = Ready + 1
  <2>1. From(cons, After(prod_tail)) = Ready + 1
    BY <1>1, <1>3, Distances
  <2>. QED BY <2>1 DEF Held, Ready, From
<1>5. slots[Slot(cons + Ready)] = mbuf[t] /\ mbuf[t] \in Mbufs
  <2>1. Slot(prod_tail) = Slot(cons + Ready)
    BY <1>1, AtFacts
  <2>2. slots[Slot(head[t])] = mbuf[t]
    BY DEF RingOK
  <2>3. mbuf[t] \in Mbufs
    BY DEF TypeInv, Stages, Waits, Lcores
  <2>. QED BY <2>1, <2>2, <2>3
<1>6. ~Waits(t)' /\ Waits(u)' = Waits(u) /\ pc'[t] # "store"
  BY <1>2 DEF Waits
<1>7. Claimed'
  <2>1. CASE ~Waits(u)
    <3>1. Held = Ready + 1
      BY <1>2, <2>1 DEF RingOK, Claimed
    <3>2. Held' = Ready' /\ \A v \in Lcores : ~Waits(v)'
      BY <1>1, <1>2, <1>4, <1>6, <2>1, <3>1
    <3>. QED BY <3>2 DEF Claimed, Lcores
  <2>2. CASE Waits(u)
    <3>1. Held = Ready + 2 /\ head[u] = After(prod_tail)
      BY <1>2, <2>2, NextPosition DEF RingOK, Claimed, Lcores
    <3>2. Held' = Ready' + 1 /\ head'[u] = prod_tail'
      BY <1>1, <1>4, <3>1
    <3>3. Waits(u)' /\ ~Waits(t)'
      BY <1>6, <2>2
    <3>4. ASSUME NEW v \in Lcores, NEW w \in Lcores, v # w, Waits(v)', ~Waits(w)'
          PROVE  v = u
      BY <1>2, <3>3, <3>4
    <3>5. ~(\A v \in Lcores : ~Waits(v)') /\ ~(\A v \in Lcores : Waits(v)')
      BY <3>3
    <3>. QED BY <3>2, <3>3, <3>4, <3>5 DEF Claimed, Lcores
  <2>. QED BY <2>1, <2>2
<1>8. \A v \in Lcores : Waits(v)' => slots'[Slot(head'[v])] = mbuf'[v]
  BY <1>2, <1>6 DEF RingOK
<1>9. \A i \in 0 .. Ready' - 1 : slots'[Slot(cons' + i)] \in Mbufs
  BY <1>1, <1>4, <1>5 DEF RingOK
<1>10. pc'["packet"] = "store" => head'["packet"] = prod_head' /\ Held' < Capacity
  BY <1>2, <1>4, <1>6 DEF RingOK, Lcores
<1>. QED BY <1>3, <1>4, <1>1, <1>5, <1>7, <1>8, <1>9, <1>10 DEF RingOK

\* The consumer takes n of what is published.
LEMMA ConsumeRing ==
  ASSUME TypeInv, TypeInv', RingOK, NEW n \in 0 .. Ready, cons' = (cons + n) % Positions,
         UNCHANGED <<prod_head, prod_tail, slots, head, mbuf>>,
         pc'["packet"] = pc["packet"], ~Waits("main"), ~Waits("main")'
  PROVE  /\ RingOK' /\ Ready' = Ready - n /\ Held' = Held - n
         /\ \A i \in Nat : Slot(cons' + i) = Slot(cons + (n + i))
<1>1. /\ Ready \in Nat /\ Held \in Nat /\ Capacity \in Nat /\ Positions \in Nat
      /\ Ready < Positions /\ Held < Positions /\ cons \in Int
      /\ prod_head = At(cons, Held) /\ prod_tail = At(cons, Ready)
  BY RingTypes, Distances, Sizes
<1>2. Ready <= Held
  BY <1>1 DEF RingOK, Claimed, Lcores
<1>3. cons' = At(cons, n) /\ cons' \in Int
  BY DEF At, TypeInv, TypeOK
<1>4. ASSUME NEW d \in n .. Positions - 1 PROVE From(cons', At(cons, d)) = d - n
  <2>1. n \in Int /\ d - n \in Int /\ n + (d - n) = d /\ d - n \in 0 .. Positions - 1
    BY <1>1
  <2>2. At(At(cons, n), d - n) = At(cons, n + (d - n))
    BY <1>1, <2>1, AtFacts
  <2>3. At(cons', d - n) = At(cons, d)
    BY <1>3, <2>1, <2>2
  <2>4. From(cons', At(cons', d - n)) = d - n
    BY <1>3, <2>1, AtFacts
  <2>. QED BY <2>3, <2>4
<1>5. Ready' = Ready - n /\ Held' = Held - n
  <2>1. Ready \in n .. Positions - 1 /\ Held \in n .. Positions - 1
    BY <1>1, <1>2
  <2>2. From(cons', prod_tail) = Ready - n /\ From(cons', prod_head) = Held - n
    BY <1>1, <1>4, <2>1
  <2>. QED BY <2>2 DEF Ready, Held, From
<1>6. ASSUME NEW i \in Nat PROVE Slot(cons' + i) = Slot(cons + (n + i))
  <2>1. i \in Int /\ n \in Int /\ n + i \in Int
    BY <1>1
  <2>2. At(cons', i) = At(cons, n + i)
    <3>1. At(At(cons, n), i) = At(cons, n + i)
      BY <1>1, <2>1, AtFacts
    <3>. QED BY <1>3, <3>1
  <2>3. Slot(At(cons', i)) = Slot(cons' + i)
    BY <1>3, <2>1, AtFacts
  <2>4. Slot(At(cons, n + i)) = Slot(cons + (n + i))
    BY <1>1, <2>1, AtFacts
  <2>. QED BY <2>2, <2>3, <2>4
<1>7. \A t \in Lcores : Waits(t)' = Waits(t)
  BY DEF Waits, Lcores
<1>8. Claimed'
  BY <1>1, <1>5, <1>7 DEF RingOK, Claimed, Lcores
<1>9. \A i \in 0 .. Ready' - 1 : slots'[Slot(cons' + i)] \in Mbufs
  <2>1. ASSUME NEW i \in 0 .. Ready' - 1 PROVE slots'[Slot(cons' + i)] \in Mbufs
    <3>1. n + i \in 0 .. Ready - 1 /\ i \in Nat
      BY <1>1, <1>5
    <3>2. slots[Slot(cons + (n + i))] \in Mbufs
      BY <3>1 DEF RingOK
    <3>. QED BY <1>6, <3>1, <3>2
  <2>. QED BY <2>1
<1>10. \A t \in Lcores : Waits(t)' => slots'[Slot(head'[t])] = mbuf'[t]
  BY <1>7 DEF RingOK
<1>. QED BY <1>1, <1>5, <1>6, <1>8, <1>9, <1>10 DEF RingOK

\* Steps at which nothing of ring->out changes.
LEMMA OtherRing ==
  ASSUME TypeInv, TypeInv', RingOK, UNCHANGED <<prod_head, prod_tail, cons, slots>>,
         \A t \in Lcores : /\ Waits(t)' = Waits(t)
                           /\ Waits(t) => head'[t] = head[t] /\ mbuf'[t] = mbuf[t],
         pc'["packet"] = "store" => head'["packet"] = prod_head /\ Held < Capacity
  PROVE  RingOK' /\ Held' = Held /\ Ready' = Ready
<1>1. Held' = Held /\ Ready' = Ready
  BY DEF Held, Ready
<1>2. Claimed'
  BY <1>1 DEF RingOK, Claimed, Lcores
<1>. QED BY <1>1, <1>2 DEF RingOK

-----------------------------------------------------------------------------
(***************************************************************************)
(* What is published, as a sequence: n slots of those in sl from c on.     *)
(***************************************************************************)
Window(sl, c, n) == [i \in 1 .. n |-> sl[Slot(c + i - 1)]]

LEMMA PublishedIs == /\ Published = Window(slots, cons, Ready)
                     /\ Published' = Window(slots', cons', Ready')
BY DEF Published, Window

LEMMA WindowType ==
  ASSUME NEW sl, NEW c \in Int, NEW n \in Nat, \A i \in 0 .. n - 1 : sl[Slot(c + i)] \in Mbufs
  PROVE  /\ Window(sl, c, n) \in Seq(Mbufs) /\ Len(Window(sl, c, n)) = n
         /\ \A i \in 1 .. n : Window(sl, c, n)[i] = sl[Slot(c + (i - 1))]
<1>1. ASSUME NEW i \in 1 .. n PROVE i - 1 \in 0 .. n - 1 /\ c + i - 1 = c + (i - 1)
  OBVIOUS
<1>2. \A i \in 1 .. n : Window(sl, c, n)[i] = sl[Slot(c + (i - 1))]
  BY <1>1 DEF Window
<1>3. \A i \in 1 .. n : sl[Slot(c + i - 1)] \in Mbufs
  BY <1>1
<1>4. Window(sl, c, n) \in [1 .. n -> Mbufs]
  BY <1>3 DEF Window
<1>. QED BY <1>2, <1>4, FunctionIsSeq

LEMMA WindowSame ==
  ASSUME NEW sl, NEW sl1, NEW c \in Int, NEW n \in Nat,
         \A i \in 0 .. n - 1 : sl1[Slot(c + i)] = sl[Slot(c + i)]
  PROVE  Window(sl1, c, n) = Window(sl, c, n)
<1>1. ASSUME NEW i \in 1 .. n PROVE sl1[Slot(c + i - 1)] = sl[Slot(c + i - 1)]
  <2>1. i - 1 \in 0 .. n - 1 /\ c + i - 1 = c + (i - 1)
    OBVIOUS
  <2>. QED BY <2>1
<1>. QED BY <1>1 DEF Window

LEMMA WindowMore ==
  ASSUME NEW sl, NEW c \in Int, NEW n \in Nat, \A i \in 0 .. n : sl[Slot(c + i)] \in Mbufs
  PROVE  Window(sl, c, n + 1) = Append(Window(sl, c, n), sl[Slot(c + n)])
<1> DEFINE less == Window(sl, c, n)
           more == Window(sl, c, n + 1)
           last == sl[Slot(c + n)]
<1>1. /\ less \in Seq(Mbufs) /\ Len(less) = n
      /\ \A i \in 1 .. n : less[i] = sl[Slot(c + (i - 1))]
  <2>1. \A i \in 0 .. n - 1 : sl[Slot(c + i)] \in Mbufs
    OBVIOUS
  <2>. QED BY <2>1, WindowType
<1>2. /\ more \in Seq(Mbufs) /\ Len(more) = n + 1
      /\ \A i \in 1 .. n + 1 : more[i] = sl[Slot(c + (i - 1))]
  <2>1. n + 1 \in Nat /\ \A i \in 0 .. (n + 1) - 1 : sl[Slot(c + i)] \in Mbufs
    OBVIOUS
  <2>. QED BY <2>1, WindowType
<1>3. last \in Mbufs /\ last = sl[Slot(c + ((n + 1) - 1))]
  <2>1. (n + 1) - 1 = n
    OBVIOUS
  <2>. QED BY <2>1
<1>. HIDE DEF less, more, last
<1>4. /\ Append(less, last) \in Seq(Mbufs) /\ Len(Append(less, last)) = n + 1
      /\ \A i \in 1 .. n : Append(less, last)[i] = less[i]
      /\ Append(less, last)[n + 1] = last
  BY <1>1, <1>3
<1>5. ASSUME NEW i \in 1 .. n + 1 PROVE more[i] = Append(less, last)[i]
  <2>1. CASE i = n + 1
    BY <1>2, <1>3, <1>4, <2>1
  <2>2. CASE i # n + 1
    <3>1. i \in 1 .. n
      BY <2>2
    <3>. QED BY <1>1, <1>2, <1>4, <3>1
  <2>. QED BY <2>1, <2>2
<1>6. more = Append(less, last)
  BY <1>2, <1>4, <1>5, SeqEqual
<1>. QED BY <1>6 DEF less, more, last

\* The slots of the window hold buffers, and c1 is k behind c.
Filled(sl, c, n) == \A i \in 0 .. n - 1 : sl[Slot(c + i)] \in Mbufs
Shifted(c1, c, k) == \A i \in Nat : Slot(c1 + i) = Slot(c + (k + i))

LEMMA WindowSplit ==
  ASSUME NEW sl, NEW c \in Int, NEW n \in Nat, NEW k \in 0 .. n, NEW c1 \in Int,
         Filled(sl, c, n), Shifted(c1, c, k)
  PROVE  /\ Window(sl, c, k) = SubSeq(Window(sl, c, n), 1, k)
         /\ Window(sl, c1, n - k) = SubSeq(Window(sl, c, n), k + 1, n)
         /\ Window(sl, c, n) = Window(sl, c, k) \o Window(sl, c1, n - k)
<1> DEFINE all == Window(sl, c, n)
           front == Window(sl, c, k)
           back == Window(sl, c1, n - k)
<1>1. /\ all \in Seq(Mbufs) /\ Len(all) = n
      /\ \A i \in 1 .. n : all[i] = sl[Slot(c + (i - 1))]
  BY WindowType DEF Filled
<1>2. /\ front \in Seq(Mbufs) /\ Len(front) = k
      /\ \A i \in 1 .. k : front[i] = sl[Slot(c + (i - 1))]
  <2>1. k \in Nat /\ \A i \in 0 .. k - 1 : sl[Slot(c + i)] \in Mbufs
    BY DEF Filled
  <2>. QED BY <2>1, WindowType
<1>3. /\ back \in Seq(Mbufs) /\ Len(back) = n - k
      /\ \A i \in 1 .. n - k : back[i] = sl[Slot(c1 + (i - 1))]
  <2>1. n - k \in Nat
    OBVIOUS
  <2>2. ASSUME NEW i \in 0 .. (n - k) - 1 PROVE sl[Slot(c1 + i)] \in Mbufs
    <3>1. i \in Nat /\ k + i \in 0 .. n - 1
      OBVIOUS
    <3>. QED BY <3>1 DEF Filled, Shifted
  <2>. QED BY <2>1, <2>2, WindowType
<1>4. ASSUME NEW i \in 1 .. k PROVE front[i] = all[i]
  <2>1. i \in 1 .. n
    OBVIOUS
  <2>. QED BY <1>1, <1>2, <2>1
<1>5. ASSUME NEW i \in 1 .. n - k PROVE back[i] = all[k + i]
  <2>1. i - 1 \in Nat /\ k + i \in 1 .. n /\ k + (i - 1) = (k + i) - 1
    OBVIOUS
  <2>2. Slot(c1 + (i - 1)) = Slot(c + (k + (i - 1)))
    BY <2>1 DEF Shifted
  <2>. QED BY <1>1, <1>3, <2>1, <2>2
<1>. HIDE DEF all, front, back
<1> DEFINE f == SubSeq(all, 1, k)
           b == SubSeq(all, k + 1, n)
<1>6. f \in Seq(Mbufs) /\ Len(f) = k /\ b \in Seq(Mbufs) /\ Len(b) = n - k /\ all = f \o b
  <2>1. n = Len(all) /\ k \in 0 .. Len(all)
    BY <1>1
  <2>2. /\ f \in Seq(Mbufs) /\ Len(f) = k
        /\ SubSeq(all, k + 1, Len(all)) \in Seq(Mbufs)
        /\ Len(SubSeq(all, k + 1, Len(all))) = Len(all) - k
        /\ all = f \o SubSeq(all, k + 1, Len(all))
    BY <1>1, <2>1, Split
  <2>3. b = SubSeq(all, k + 1, Len(all))
    BY <2>1
  <2>. HIDE DEF f, b
  <2>. QED BY <1>1, <2>2, <2>3
<1>7. (\A i \in 1 .. k : f[i] = all[i]) /\ (\A i \in 1 .. n - k : b[i] = all[k + i])
  BY <1>1, <1>6
<1>. HIDE DEF f, b
<1>8. front = f
  BY <1>2, <1>4, <1>6, <1>7, SeqEqual
<1>9. back = b
  <2>1. \A i \in 1 .. Len(back) : back[i] = b[i]
    BY <1>3, <1>5, <1>7
  <2>. QED BY <1>3, <1>6, <2>1, SeqEqual
<1>. QED BY <1>6, <1>8, <1>9 DEF all, front, back, f, b

-----------------------------------------------------------------------------
(***************************************************************************)
(* The steps, for RingOK and for what is published.                        *)
(***************************************************************************)
LEMMA PublishedType ==
  ASSUME TypeInv, RingOK
  PROVE  /\ Published \in Seq(Mbufs) /\ Len(Published) = Ready /\ Ready <= Held
         /\ Ready \in Nat /\ Held \in Nat
<1>1. Ready \in Nat /\ Held \in Nat /\ cons \in Int
  BY RingTypes
<1>2. \A i \in 0 .. Ready - 1 : slots[Slot(cons + i)] \in Mbufs
  BY DEF RingOK
<1>3. Window(slots, cons, Ready) \in Seq(Mbufs) /\ Len(Window(slots, cons, Ready)) = Ready
  BY <1>1, <1>2, WindowType
<1>4. Ready <= Held
  BY <1>1 DEF RingOK, Claimed, Lcores
<1>. QED BY <1>1, <1>3, <1>4, PublishedIs

LEMMA ClaimStep ==
  ASSUME TypeInv, TypeInv', RingOK, NEW t \in Lcores, Claim(t), ~raced'
  PROVE  RingOK' /\ Published' = Published
<1>1. /\ Ready \in Nat /\ Held \in Nat /\ cons \in Int /\ Held <= Capacity /\ Capacity \in Nat
      /\ Room = Capacity - Held
  <2>1. Held <= Capacity
    BY DEF RingOK
  <2>2. Room = Capacity - Held
    BY <2>1, Distances
  <2>3. Ready \in Nat /\ Held \in Nat /\ cons \in Int /\ Capacity \in Nat
    BY RingTypes, Sizes
  <2>. QED BY <2>1, <2>2, <2>3
<1>2. pc[t] = "claim" /\ ~Waits(t)
  BY DEF Claim, Waits
<1>3. CASE Room > 0
  <2>1. /\ UNCHANGED <<prod_tail, cons, mbuf>>
        /\ head' = [head EXCEPT ![t] = prod_head] /\ prod_head' = After(prod_head)
        /\ slots' = [slots EXCEPT ![Slot(prod_head)] = mbuf[t]]
        /\ pc' = [pc EXCEPT ![t] = "publish"]
    BY <1>1, <1>3 DEF Claim, Goto
  <2>2. Held < Capacity
    BY <1>1, <1>3
  <2>3. pc["packet"] # "store" \/ t = "packet"
    BY <1>3 DEF Claim, Lcores
  <2>4. /\ head'[t] = prod_head /\ pc'[t] = "publish"
        /\ \A u \in Lcores : u # t => head'[u] = head[u] /\ pc'[u] = pc[u]
    BY <2>1 DEF TypeInv, TypeOK
  <2>5. /\ RingOK' /\ Ready' = Ready
        /\ \A i \in 0 .. Ready - 1 : slots'[Slot(cons + i)] = slots[Slot(cons + i)]
    BY <1>2, <2>1, <2>2, <2>3, <2>4, ClaimRing
  <2>6. Window(slots', cons, Ready) = Window(slots, cons, Ready)
    BY <1>1, <2>5, WindowSame
  <2>. QED BY <2>1, <2>5, <2>6, PublishedIs
<1>4. CASE ~(Room > 0)
  <2>1. /\ UNCHANGED <<prod_head, prod_tail, cons, slots, head>>
        /\ mbuf' = IF t = "packet" THEN [mbuf EXCEPT ![t] = NULL] ELSE mbuf
        /\ pc' = [pc EXCEPT ![t] = "enqueued"]
    BY <1>4 DEF Claim, Enqueued, Goto
  <2>2. /\ pc'[t] = "enqueued"
        /\ \A u \in Lcores : u # t => pc'[u] = pc[u] /\ mbuf'[u] = mbuf[u]
    BY <2>1 DEF TypeInv, TypeOK
  <2>3. \A u \in Lcores : Waits(u)' = Waits(u) /\ (Waits(u) => mbuf'[u] = mbuf[u])
    BY <1>2, <2>2 DEF Waits
  <2>4. pc'["packet"] = "store" => head'["packet"] = prod_head /\ Held < Capacity
    BY <2>1, <2>2 DEF RingOK, Lcores
  <2>5. RingOK' /\ Ready' = Ready
    BY <2>1, <2>3, <2>4, OtherRing
  <2>. QED BY <2>1, <2>5, PublishedIs
<1>. QED BY <1>3, <1>4

LEMMA StoreHeadStep ==
  ASSUME TypeInv, TypeInv', RingOK, StoreHead
  PROVE  RingOK' /\ Published' = Published
<1>1. Ready \in Nat /\ cons \in Int
  BY RingTypes
<1>2. pc["packet"] = "store" /\ ~Waits("packet") /\ "packet" \in Lcores
  BY DEF StoreHead, Waits, Lcores
<1>3. head["packet"] = prod_head /\ Held < Capacity
  BY <1>2 DEF RingOK
<1>4. /\ UNCHANGED <<prod_tail, cons, mbuf, head>> /\ prod_head' = After(prod_head)
      /\ slots' = [slots EXCEPT ![Slot(prod_head)] = mbuf["packet"]]
      /\ pc' = [pc EXCEPT !["packet"] = "tail"]
  BY <1>3 DEF StoreHead, Goto
<1>5. /\ pc'["packet"] = "tail" /\ head'["packet"] = prod_head
      /\ \A u \in Lcores : u # "packet" => head'[u] = head[u] /\ pc'[u] = pc[u]
  BY <1>3, <1>4 DEF TypeInv, TypeOK, Lcores
<1>6. /\ RingOK' /\ Ready' = Ready
      /\ \A i \in 0 .. Ready - 1 : slots'[Slot(cons + i)] = slots[Slot(cons + i)]
  <2>1. UNCHANGED <<prod_tail, cons, mbuf>>
    BY <1>4
  <2>. QED BY <1>2, <1>3, <1>4, <1>5, <2>1, ClaimRing
<1>7. Window(slots', cons, Ready) = Window(slots, cons, Ready)
  BY <1>1, <1>6, WindowSame
<1>. QED BY <1>4, <1>6, <1>7, PublishedIs

LEMMA PublishStep ==
  ASSUME TypeInv, TypeInv', RingOK, NEW t \in Lcores, ~raced',
         Publish(t) \/ (t = "packet" /\ StoreTail)
  PROVE  /\ RingOK' /\ Published' = Append(Published, mbuf[t]) /\ mbuf[t] \in Mbufs
         /\ Len(Published) < Capacity
<1>1. Ready \in Nat /\ cons \in Int
  BY RingTypes
<1>2. Waits(t) /\ head[t] = prod_tail
  BY DEF Publish, StoreTail, Waits
<1>3. /\ UNCHANGED <<prod_head, cons, slots, head>> /\ prod_tail' = After(prod_tail)
      /\ mbuf' = IF t = "packet" THEN [mbuf EXCEPT ![t] = NULL] ELSE mbuf
      /\ pc' = [pc EXCEPT ![t] = "enqueued"]
  BY <1>2 DEF Publish, StoreTail, Enqueued, Goto
<1>4. /\ pc'[t] = "enqueued"
      /\ \A u \in Lcores : u # t => mbuf'[u] = mbuf[u] /\ pc'[u] = pc[u]
  BY <1>3 DEF TypeInv, TypeOK
<1>5. /\ RingOK' /\ Ready' = Ready + 1 /\ Ready < Capacity
      /\ slots[Slot(cons + Ready)] = mbuf[t] /\ mbuf[t] \in Mbufs
  BY <1>2, <1>3, <1>4, PublishRing
<1>6. ASSUME NEW i \in 0 .. Ready PROVE slots[Slot(cons + i)] \in Mbufs
  <2>1. i = Ready \/ i \in 0 .. Ready - 1
    BY <1>1
  <2>. QED BY <1>5, <2>1 DEF RingOK
<1>7. Window(slots, cons, Ready + 1) = Append(Window(slots, cons, Ready), slots[Slot(cons + Ready)])
  BY <1>1, <1>6, WindowMore
<1>8. Published' = Append(Published, mbuf[t])
  BY <1>3, <1>5, <1>7, PublishedIs
<1>. QED BY <1>5, <1>8, PublishedType

LEMMA TransmitStep ==
  ASSUME TypeInv, TypeInv', RingOK, Transmit
  PROVE  /\ RingOK'
         /\ \E n \in 0 .. Len(Published) :
              /\ n <= BURST_SIZE
              /\ Published' = SubSeq(Published, n + 1, Len(Published))
              /\ tx' = SubSeq(Published, 1, n)
              /\ \E k \in 0 .. n :
                   /\ nic' = nic \o SubSeq(tx', 1, k)
                   /\ shared' = shared \cup ToSet(SubSeq(tx', 1, k))
<1>1. Ready \in Nat /\ cons \in Int /\ cons' \in Int
  <2>1. Ready \in Nat /\ cons \in Int
    BY RingTypes
  <2>2. cons' \in Int
    BY DEF TypeInv, TypeOK
  <2>. QED BY <2>1, <2>2
<1>2. PICK n \in 0 .. Ready : \E burst :
           /\ n <= BURST_SIZE
           /\ burst = [i \in 1 .. n |-> slots[Slot(cons + i - 1)]]
           /\ cons' = (cons + n) % Positions
           /\ \/ /\ burst \in Seq(Mbufs) /\ Len(burst) = n /\ tx' = burst
                 /\ \E k \in 0 .. n :
                      /\ nic' = nic \o SubSeq(burst, 1, k)
                      /\ nic' \in Seq(Mbufs) /\ Len(nic') <= TxSlots
                      /\ shared' = shared \cup ToSet(SubSeq(burst, 1, k))
              \/ /\ NULL \in ToSet(burst) /\ process' = "undefined"
                 /\ UNCHANGED <<tx, nic, shared>>
  BY TransmitFacts
<1> DEFINE burst == Window(slots, cons, n)
<1>3. \A i \in 0 .. Ready - 1 : slots[Slot(cons + i)] \in Mbufs
  BY DEF RingOK
<1>4. /\ UNCHANGED <<prod_head, prod_tail, slots, head, mbuf>>
      /\ pc' = [pc EXCEPT !["main"] = "free"] /\ pc["main"] = "transmit"
  BY DEF Transmit, Goto
<1>5. pc'["packet"] = pc["packet"] /\ ~Waits("main") /\ ~Waits("main")'
  BY <1>4 DEF Waits, TypeInv, TypeOK, Lcores
<1>6. /\ RingOK' /\ Ready' = Ready - n
      /\ \A i \in Nat : Slot(cons' + i) = Slot(cons + (n + i))
  BY <1>2, <1>4, <1>5, ConsumeRing
<1>7. /\ Window(slots, cons, n) = SubSeq(Window(slots, cons, Ready), 1, n)
      /\ Window(slots, cons', Ready - n) = SubSeq(Window(slots, cons, Ready), n + 1, Ready)
  <2> DEFINE c1 == cons'
  <2>1. c1 \in Int /\ Shifted(c1, cons, n)
    BY <1>1, <1>6 DEF Shifted
  <2>. HIDE DEF c1
  <2>2. /\ Window(slots, cons, n) = SubSeq(Window(slots, cons, Ready), 1, n)
        /\ Window(slots, c1, Ready - n) = SubSeq(Window(slots, cons, Ready), n + 1, Ready)
    <3>1. cons \in Int /\ Ready \in Nat
      BY <1>1
    <3>2. Filled(slots, cons, Ready)
      BY <1>3 DEF Filled
    <3>. QED BY <2>1, <3>1, <3>2, WindowSplit
  <2>. QED BY <2>2 DEF c1
<1>8. burst \in Seq(Mbufs)
  <2>1. n \in Nat /\ \A i \in 0 .. n - 1 : slots[Slot(cons + i)] \in Mbufs
    BY <1>1, <1>3
  <2>. QED BY <1>1, <2>1, WindowType
<1>9. NULL \notin ToSet(burst)
  <2>. HIDE DEF burst
  <2>1. \A i \in DOMAIN burst : burst[i] \in Mbufs
    BY <1>8, ElementOfSeq, LenProperties
  <2>. QED BY <2>1, PoolAssumption DEF ToSet
<1>10. Len(Published) = Ready
  BY PublishedType
<1>11. burst = SubSeq(Published, 1, n) /\ Published' = SubSeq(Published, n + 1, Len(Published))
  BY <1>4, <1>6, <1>7, <1>10, PublishedIs
<1>12. burst = [i \in 1 .. n |-> slots[Slot(cons + i - 1)]]
  BY DEF Window
<1>. HIDE DEF burst
<1>13. /\ tx' = burst
       /\ \E k \in 0 .. n : /\ nic' = nic \o SubSeq(burst, 1, k)
                            /\ shared' = shared \cup ToSet(SubSeq(burst, 1, k))
  BY <1>2, <1>9, <1>12, Zenon
<1>. QED BY <1>2, <1>6, <1>10, <1>11, <1>13

\* Steps of a lcore that has claimed nothing, and of nobody.
LEMMA IdleStep ==
  ASSUME TypeInv, TypeInv', RingOK, UNCHANGED <<ringVars, head>>,
         NEW t \in Lcores, ~Waits(t), ~Waits(t)', pc'[t] # "store",
         \A u \in Lcores : u # t => pc'[u] = pc[u] /\ mbuf'[u] = mbuf[u]
  PROVE  RingOK' /\ Published' = Published
<1>1. UNCHANGED <<prod_head, prod_tail, cons, slots, head>>
  BY DEF ringVars
<1>2. ASSUME NEW u \in Lcores
      PROVE  Waits(u)' = Waits(u) /\ (Waits(u) => head'[u] = head[u] /\ mbuf'[u] = mbuf[u])
  <2>1. CASE u = t
    BY <1>1, <2>1 DEF Waits
  <2>2. CASE u # t
    BY <1>1, <2>2 DEF Waits
  <2>. QED BY <2>1, <2>2
<1>3. pc'["packet"] = "store" => head'["packet"] = prod_head /\ Held < Capacity
  BY <1>1 DEF RingOK, Lcores
<1>4. RingOK' /\ Ready' = Ready
  BY <1>1, <1>2, <1>3, OtherRing
<1>. QED BY <1>1, <1>4, PublishedIs

LEMMA NobodyStep ==
  ASSUME TypeInv, TypeInv', RingOK, UNCHANGED <<ringVars, head, pc, mbuf>>
  PROVE  RingOK' /\ Published' = Published
<1>1. UNCHANGED <<prod_head, prod_tail, cons, slots, head>>
  BY DEF ringVars
<1>2. \A u \in Lcores : Waits(u)' = Waits(u)
  BY DEF Waits
<1>3. RingOK' /\ Ready' = Ready
  BY <1>1, <1>2, OtherRing DEF RingOK
<1>. QED BY <1>1, <1>3, PublishedIs

LEMMA LoadHeadStep ==
  ASSUME TypeInv, TypeInv', RingOK, LoadHead
  PROVE  RingOK' /\ Published' = Published
<1>1. Held <= Capacity /\ Room = Capacity - Held
  BY Distances DEF RingOK
<1>2. Held \in Nat /\ Capacity \in Nat
  BY RingTypes, Sizes
<1>3. /\ pc["packet"] = "load" /\ UNCHANGED <<prod_head, prod_tail, cons, slots>>
      /\ head' = [head EXCEPT !["packet"] = prod_head]
      /\ pc' = [pc EXCEPT !["packet"] = "store"] \/ pc' = [pc EXCEPT !["packet"] = "enqueued"]
      /\ mbuf' = mbuf \/ mbuf' = [mbuf EXCEPT !["packet"] = NULL]
      /\ pc' = [pc EXCEPT !["packet"] = "store"] => Room > 0
  <2>1. CASE Room > 0
    BY <2>1 DEF LoadHead, Goto, ringVars
  <2>2. CASE ~(Room > 0)
    <3>1. pc' = [pc EXCEPT !["packet"] = "enqueued"]
      BY <2>2 DEF LoadHead, Enqueued, Goto
    <3>2. pc'["packet"] = "enqueued" /\ pc' # [pc EXCEPT !["packet"] = "store"]
      BY <3>1 DEF TypeInv, TypeOK, Lcores
    <3>. QED BY <2>2, <3>1, <3>2 DEF LoadHead, Enqueued, Goto, ringVars
  <2>. QED BY <2>1, <2>2
<1>4. /\ head'["packet"] = prod_head /\ ~Waits("packet") /\ ~Waits("packet")'
      /\ \A u \in Lcores : u # "packet" =>
           pc'[u] = pc[u] /\ mbuf'[u] = mbuf[u] /\ head'[u] = head[u]
  BY <1>3 DEF Waits, TypeInv, TypeOK, Lcores
<1>5. pc'["packet"] = "store" => head'["packet"] = prod_head /\ Held < Capacity
  <2>1. pc'["packet"] = "store" => pc' = [pc EXCEPT !["packet"] = "store"]
    BY <1>3 DEF TypeInv, TypeOK, Lcores
  <2>. QED BY <1>1, <1>2, <1>3, <1>4, <2>1
<1>6. ASSUME NEW u \in Lcores
      PROVE  Waits(u)' = Waits(u) /\ (Waits(u) => head'[u] = head[u] /\ mbuf'[u] = mbuf[u])
  BY <1>4 DEF Waits
<1>7. RingOK' /\ Ready' = Ready
  BY <1>3, <1>5, <1>6, OtherRing
<1>. QED BY <1>3, <1>7, PublishedIs

\* All other steps.
LEMMA OtherStep ==
  ASSUME TypeInv, TypeInv', RingOK,
         \/ Receive \/ FreeSent \/ TimerDue \/ NextRequest \/ FreeRequest
         \/ NextBurst \/ Reply \/ Answered \/ FreeReceived \/ Rarp
         \/ SweepFrame("arp", "claim") \/ SweepFrame("udp", "load")
         \/ LoadHead \/ NicSent \/ Exit \/ UNCHANGED vars
  PROVE  RingOK' /\ Published' = Published
<1>1. pc \in [Lcores -> Labels] /\ mbuf \in [Lcores -> Mbufs \cup {NULL}]
  BY DEF TypeInv, TypeOK
<1>2. CASE Receive \/ FreeSent \/ TimerDue \/ NextRequest \/ FreeRequest
  <2>1. /\ UNCHANGED <<ringVars, head>>
        /\ pc["main"] \in {"receive", "free", "request", "enqueued"}
        /\ pc' = pc \/ \E l \in {"transmit", "claim", "request", "receive"} :
             pc' = [pc EXCEPT !["main"] = l]
        /\ mbuf' = mbuf \/ \E m : mbuf' = [mbuf EXCEPT !["main"] = m]
    <3>1. CASE Receive
      BY <3>1 DEF Receive, Goto
    <3>2. CASE FreeSent
      BY <3>2 DEF FreeSent
    <3>3. CASE TimerDue
      BY <3>3 DEF TimerDue, Alloc, Goto
    <3>4. CASE NextRequest
      BY <3>4 DEF NextRequest, Alloc, Goto
    <3>5. CASE FreeRequest
      BY <3>5 DEF FreeRequest, Goto
    <3>. QED BY <1>2, <3>1, <3>2, <3>3, <3>4, <3>5
  <2>2. /\ "main" \in Lcores /\ ~Waits("main") /\ ~Waits("main")' /\ pc'["main"] # "store"
        /\ \A u \in Lcores : u # "main" => pc'[u] = pc[u] /\ mbuf'[u] = mbuf[u]
    BY <1>1, <2>1 DEF Waits, Lcores
  <2>. QED BY <2>1, <2>2, IdleStep
<1>3. CASE \/ NextBurst \/ Reply \/ Answered \/ FreeReceived \/ Rarp
           \/ SweepFrame("arp", "claim") \/ SweepFrame("udp", "load")
  <2>1. /\ UNCHANGED <<ringVars, head>>
        /\ pc["packet"] \in {"deal", "enqueued"}
        /\ pc' = pc \/ \E l \in {"claim", "deal", "load"} : pc' = [pc EXCEPT !["packet"] = l]
        /\ mbuf' = mbuf \/ \E m : mbuf' = [mbuf EXCEPT !["packet"] = m]
    <3>1. CASE NextBurst
      BY <3>1 DEF NextBurst
    <3>2. CASE Reply
      BY <3>2 DEF Reply, Alloc, Goto
    <3>3. CASE Answered
      BY <3>3 DEF Answered, Goto
    <3>4. CASE FreeReceived \/ Rarp
      BY <3>4 DEF FreeReceived, Rarp
    <3>5. CASE SweepFrame("arp", "claim")
      BY <3>5 DEF SweepFrame, Alloc, Goto
    <3>6. CASE SweepFrame("udp", "load")
      BY <3>6 DEF SweepFrame, Alloc, Goto
    <3>. QED BY <1>3, <3>1, <3>2, <3>3, <3>4, <3>5, <3>6
  <2>2. /\ "packet" \in Lcores /\ ~Waits("packet") /\ ~Waits("packet")'
        /\ pc'["packet"] # "store"
        /\ \A u \in Lcores : u # "packet" => pc'[u] = pc[u] /\ mbuf'[u] = mbuf[u]
    BY <1>1, <2>1 DEF Waits, Lcores
  <2>. QED BY <2>1, <2>2, IdleStep
<1>4. CASE NicSent \/ Exit \/ UNCHANGED vars
  <2>1. UNCHANGED <<ringVars, head, pc, mbuf>>
    BY <1>4 DEF NicSent, Exit, vars, lcoreVars
  <2>. QED BY <2>1, NobodyStep
<1>. QED BY <1>2, <1>3, <1>4, LoadHeadStep

\* raced is never taken back.
LEMMA RacedStays ==
  ASSUME TypeInv, [Next]_vars, ~raced'
  PROVE  ~raced
<1>1. raced \in BOOLEAN
  BY DEF TypeInv, TypeOK
<1>2. raced' = raced \/ (\E t \in Lcores : Claim(t)) \/ StoreTail
  BY DEF Next, Main, Packet, Receive, Transmit, FreeSent, TimerDue, NextRequest, Publish,
         FreeRequest, NextBurst, Reply, Answered, FreeReceived, Rarp, SweepFrame, LoadHead,
         StoreHead, NicSent, Exit, vars, Lcores
<1>3. ASSUME NEW t \in Lcores, Claim(t) PROVE ~raced
  BY <1>3 DEF Claim
<1>4. CASE StoreTail
  BY <1>4 DEF StoreTail
<1>. QED BY <1>2, <1>3, <1>4

\* What a step does to the ring until a race: nothing, or a lcore publishes
\* its buffer, or the main lcore takes the first of those published.
Publishes(t) == Publish(t) \/ (t = "packet" /\ StoreTail)

LEMMA RingStep ==
  ASSUME TypeInv, TypeInv', RingOK, [Next]_vars, ~raced'
  PROVE  /\ RingOK'
         /\ \/ Published' = Published
            \/ \E t \in Lcores : Publishes(t)
            \/ Transmit
<1>1. \/ \E t \in Lcores : Claim(t) \/ Publishes(t)
      \/ StoreHead \/ Transmit
      \/ Receive \/ FreeSent \/ TimerDue \/ NextRequest \/ FreeRequest
      \/ NextBurst \/ Reply \/ Answered \/ FreeReceived \/ Rarp
      \/ SweepFrame("arp", "claim") \/ SweepFrame("udp", "load")
      \/ LoadHead \/ NicSent \/ Exit \/ UNCHANGED vars
  BY Zenon DEF Next, Main, Packet, Publishes, Lcores
<1>2. ASSUME NEW t \in Lcores, Claim(t) PROVE RingOK' /\ Published' = Published
  BY <1>2, ClaimStep
<1>3. ASSUME NEW t \in Lcores, Publishes(t) PROVE RingOK'
  BY <1>3, PublishStep DEF Publishes
<1>. QED BY <1>1, <1>2, <1>3, StoreHeadStep, TransmitStep, OtherStep, Zenon

LEMMA RingInvHolds == SafeSpec => []RingInv
<1>1. Init => RingInv
  <2> SUFFICES ASSUME Init PROVE RingOK
    BY DEF RingInv
  <2>1. \A t \in Lcores : ~Waits(t)
    BY DEF Init, Waits, Lcores
  <2>2. ASSUME NEW n \in Nat \ {0} PROVE (0 - 0) % n = 0
    OBVIOUS
  <2>3. Held = 0 /\ Ready = 0
    BY <2>2, Sizes DEF Init, Held, Ready
  <2>4. 0 <= Capacity /\ pc["packet"] # "store"
    BY Sizes DEF Init
  <2>. QED BY <2>1, <2>3, <2>4 DEF RingOK, Claimed, Lcores
<1>2. TypeInv /\ TypeInv' /\ RingInv /\ [Next]_vars => RingInv'
  BY RacedStays, RingStep DEF RingInv
<1>. QED BY <1>1, <1>2, TypeInvHolds, PTL DEF SafeSpec

\* The two producers of ring->out never wait for each other: while one waits
\* for the tail to reach its position, one of them may move it on.
THEOREM NeverBothWait == SafeSpec => []SomeonePublishes
<1>1. TypeInv /\ RingInv => SomeonePublishes
  <2> SUFFICES ASSUME TypeInv, RingInv, ~raced, NEW t \in Lcores, pc[t] = "publish"
               PROVE  \E u \in Lcores : pc[u] \in {"publish", "tail"} /\ prod_tail = head[u]
    BY DEF SomeonePublishes
  <2>1. Claimed /\ Waits(t)
    BY DEF RingInv, RingOK, Waits
  <2>2. PICK u \in Lcores : u # t /\ \A v \in Lcores : v = t \/ v = u
    BY DEF Lcores
  <2>3. CASE ~Waits(u)
    BY <2>1, <2>2, <2>3 DEF Claimed
  <2>4. CASE Waits(u)
    <3>1. Waits("main") /\ Waits("packet")
      BY <2>1, <2>2, <2>4 DEF Lcores
    <3>2. PICK v \in Lcores : head[v] = prod_tail
      BY <2>1, <3>1 DEF Claimed
    <3>3. pc[v] \in {"publish", "tail"}
      BY <2>1, <2>2, <2>4, <3>2 DEF Waits
    <3>. QED BY <3>2, <3>3
  <2>5. pc[t] \in {"publish", "tail"}
    BY <2>1 DEF Waits
  <2>. QED BY <2>1, <2>2, <2>3, <2>4, <2>5
<1>. QED BY <1>1, TypeInvHolds, RingInvHolds, PTL

-----------------------------------------------------------------------------
(***************************************************************************)
(* The ring is a queue.                                                    *)
(***************************************************************************)
\* One step of a run without a race is one of the queue, or none.
LEMMA QueueStep ==
  ASSUME TypeInv, TypeInv', RingOK, [Next]_vars, ~raced', ~raced
  PROVE  Published' = Published \/ Queue!Put \/ Queue!Take
<1>1. CASE \E t \in Lcores : Publishes(t)
  <2>1. PICK t \in Lcores : Publishes(t)
    BY <1>1
  <2>2. /\ Published' = Append(Published, mbuf[t]) /\ mbuf[t] \in Mbufs
        /\ Len(Published) < Capacity
    BY <2>1, PublishStep DEF Publishes
  <2>. QED BY <2>2 DEF Queue!Put
<1>2. CASE Transmit
  <2>1. PICK n \in 0 .. Len(Published) :
          /\ n <= BURST_SIZE
          /\ Published' = SubSeq(Published, n + 1, Len(Published))
    BY <1>2, TransmitStep
  <2>2. Published \in Seq(Mbufs) /\ BURST_SIZE \in Nat /\ Len(Published) \in Nat
    BY PublishedType, SizesAssumption
  <2>3. CASE n = 0
    <3>1. SubSeq(Published, 1, Len(Published)) = Published
      BY <2>2
    <3>. QED BY <2>1, <2>3, <3>1
  <2>4. CASE n # 0
    <3>1. n \in 1 .. BURST_SIZE /\ n <= Len(Published)
      BY <2>1, <2>2, <2>4
    <3>. QED BY <2>1, <3>1 DEF Queue!Take
  <2>. QED BY <2>3, <2>4
<1>. QED BY <1>1, <1>2, RingStep

\* The stages of the enqueues on ring->out, interleaved in any order, are those
\* of a bounded queue from which nothing is lost and in which nothing changes
\* places, until an enqueue of hz_process_out_udp undoes one of the timer's.
THEOREM RingIsQueue == SafeSpec => ImplementsQueue
<1>1. Init => Queue!Init
  <2> SUFFICES ASSUME Init PROVE Published = <<>> /\ ~raced
    BY DEF Queue!Init
  <2>1. ASSUME NEW n \in Nat \ {0} PROVE (0 - 0) % n = 0
    OBVIOUS
  <2>2. Ready = 0
    BY <2>1, Sizes DEF Init, Ready
  <2>3. Published = <<>>
    BY <2>2 DEF Published
  <2>. QED BY <2>3 DEF Init
<1>2. TypeInv /\ TypeInv' /\ RingInv /\ [Next]_vars => [Queue!Next]_<<Published, raced>>
  <2> SUFFICES ASSUME TypeInv, TypeInv', RingInv, [Next]_vars
               PROVE  Queue!Next \/ UNCHANGED <<Published, raced>>
    OBVIOUS
  <2>1. raced' \in BOOLEAN /\ raced \in BOOLEAN
    BY DEF TypeInv, TypeOK
  <2>2. CASE raced'
    BY <2>1, <2>2 DEF Queue!Next, Queue!Misuse
  <2>3. CASE ~raced'
    <3>1. ~raced /\ RingOK
      BY <2>3, RacedStays DEF RingInv
    <3>2. Published' = Published \/ Queue!Put \/ Queue!Take
      BY <2>3, <3>1, QueueStep
    <3>3. raced' = raced
      BY <2>1, <2>3, <3>1
    <3>. QED BY <3>1, <3>2, <3>3 DEF Queue!Next
  <2>. QED BY <2>1, <2>2, <2>3
<1>. QED BY <1>1, <1>2, TypeInvHolds, RingInvHolds, PTL
     DEF SafeSpec, ImplementsQueue, Queue!SafeSpec

-----------------------------------------------------------------------------
(***************************************************************************)
(* Where a buffer is.                                                      *)
(***************************************************************************)
LEMMA InHands ==
  ASSUME NEW f, NEW m
  PROVE  Cardinality({t \in Lcores : f[t] = m}) = Is(f["main"], m) + Is(f["packet"], m)
<1>1. CASE f["main"] = m /\ f["packet"] = m
  <2>1. {t \in Lcores : f[t] = m} = {"main", "packet"}
    BY <1>1 DEF Lcores
  <2>2. Cardinality({"main", "packet"}) = 2
    <3>1. IsFiniteSet({"main"}) /\ Cardinality({"main"}) = 1
      BY FS_Singleton
    <3>2. "packet" \notin {"main"} /\ {"main", "packet"} = {"main"} \cup {"packet"}
      OBVIOUS
    <3>3. Cardinality({"main"} \cup {"packet"}) = Cardinality({"main"}) + 1
      BY <3>1, <3>2, FS_AddElement
    <3>. QED BY <3>1, <3>2, <3>3
  <2>. QED BY <1>1, <2>1, <2>2 DEF Is
<1>2. CASE f["main"] = m /\ f["packet"] # m
  <2>1. {t \in Lcores : f[t] = m} = {"main"}
    BY <1>2 DEF Lcores
  <2>. QED BY <1>2, <2>1, FS_Singleton DEF Is
<1>3. CASE f["main"] # m /\ f["packet"] = m
  <2>1. {t \in Lcores : f[t] = m} = {"packet"}
    BY <1>3 DEF Lcores
  <2>. QED BY <1>3, <2>1, FS_Singleton DEF Is
<1>4. CASE f["main"] # m /\ f["packet"] # m
  <2>1. {t \in Lcores : f[t] = m} = {}
    BY <1>4 DEF Lcores
  <2>. QED BY <1>4, <2>1, FS_EmptySet DEF Is
<1>. QED BY <1>1, <1>2, <1>3, <1>4

\* The numbers that Holders adds up.
Adds(m, a, b, c, d, e, f, g, h) ==
  /\ a = pool[m] /\ b = Count(in, m) /\ c = Count(Published, m)
  /\ d = Count(nic, m) /\ e = Count(tx, m) /\ f = Count(rx, m)
  /\ g = Is(mbuf["main"], m) /\ h = Is(mbuf["packet"], m)
  /\ Holders(m) = a + b + c + d + e + f + (g + h)

LEMMA HoldersAre ==
  ASSUME TypeInv, RingOK, NEW m \in Mbufs
  PROVE  \E a, b, c, d, e, f, g, h \in Nat : Adds(m, a, b, c, d, e, f, g, h)
<1>1. /\ in \in Seq(Mbufs) /\ nic \in Seq(Mbufs) /\ tx \in Seq(Mbufs) /\ rx \in Seq(Mbufs)
      /\ Published \in Seq(Mbufs)
  BY PublishedType DEF TypeInv, TypeOK
<1>2. pool[m] \in Nat
  BY PoolAssumption DEF TypeInv, TypeOK
<1>3. /\ Count(in, m) \in Nat /\ Count(Published, m) \in Nat
      /\ Count(nic, m) \in Nat /\ Count(tx, m) \in Nat /\ Count(rx, m) \in Nat
  BY <1>1, CountNat
<1>4. Is(mbuf["main"], m) \in Nat /\ Is(mbuf["packet"], m) \in Nat
  BY IsType
<1>5. Adds(m, pool[m], Count(in, m), Count(Published, m), Count(nic, m), Count(tx, m),
           Count(rx, m), Is(mbuf["main"], m), Is(mbuf["packet"], m))
  BY InHands DEF Holders, Adds
<1>. QED BY <1>2, <1>3, <1>4, <1>5, Zenon

LEMMA HoldersWillBe ==
  ASSUME TypeInv', RingOK', NEW m \in Mbufs
  PROVE  \E a, b, c, d, e, f, g, h \in Nat : Adds(m, a, b, c, d, e, f, g, h)'
<1>1. /\ in' \in Seq(Mbufs) /\ nic' \in Seq(Mbufs) /\ tx' \in Seq(Mbufs) /\ rx' \in Seq(Mbufs)
  BY DEF TypeInv, TypeOK
<1>2. Published' \in Seq(Mbufs)
  <2>1. \A i \in 0 .. Ready' - 1 : slots'[Slot(cons' + i)] \in Mbufs
    BY DEF RingOK
  <2>2. Ready' \in Nat /\ cons' \in Int
    <3>1. ASSUME NEW n \in Nat \ {0}, NEW i \in Int PROVE i % n \in Nat
      OBVIOUS
    <3>2. cons' \in Int /\ prod_tail' - cons' \in Int
      BY DEF TypeInv, TypeOK
    <3>. QED BY <3>1, <3>2, Sizes DEF Ready
  <2>. QED BY <2>1, <2>2, WindowType, PublishedIs
<1>3. pool'[m] \in Nat
  BY PoolAssumption DEF TypeInv, TypeOK
<1>4. /\ Count(in', m) \in Nat /\ Count(Published', m) \in Nat
      /\ Count(nic', m) \in Nat /\ Count(tx', m) \in Nat /\ Count(rx', m) \in Nat
  BY <1>1, <1>2, CountNat
<1>5. Is(mbuf'["main"], m) \in Nat /\ Is(mbuf'["packet"], m) \in Nat
  BY IsType
<1>6. PICK a, b, c, d, e, f, g, h \in Nat :
        /\ a = pool'[m] /\ b = Count(in', m) /\ c = Count(Published', m)
        /\ d = Count(nic', m) /\ e = Count(tx', m) /\ f = Count(rx', m)
        /\ g = Is(mbuf'["main"], m) /\ h = Is(mbuf'["packet"], m)
  BY <1>3, <1>4, <1>5, Zenon
<1>7. Adds(m, a, b, c, d, e, f, g, h)'
  BY <1>6, InHands DEF Holders, Adds
<1>. QED BY <1>7

LEMMA FreeMoves ==
  ASSUME TypeInv, NEW k \in Mbufs, Free(k), NEW m \in Mbufs
  PROVE  /\ pool'[m] <= pool[m] + Is(k, m)
         /\ pool'[m] = pool[m] + Is(k, m) \/ InPool = PoolSlots
<1>1. pool[m] \in Nat
  BY PoolAssumption DEF TypeInv, TypeOK
<1>2. /\ m # k => pool'[m] = pool[m]
      /\ pool'[k] = pool[k] + 1 \/ (pool'[k] = pool[k] /\ InPool = PoolSlots)
  <2>1. k \in Mbufs /\ Free(k)
    OBVIOUS
  <2>2. pool'[k] = pool[k] + 1 \/ (pool'[k] = pool[k] /\ InPool = PoolSlots)
    BY <2>1, FreeFacts
  <2>3. \A j \in Mbufs : j # k => pool'[j] = pool[j]
    BY <2>1, FreeFacts
  <2>. QED BY <2>2, <2>3
<1>. QED BY <1>1, <1>2 DEF Is

LEMMA AllocMoves ==
  ASSUME TypeInv, NEW t \in Lcores, Alloc(t), NEW m \in Mbufs
  PROVE  /\ pool'[m] = pool[m] - Is(mbuf'[t], m)
         /\ \A u \in Lcores : u # t => mbuf'[u] = mbuf[u]
<1>1. pool[m] \in Nat /\ mbuf \in [Lcores -> Mbufs \cup {NULL}]
  BY PoolAssumption DEF TypeInv, TypeOK
<1>2. PICK k \in Mbufs : /\ mbuf' = [mbuf EXCEPT ![t] = k]
                         /\ pool'[k] = pool[k] - 1
                         /\ \A j \in Mbufs : j # k => pool'[j] = pool[j]
  BY AllocFacts
<1>3. mbuf'[t] = k /\ \A u \in Lcores : u # t => mbuf'[u] = mbuf[u]
  BY <1>1, <1>2
<1>4. pool'[m] = pool[m] - Is(k, m)
  BY <1>1, <1>2 DEF Is
<1>. QED BY <1>3, <1>4

LEMMA NullIsNone == \A m \in Mbufs : Is(NULL, m) = 0
BY PoolAssumption DEF Is

\* Where KnownLeaks expects a buffer to be lost.
Leak(m) ==
  \/ Rarp /\ m = Head(rx)
  \/ pc["packet"] \in {"claim", "load"} /\ Room = 0
  \/ pc["main"] \in {"receive", "free"} /\ Len(in') = Capacity
  \/ InPool = PoolSlots

\* A step adds no holder to a buffer that is not shared, and takes none away
\* from any other than those leaked.
Steady(m) ==
  /\ m \notin shared' => Holders(m)' <= Holders(m)
  /\ Holders(m)' >= Holders(m) \/ Leak(m)

\* The burst of the main lcore has been freed when it leaves its loop.
Sent == pc["main"] # "free" => tx = <<>>

\* The enqueues.
LEMMA EnqueueSteady ==
  ASSUME TypeInv, RingOK, TypeInv', RingOK', ~raced', NEW t \in Lcores,
         \/ (Claim(t) \/ (t = "packet" /\ (StoreHead \/ LoadHead))) /\ Published' = Published
         \/ Publishes(t),
         NEW m \in Mbufs
  PROVE  Steady(m)
<1>1. PICK a, b, c, d, e, f, g, h \in Nat : Adds(m, a, b, c, d, e, f, g, h)
  BY HoldersAre
<1>2. PICK a1, b1, c1, d1, e1, f1, g1, h1 \in Nat : Adds(m, a1, b1, c1, d1, e1, f1, g1, h1)'
  BY HoldersWillBe
<1>3. a1 = a /\ b1 = b /\ d1 = d /\ e1 = e /\ f1 = f
  <2>1. UNCHANGED <<pool, in, nic, tx, rx>>
    BY DEF Claim, StoreHead, LoadHead, Publishes, Publish, StoreTail
  <2>. QED BY <1>1, <1>2, <2>1 DEF Adds
<1>4. Holders(m) = a + b + c + d + e + f + (g + h)
  BY <1>1 DEF Adds
<1>5. Holders(m)' = a1 + b1 + c1 + d1 + e1 + f1 + (g1 + h1)
  BY <1>2 DEF Adds
<1>6. mbuf \in [Lcores -> Mbufs \cup {NULL}] /\ "main" \in Lcores /\ "packet" \in Lcores
  BY DEF TypeInv, TypeOK, Lcores
<1>7. /\ mbuf' = mbuf => g1 = g /\ h1 = h
      /\ mbuf' = [mbuf EXCEPT !["packet"] = NULL] => g1 = g /\ h1 = 0
  <2>1. ASSUME mbuf' = mbuf PROVE g1 = g /\ h1 = h
    BY <1>1, <1>2, <2>1 DEF Adds
  <2>2. ASSUME mbuf' = [mbuf EXCEPT !["packet"] = NULL] PROVE g1 = g /\ h1 = 0
    <3>1. mbuf'["main"] = mbuf["main"] /\ mbuf'["packet"] = NULL
      BY <1>6, <2>2
    <3>. QED BY <1>1, <1>2, <3>1, NullIsNone DEF Adds
  <2>. QED BY <2>1, <2>2
<1>8. CASE /\ Claim(t) \/ (t = "packet" /\ (StoreHead \/ LoadHead))
           /\ Published' = Published
  <2>1. \/ mbuf' = mbuf
        \/ /\ mbuf' = [mbuf EXCEPT !["packet"] = NULL]
           /\ pc["packet"] \in {"claim", "load"} /\ Room = 0
    BY <1>8 DEF Claim, StoreHead, LoadHead, Enqueued
  <2>2. c1 = c
    BY <1>1, <1>2, <1>8 DEF Adds
  <2>3. CASE mbuf' = mbuf
    BY <1>3, <1>4, <1>5, <1>7, <2>2, <2>3 DEF Steady
  <2>4. CASE /\ mbuf' = [mbuf EXCEPT !["packet"] = NULL]
             /\ pc["packet"] \in {"claim", "load"} /\ Room = 0
    <3>1. Leak(m)
      BY <2>4 DEF Leak
    <3>. QED BY <1>3, <1>4, <1>5, <1>7, <2>2, <2>4, <3>1 DEF Steady
  <2>. QED BY <2>1, <2>3, <2>4
<1>9. CASE Publishes(t)
  <2>1. Published' = Append(Published, mbuf[t]) /\ mbuf[t] \in Mbufs /\ Published \in Seq(Mbufs)
    BY <1>9, PublishStep, PublishedType DEF Publishes
  <2>2. Count(Published', m) = Count(Published, m) + Is(mbuf[t], m)
    BY <2>1, CountAppend
  <2>3. CASE t = "main"
    <3>1. mbuf' = mbuf /\ mbuf["main"] \in shared'
      BY <1>9, <2>3 DEF Publishes, Publish, Enqueued
    <3>2. c1 = c + g /\ (m \notin shared' => g = 0)
      BY <1>1, <1>2, <2>2, <2>3, <3>1 DEF Adds, Is
    <3>. QED BY <1>3, <1>4, <1>5, <1>7, <3>1, <3>2 DEF Steady
  <2>4. CASE t = "packet"
    <3>1. mbuf' = [mbuf EXCEPT !["packet"] = NULL]
      BY <1>9, <2>4 DEF Publishes, Publish, StoreTail, Enqueued
    <3>2. c1 = c + h
      BY <1>1, <1>2, <2>2, <2>4 DEF Adds
    <3>. QED BY <1>3, <1>4, <1>5, <1>7, <3>1, <3>2 DEF Steady
  <2>. QED BY <2>3, <2>4 DEF Lcores
<1>. QED BY <1>8, <1>9

\* A lcore takes a buffer from the pool.
LEMMA AllocSteady ==
  ASSUME TypeInv, RingOK, TypeInv', RingOK', Published' = Published,
         NEW t \in Lcores, Alloc(t), mbuf[t] = NULL, UNCHANGED <<in, nic, tx, rx>>,
         NEW m \in Mbufs
  PROVE  Steady(m)
<1>1. PICK a, b, c, d, e, f, g, h \in Nat : Adds(m, a, b, c, d, e, f, g, h)
  BY HoldersAre
<1>2. PICK a1, b1, c1, d1, e1, f1, g1, h1 \in Nat : Adds(m, a1, b1, c1, d1, e1, f1, g1, h1)'
  BY HoldersWillBe
<1>3. b1 = b /\ c1 = c /\ d1 = d /\ e1 = e /\ f1 = f
  BY <1>1, <1>2 DEF Adds
<1>4. Holders(m) = a + b + c + d + e + f + (g + h)
  BY <1>1 DEF Adds
<1>5. Holders(m)' = a1 + b1 + c1 + d1 + e1 + f1 + (g1 + h1)
  BY <1>2 DEF Adds
<1>6. /\ pool'[m] = pool[m] - Is(mbuf'[t], m)
      /\ \A u \in Lcores : u # t => mbuf'[u] = mbuf[u]
  BY AllocMoves
<1>7. CASE t = "main"
  <2>1. mbuf'["packet"] = mbuf["packet"] /\ mbuf["main"] = NULL
    BY <1>6, <1>7 DEF Lcores
  <2>2. h1 = h /\ g = 0 /\ a1 = a - g1
    BY <1>1, <1>2, <1>6, <1>7, <2>1, NullIsNone DEF Adds
  <2>. QED BY <1>3, <1>4, <1>5, <2>2 DEF Steady
<1>8. CASE t = "packet"
  <2>1. mbuf'["main"] = mbuf["main"] /\ mbuf["packet"] = NULL
    BY <1>6, <1>8 DEF Lcores
  <2>2. g1 = g /\ h = 0 /\ a1 = a - h1
    BY <1>1, <1>2, <1>6, <1>8, <2>1, NullIsNone DEF Adds
  <2>. QED BY <1>3, <1>4, <1>5, <2>2 DEF Steady
<1>. QED BY <1>7, <1>8 DEF Lcores

\* Frames out of the pool and into ring->in.
LEMMA ReceiveSteady ==
  ASSUME TypeInv, RingOK, TypeInv', RingOK', Published' = Published, Receive, NEW m \in Mbufs
  PROVE  Steady(m)
<1>1. PICK a, b, c, d, e, f, g, h \in Nat : Adds(m, a, b, c, d, e, f, g, h)
  BY HoldersAre
<1>2. PICK a1, b1, c1, d1, e1, f1, g1, h1 \in Nat : Adds(m, a1, b1, c1, d1, e1, f1, g1, h1)'
  BY HoldersWillBe
<1>3. PICK burst \in Seq(Mbufs) : \E k \in 0 .. Len(burst) :
              /\ \A i \in Mbufs : pool'[i] = pool[i] - Count(burst, i)
              /\ in' = in \o SubSeq(burst, 1, k)
              /\ in' \in Seq(Mbufs) /\ Len(in') <= Capacity
              /\ k = Len(burst) \/ Len(in') = Capacity
  BY ReceiveFacts
<1>4. PICK k \in 0 .. Len(burst) :
              /\ \A i \in Mbufs : pool'[i] = pool[i] - Count(burst, i)
              /\ in' = in \o SubSeq(burst, 1, k)
              /\ in' \in Seq(Mbufs) /\ Len(in') <= Capacity
              /\ k = Len(burst) \/ Len(in') = Capacity
  BY <1>3
<1> DEFINE front == SubSeq(burst, 1, k)
           back == SubSeq(burst, k + 1, Len(burst))
<1>5. /\ front \in Seq(Mbufs) /\ back \in Seq(Mbufs) /\ Len(back) = Len(burst) - k
      /\ Count(burst, m) = Count(front, m) + Count(back, m) /\ in \in Seq(Mbufs)
  <2>1. front \in Seq(Mbufs) /\ back \in Seq(Mbufs) /\ Len(back) = Len(burst) - k
    BY Split
  <2>2. Count(burst, m) = Count(front, m) + Count(back, m)
    BY CountSplit
  <2>3. in \in Seq(Mbufs)
    BY DEF TypeInv, TypeOK
  <2>. QED BY <2>1, <2>2, <2>3
<1>6. UNCHANGED <<nic, tx, rx, mbuf>> /\ pc["main"] \in {"receive", "free"}
  BY DEF Receive
<1>7. k = Len(burst) => Count(back, m) = 0
  <2>1. ASSUME k = Len(burst) PROVE back = <<>>
    <3>1. Len(back) = 0
      BY <1>5, <2>1, LenProperties
    <3>. HIDE DEF back
    <3>. QED BY <1>5, <3>1, EmptySeq
  <2>. QED BY <2>1, CountEmpty
<1>8. in' = in \o front /\ pool'[m] = pool[m] - Count(burst, m)
  BY <1>4
<1>. HIDE DEF front, back
<1>9. Count(in', m) = Count(in, m) + Count(front, m)
  BY <1>5, <1>8, CountConcat
<1>10. PICK x, y \in Nat : x = Count(front, m) /\ y = Count(back, m)
  BY <1>5, CountNat
<1>11. a1 = a - (x + y) /\ b1 = b + x
  BY <1>1, <1>2, <1>5, <1>8, <1>9, <1>10 DEF Adds
<1>12. c1 = c /\ d1 = d /\ e1 = e /\ f1 = f /\ g1 = g /\ h1 = h
  BY <1>1, <1>2, <1>6 DEF Adds
<1>13. Holders(m) = a + b + c + d + e + f + (g + h)
  BY <1>1 DEF Adds
<1>14. Holders(m)' = a1 + b1 + c1 + d1 + e1 + f1 + (g1 + h1)
  BY <1>2 DEF Adds
<1>15. k # Len(burst) => Leak(m)
  BY <1>4, <1>6 DEF Leak
<1>16. Holders(m)' + y = Holders(m) /\ Holders(m)' \in Nat
  <2>1. /\ (a1 + b1 + c1 + d1 + e1 + f1 + (g1 + h1)) + y = a + b + c + d + e + f + (g + h)
        /\ a1 + b1 + c1 + d1 + e1 + f1 + (g1 + h1) \in Nat
    BY <1>11, <1>12
  <2>. QED BY <1>13, <1>14, <2>1
<1>17. k = Len(burst) => y = 0
  BY <1>7, <1>10
<1>18. Holders(m)' <= Holders(m) /\ (y = 0 => Holders(m)' >= Holders(m))
  BY <1>16
<1>. QED BY <1>15, <1>17, <1>18 DEF Steady

\* Frames off ring->out to the NIC and into the burst to be freed.
LEMMA TransmitSteady ==
  ASSUME TypeInv, RingOK, TypeInv', RingOK', Sent, Transmit, NEW m \in Mbufs
  PROVE  Steady(m)
<1>1. PICK a, b, c, d, e, f, g, h \in Nat : Adds(m, a, b, c, d, e, f, g, h)
  BY HoldersAre
<1>2. PICK a1, b1, c1, d1, e1, f1, g1, h1 \in Nat : Adds(m, a1, b1, c1, d1, e1, f1, g1, h1)'
  BY HoldersWillBe
<1>3. PICK n \in 0 .. Len(Published) :
              /\ n <= BURST_SIZE
              /\ Published' = SubSeq(Published, n + 1, Len(Published))
              /\ tx' = SubSeq(Published, 1, n)
              /\ \E k \in 0 .. n :
                   /\ nic' = nic \o SubSeq(tx', 1, k)
                   /\ shared' = shared \cup ToSet(SubSeq(tx', 1, k))
  BY TransmitStep
<1>4. PICK k \in 0 .. n : /\ nic' = nic \o SubSeq(tx', 1, k)
                          /\ shared' = shared \cup ToSet(SubSeq(tx', 1, k))
  BY <1>3
<1> DEFINE taken == SubSeq(tx', 1, k)
<1>5. Published \in Seq(Mbufs) /\ nic \in Seq(Mbufs)
  BY PublishedType DEF TypeInv, TypeOK
<1>6. Count(Published, m) = Count(tx', m) + Count(Published', m)
  <2>1. Count(Published, m) = Count(SubSeq(Published, 1, n), m)
                              + Count(SubSeq(Published, n + 1, Len(Published)), m)
    BY <1>5, CountSplit
  <2>. QED BY <1>3, <2>1
<1>7. tx' \in Seq(Mbufs) /\ Len(tx') = n
  BY <1>3, <1>5, Split
<1>8. taken \in Seq(Mbufs) /\ Count(taken, m) \in Nat
  <2>1. taken \in Seq(Mbufs)
    BY <1>7, Split
  <2>. QED BY <2>1, CountNat
<1>9. m \notin shared' => Count(taken, m) = 0
  <2> SUFFICES ASSUME Count(taken, m) # 0 PROVE m \in shared'
    OBVIOUS
  <2>. HIDE DEF taken
  <2>1. Count(taken, m) > 0
    BY <1>8
  <2>2. PICK i \in 1 .. Len(taken) : taken[i] = m
    BY <1>8, <2>1, CountPositive
  <2>3. i \in DOMAIN taken
    BY <1>8, LenProperties
  <2>4. m \in ToSet(taken)
    BY <2>2, <2>3 DEF ToSet
  <2>. QED BY <1>4, <2>4 DEF taken
<1>10. tx = <<>> /\ UNCHANGED <<pool, in, rx, mbuf>>
  BY DEF Transmit, Sent
<1>11. nic' = nic \o taken
  BY <1>4
<1>. HIDE DEF taken
<1>12. PICK x \in Nat : x = Count(taken, m)
  BY <1>8
<1>13. d1 = d + x
  <2>1. Count(nic', m) = Count(nic, m) + Count(taken, m)
    BY <1>5, <1>8, <1>11, CountConcat
  <2>. QED BY <1>1, <1>2, <1>12, <2>1 DEF Adds
<1>14. e = 0 /\ c = e1 + c1
  BY <1>1, <1>2, <1>6, <1>10, CountEmpty DEF Adds
<1>15. a1 = a /\ b1 = b /\ f1 = f /\ g1 = g /\ h1 = h
  BY <1>1, <1>2, <1>10 DEF Adds
<1>16. Holders(m) = a + b + c + d + e + f + (g + h)
  BY <1>1 DEF Adds
<1>17. Holders(m)' = a1 + b1 + c1 + d1 + e1 + f1 + (g1 + h1)
  BY <1>2 DEF Adds
<1>18. Holders(m)' = Holders(m) + x /\ Holders(m) \in Nat
  <2>1. /\ a1 + b1 + c1 + d1 + e1 + f1 + (g1 + h1) = (a + b + c + d + e + f + (g + h)) + x
        /\ a + b + c + d + e + f + (g + h) \in Nat
    BY <1>13, <1>14, <1>15
  <2>. QED BY <1>16, <1>17, <2>1
<1>19. m \notin shared' => x = 0
  BY <1>9, <1>12
<1>. QED BY <1>12, <1>18, <1>19 DEF Steady

\* A buffer is freed by who has it.
LEMMA FreeSteady ==
  ASSUME TypeInv, RingOK, TypeInv', RingOK', Published' = Published,
         NEW k \in Mbufs, Free(k), in' = in,
         \/ /\ tx # <<>> /\ k = Head(tx) /\ tx' = Tail(tx)
            /\ UNCHANGED <<nic, rx, mbuf>>
         \/ /\ nic # <<>> /\ k = Head(nic) /\ nic' = Tail(nic)
            /\ UNCHANGED <<tx, rx, mbuf>>
         \/ /\ rx # <<>> /\ k = Head(rx) /\ rx' = Tail(rx)
            /\ UNCHANGED <<nic, tx, mbuf>>
         \/ /\ k = mbuf["main"] /\ mbuf' = [mbuf EXCEPT !["main"] = NULL]
            /\ UNCHANGED <<nic, tx, rx>>,
         NEW m \in Mbufs
  PROVE  Steady(m)
<1>1. PICK a, b, c, d, e, f, g, h \in Nat : Adds(m, a, b, c, d, e, f, g, h)
  BY HoldersAre
<1>2. PICK a1, b1, c1, d1, e1, f1, g1, h1 \in Nat : Adds(m, a1, b1, c1, d1, e1, f1, g1, h1)'
  BY HoldersWillBe
<1>3. PICK x \in Nat : x = Is(k, m)
  BY IsType
<1>4. a1 <= a + x /\ (a1 = a + x \/ InPool = PoolSlots)
  BY <1>1, <1>2, <1>3, FreeMoves DEF Adds
<1>5. b1 = b /\ c1 = c
  BY <1>1, <1>2 DEF Adds
<1>6. d + e + f + (g + h) = (d1 + e1 + f1 + (g1 + h1)) + x
  <2>0. tx \in Seq(Mbufs) /\ rx \in Seq(Mbufs) /\ nic \in Seq(Mbufs)
    BY DEF TypeInv, TypeOK
  <2>1. CASE /\ tx # <<>> /\ k = Head(tx) /\ tx' = Tail(tx)
             /\ UNCHANGED <<nic, rx, mbuf>>
    <3>1. Count(tx, m) = Is(Head(tx), m) + Count(Tail(tx), m)
      BY <2>0, <2>1, CountHead
    <3>2. e = x + e1 /\ d1 = d /\ f1 = f /\ g1 = g /\ h1 = h
      BY <1>1, <1>2, <1>3, <2>1, <3>1 DEF Adds
    <3>. QED BY <3>2
  <2>2. CASE /\ nic # <<>> /\ k = Head(nic) /\ nic' = Tail(nic)
             /\ UNCHANGED <<tx, rx, mbuf>>
    <3>1. Count(nic, m) = Is(Head(nic), m) + Count(Tail(nic), m)
      BY <2>0, <2>2, CountHead
    <3>2. d = x + d1 /\ e1 = e /\ f1 = f /\ g1 = g /\ h1 = h
      BY <1>1, <1>2, <1>3, <2>2, <3>1 DEF Adds
    <3>. QED BY <3>2
  <2>3. CASE /\ rx # <<>> /\ k = Head(rx) /\ rx' = Tail(rx)
             /\ UNCHANGED <<nic, tx, mbuf>>
    <3>1. Count(rx, m) = Is(Head(rx), m) + Count(Tail(rx), m)
      BY <2>0, <2>3, CountHead
    <3>2. f = x + f1 /\ d1 = d /\ e1 = e /\ g1 = g /\ h1 = h
      BY <1>1, <1>2, <1>3, <2>3, <3>1 DEF Adds
    <3>. QED BY <3>2
  <2>4. CASE /\ k = mbuf["main"] /\ mbuf' = [mbuf EXCEPT !["main"] = NULL]
             /\ UNCHANGED <<nic, tx, rx>>
    <3>1. mbuf'["main"] = NULL /\ mbuf'["packet"] = mbuf["packet"]
      BY <2>4 DEF TypeInv, TypeOK, Lcores
    <3>2. g = x /\ g1 = 0 /\ d1 = d /\ e1 = e /\ f1 = f /\ h1 = h
      BY <1>1, <1>2, <1>3, <2>4, <3>1, NullIsNone DEF Adds
    <3>. QED BY <3>2
  <2>. QED BY <2>1, <2>2, <2>3, <2>4
<1>7. Holders(m) = a + b + c + d + e + f + (g + h)
  BY <1>1 DEF Adds
<1>8. Holders(m)' = a1 + b1 + c1 + d1 + e1 + f1 + (g1 + h1)
  BY <1>2 DEF Adds
<1>9. /\ a1 + b1 + c1 + d1 + e1 + f1 + (g1 + h1) <= a + b + c + d + e + f + (g + h)
      /\ a1 = a + x =>
           a1 + b1 + c1 + d1 + e1 + f1 + (g1 + h1) >= a + b + c + d + e + f + (g + h)
  BY <1>4, <1>5, <1>6
<1>10. InPool = PoolSlots => Leak(m)
  BY DEF Leak
<1>. QED BY <1>4, <1>7, <1>8, <1>9, <1>10 DEF Steady

\* The next burst of ring->in, and what RARP does with one of its frames.
LEMMA BurstSteady ==
  ASSUME TypeInv, RingOK, TypeInv', RingOK', Published' = Published, NextBurst \/ Rarp,
         NEW m \in Mbufs
  PROVE  Steady(m)
<1>1. PICK a, b, c, d, e, f, g, h \in Nat : Adds(m, a, b, c, d, e, f, g, h)
  BY HoldersAre
<1>2. PICK a1, b1, c1, d1, e1, f1, g1, h1 \in Nat : Adds(m, a1, b1, c1, d1, e1, f1, g1, h1)'
  BY HoldersWillBe
<1>3. UNCHANGED <<pool, nic, mbuf, tx>>
  BY DEF NextBurst, Rarp
<1>4. a1 = a /\ c1 = c /\ d1 = d /\ e1 = e /\ g1 = g /\ h1 = h
  BY <1>1, <1>2, <1>3 DEF Adds
<1>5. Holders(m) = a + b + c + d + e + f + (g + h)
  BY <1>1 DEF Adds
<1>6. Holders(m)' = a1 + b1 + c1 + d1 + e1 + f1 + (g1 + h1)
  BY <1>2 DEF Adds
<1>7. in \in Seq(Mbufs) /\ rx \in Seq(Mbufs) /\ Len(in) \in Nat /\ BURST_SIZE \in Nat
  BY SizesAssumption, LenProperties DEF TypeInv, TypeOK
<1>8. CASE NextBurst
  <2> DEFINE n == Least(Len(in), BURST_SIZE)
  <2>1. n \in 0 .. Len(in)
    BY <1>7 DEF Least
  <2>2. rx = <<>> /\ rx' = SubSeq(in, 1, n) /\ in' = SubSeq(in, n + 1, Len(in))
    BY <1>8 DEF NextBurst, FirstOf, Behind
  <2>. HIDE DEF n
  <2>3. Count(in, m) = Count(SubSeq(in, 1, n), m) + Count(SubSeq(in, n + 1, Len(in)), m)
    BY <1>7, <2>1, CountSplit
  <2>4. b = f1 + b1 /\ f = 0
    BY <1>1, <1>2, <2>2, <2>3, CountEmpty DEF Adds
  <2>5. a1 + b1 + c1 + d1 + e1 + f1 + (g1 + h1) = a + b + c + d + e + f + (g + h)
    BY <1>4, <2>4
  <2>6. Holders(m)' = Holders(m) /\ Holders(m) \in Nat
    BY <1>5, <1>6, <2>5
  <2>. QED BY <2>6 DEF Steady
<1>9. CASE Rarp
  <2>1. rx # <<>> /\ rx' = Tail(rx) /\ in' = in
    BY <1>9 DEF Rarp
  <2>2. Count(rx, m) = Is(Head(rx), m) + Count(Tail(rx), m)
    BY <1>7, <2>1, CountHead
  <2>3. PICK x \in Nat : x = Is(Head(rx), m)
    BY IsType
  <2>4. b1 = b /\ f = x + f1
    BY <1>1, <1>2, <2>1, <2>2, <2>3 DEF Adds
  <2>5. (a1 + b1 + c1 + d1 + e1 + f1 + (g1 + h1)) + x = a + b + c + d + e + f + (g + h)
    BY <1>4, <2>4
  <2>6. Holders(m)' + x = Holders(m) /\ Holders(m)' \in Nat
    BY <1>5, <1>6, <2>5
  <2>7. x # 0 => Leak(m)
    BY <1>9, <2>3 DEF Leak, Is
  <2>. QED BY <2>3, <2>6, <2>7 DEF Steady
<1>. QED BY <1>8, <1>9

\* Nothing happens to buffers.
LEMMA StaySteady ==
  ASSUME TypeInv, RingOK, TypeInv', RingOK', Published' = Published,
         UNCHANGED <<pool, in, nic, tx, rx, mbuf>>, NEW m \in Mbufs
  PROVE  Steady(m)
<1>1. PICK a, b, c, d, e, f, g, h \in Nat : Adds(m, a, b, c, d, e, f, g, h)
  BY HoldersAre
<1>2. PICK a1, b1, c1, d1, e1, f1, g1, h1 \in Nat : Adds(m, a1, b1, c1, d1, e1, f1, g1, h1)'
  BY HoldersWillBe
<1>3. a1 = a /\ b1 = b /\ c1 = c /\ d1 = d /\ e1 = e /\ f1 = f /\ g1 = g /\ h1 = h
  BY <1>1, <1>2 DEF Adds
<1>4. Holders(m)' = Holders(m) /\ Holders(m) \in Nat
  BY <1>1, <1>2, <1>3 DEF Adds
<1>. QED BY <1>4 DEF Steady

LEMMA SentHolds == SafeSpec => []Sent
<1>1. Init => Sent
  BY DEF Init, Sent
<1>2. TypeInv /\ Sent /\ [Next]_vars => Sent'
  <2> SUFFICES ASSUME TypeInv, Sent, [Next]_vars PROVE Sent'
    OBVIOUS
  <2>0. pc \in [Lcores -> Labels] /\ "main" \in Lcores
    BY DEF TypeInv, TypeOK, Lcores
  <2>1. CASE Receive \/ TimerDue
    BY <2>0, <2>1 DEF Receive, TimerDue, Sent
  <2>2. CASE Transmit
    BY <2>0, <2>2 DEF Transmit, Goto, Sent
  <2>3. CASE FreeSent
    BY <2>3 DEF FreeSent, Sent
  <2>4. CASE NextRequest \/ FreeRequest
    BY <2>0, <2>4 DEF NextRequest, FreeRequest, Goto, Sent
  <2>5. CASE Claim("main") \/ Publish("main")
    BY <2>0, <2>5 DEF Claim, Publish, Enqueued, Goto, Sent
  <2>6. CASE Packet
    <3>1. tx' = tx /\ pc'["main"] = pc["main"]
      BY <2>0, <2>6
         DEF Packet, NextBurst, Reply, Answered, FreeReceived, Rarp, SweepFrame, Claim,
             Publish, LoadHead, StoreHead, StoreTail, Enqueued, Goto, Lcores
    <3>. QED BY <3>1 DEF Sent
  <2>7. CASE NicSent \/ Exit \/ UNCHANGED vars
    BY <2>7 DEF NicSent, Exit, vars, lcoreVars, Sent
  <2>. QED BY <2>1, <2>2, <2>3, <2>4, <2>5, <2>6, <2>7 DEF Next, Main
<1>. QED BY <1>1, <1>2, TypeInvHolds, PTL DEF SafeSpec

LEMMA EveryStepSteady ==
  ASSUME TypeInv, TypeInv', RingOK, Sent, [Next]_vars, ~raced', NEW m \in Mbufs
  PROVE  Steady(m)
<1>0. RingOK'
  BY RingStep
<1>1. CASE \E t \in Lcores : Claim(t) \/ (t = "packet" /\ (StoreHead \/ LoadHead))
  <2>1. PICK t \in Lcores : Claim(t) \/ (t = "packet" /\ (StoreHead \/ LoadHead))
    BY <1>1
  <2>2. Published' = Published
    BY <2>1, ClaimStep, StoreHeadStep, OtherStep
  <2>. QED BY <1>0, <2>1, <2>2, EnqueueSteady
<1>2. CASE \E t \in Lcores : Publishes(t)
  BY <1>0, <1>2, EnqueueSteady
<1>3. CASE Transmit
  BY <1>0, <1>3, TransmitSteady
<1>4. CASE Receive
  <2>1. Published' = Published
    BY <1>4, OtherStep
  <2>. QED BY <1>0, <1>4, <2>1, ReceiveSteady
<1>5. CASE NextBurst \/ Rarp
  <2>1. Published' = Published
    BY <1>5, OtherStep
  <2>. QED BY <1>0, <1>5, <2>1, BurstSteady
<1>6. CASE \/ TimerDue \/ NextRequest \/ Reply
           \/ SweepFrame("arp", "claim") \/ SweepFrame("udp", "load")
  <2>1. Published' = Published
    BY <1>6, OtherStep
  <2>2. CASE TimerDue \/ NextRequest
    <3>1. /\ "main" \in Lcores /\ Alloc("main") /\ mbuf["main"] = NULL
          /\ UNCHANGED <<in, nic, tx, rx>>
      BY <2>2 DEF TimerDue, NextRequest, TypeInv, Stages, Lcores
    <3>. QED BY <1>0, <2>1, <3>1, AllocSteady
  <2>3. CASE Reply \/ SweepFrame("arp", "claim") \/ SweepFrame("udp", "load")
    <3>1. /\ "packet" \in Lcores /\ Alloc("packet") /\ mbuf["packet"] = NULL
          /\ UNCHANGED <<in, nic, tx, rx>>
      BY <2>3 DEF Reply, SweepFrame, TypeInv, Stages, Lcores
    <3>. QED BY <1>0, <2>1, <3>1, AllocSteady
  <2>. QED BY <1>6, <2>2, <2>3
<1>7. CASE FreeSent \/ NicSent \/ FreeReceived \/ FreeRequest
  <2>1. Published' = Published /\ in' = in
    <3>1. Published' = Published
      BY <1>7, OtherStep
    <3>. QED BY <1>7, <3>1 DEF FreeSent, NicSent, FreeReceived, FreeRequest
  <2>2. CASE FreeSent
    <3>1. /\ Head(tx) \in Mbufs /\ Free(Head(tx)) /\ tx # <<>> /\ tx' = Tail(tx)
          /\ UNCHANGED <<nic, rx, mbuf>>
      BY <2>2, HeadTypes DEF FreeSent
    <3>. QED BY <1>0, <2>1, <3>1, FreeSteady
  <2>3. CASE NicSent
    <3>1. /\ Head(nic) \in Mbufs /\ Free(Head(nic)) /\ nic # <<>> /\ nic' = Tail(nic)
          /\ UNCHANGED <<tx, rx, mbuf>>
      BY <2>3, HeadTypes DEF NicSent, lcoreVars
    <3>. QED BY <1>0, <2>1, <3>1, FreeSteady
  <2>4. CASE FreeReceived
    <3>1. /\ Head(rx) \in Mbufs /\ Free(Head(rx)) /\ rx # <<>> /\ rx' = Tail(rx)
          /\ UNCHANGED <<nic, tx, mbuf>>
      BY <2>4, HeadTypes DEF FreeReceived
    <3>. QED BY <1>0, <2>1, <3>1, FreeSteady
  <2>5. CASE FreeRequest
    <3>1. /\ mbuf["main"] \in Mbufs /\ Free(mbuf["main"])
          /\ mbuf' = [mbuf EXCEPT !["main"] = NULL] /\ UNCHANGED <<nic, tx, rx>>
      BY <2>5 DEF FreeRequest, TypeInv, Stages
    <3>. QED BY <1>0, <2>1, <3>1, FreeSteady
  <2>. QED BY <1>7, <2>2, <2>3, <2>4, <2>5
<1>8. CASE Answered
  <2>1. Published' = Published /\ UNCHANGED <<in, nic, tx, mbuf>>
    <3>1. Published' = Published
      BY <1>8, OtherStep
    <3>. QED BY <1>8, <3>1 DEF Answered
  <2>2. CASE rx # <<>> /\ Free(Head(rx)) /\ rx' = Tail(rx)
    <3>1. Head(rx) \in Mbufs
      BY <2>2, HeadTypes
    <3>. QED BY <1>0, <2>1, <2>2, <3>1, FreeSteady
  <2>3. CASE UNCHANGED <<pool, rx>>
    BY <1>0, <2>1, <2>3, StaySteady
  <2>. QED BY <1>8, <2>2, <2>3 DEF Answered
<1>9. CASE Exit \/ UNCHANGED vars
  <2>1. Published' = Published
    BY <1>9, OtherStep
  <2>2. UNCHANGED <<pool, in, nic, tx, rx, mbuf>>
    BY <1>9 DEF Exit, vars, lcoreVars
  <2>. QED BY <1>0, <2>1, <2>2, StaySteady
<1>. QED BY <1>1, <1>2, <1>3, <1>4, <1>5, <1>6, <1>7, <1>8, <1>9, Zenon
         DEF Next, Main, Packet, Publishes, Lcores

LEMMA SharedStays ==
  ASSUME [Next]_vars
  PROVE  shared \subseteq shared'
<1>1. shared' = shared \/ (\E t \in Lcores : Publish(t)) \/ Transmit
  BY DEF Next, Main, Packet, Receive, FreeSent, TimerDue, NextRequest, Claim, StoreTail,
         FreeRequest, NextBurst, Reply, Answered, FreeReceived, Rarp, SweepFrame, LoadHead,
         StoreHead, NicSent, Exit, vars, Lcores
<1>2. ASSUME NEW t \in Lcores, Publish(t) PROVE shared \subseteq shared'
  BY <1>2 DEF Publish
<1>3. ASSUME Transmit PROVE shared \subseteq shared'
  BY <1>3 DEF Transmit
<1>. QED BY <1>1, <1>2, <1>3

\* A buffer is in one place, with one lcore, ring or queue, until the main
\* lcore has handed it on: the requests of the timer, which it frees behind the
\* enqueue, and what it has given to the NIC, which it frees behind the burst,
\* are the only buffers that two may hold.
THEOREM InOneHand == SafeSpec => []OneHolder
<1>1. Init => OneHolder
  <2> SUFFICES ASSUME Init, NEW m \in Mbufs PROVE Holders(m) <= 1
    BY DEF OneHolder
  <2>1. Published = <<>>
    <3>1. ASSUME NEW n \in Nat \ {0} PROVE (0 - 0) % n = 0
      OBVIOUS
    <3>2. Ready = 0
      BY <3>1, Sizes DEF Init, Ready
    <3>. QED BY <3>2 DEF Published
  <2>2. pool[m] = 1 /\ in = <<>> /\ nic = <<>> /\ tx = <<>> /\ rx = <<>>
    BY DEF Init
  <2>3. Is(mbuf["main"], m) = 0 /\ Is(mbuf["packet"], m) = 0
    BY NullIsNone DEF Init, Lcores
  <2>4. Cardinality({t \in Lcores : mbuf[t] = m}) = 0
    BY <2>3, InHands
  <2>. QED BY <2>1, <2>2, <2>4, CountEmpty DEF Holders
<1>2. TypeInv /\ TypeInv' /\ RingInv /\ Sent /\ OneHolder /\ [Next]_vars => OneHolder'
  <2> SUFFICES ASSUME TypeInv, TypeInv', RingInv, Sent, OneHolder, [Next]_vars, ~raced',
                      NEW m \in Mbufs, m \notin shared'
               PROVE  Holders(m)' <= 1
    BY DEF OneHolder
  <2>1. ~raced /\ RingOK
    BY RacedStays DEF RingInv
  <2>2. RingOK'
    BY <2>1, RingStep
  <2>3. m \notin shared
    BY SharedStays
  <2>4. Holders(m) <= 1
    BY <2>1, <2>3 DEF OneHolder
  <2>5. Holders(m)' <= Holders(m)
    BY <2>1, EveryStepSteady DEF Steady
  <2>6. Holders(m) \in Nat /\ Holders(m)' \in Nat
    <3>1. PICK a, b, c, d, e, f, g, h \in Nat : Adds(m, a, b, c, d, e, f, g, h)
      BY <2>1, HoldersAre
    <3>2. PICK a1, b1, c1, d1, e1, f1, g1, h1 \in Nat :
            Adds(m, a1, b1, c1, d1, e1, f1, g1, h1)'
      BY <2>2, HoldersWillBe
    <3>3. /\ a + b + c + d + e + f + (g + h) \in Nat
          /\ a1 + b1 + c1 + d1 + e1 + f1 + (g1 + h1) \in Nat
      OBVIOUS
    <3>. QED BY <3>1, <3>2, <3>3 DEF Adds
  <2>. QED BY <2>4, <2>5, <2>6
<1>. QED BY <1>1, <1>2, TypeInvHolds, RingInvHolds, SentHolds, PTL DEF SafeSpec

\* A buffer that somebody holds is lost only where the code drops it: the frame
\* of a RARP request, a frame for a full ring->out or a full ring->in, and what
\* is freed into a full pool.
THEOREM OnlyKnownLeaks == SafeSpec => KnownLeaks
<1> DEFINE Step == \A m \in Mbufs : Holders(m) > 0 /\ Holders(m)' = 0 /\ ~raced' => Leak(m)
<1>1. TypeInv /\ TypeInv' /\ RingInv /\ Sent /\ [Next]_vars => Step
  <2> SUFFICES ASSUME TypeInv, TypeInv', RingInv, Sent, [Next]_vars, NEW m \in Mbufs,
                      Holders(m) > 0, Holders(m)' = 0, ~raced'
               PROVE  Leak(m)
    OBVIOUS
  <2>1. ~raced /\ RingOK
    BY RacedStays DEF RingInv
  <2>2. Holders(m)' >= Holders(m) \/ Leak(m)
    BY <2>1, EveryStepSteady DEF Steady
  <2>3. Holders(m) \in Nat
    <3>1. PICK a, b, c, d, e, f, g, h \in Nat : Adds(m, a, b, c, d, e, f, g, h)
      BY <2>1, HoldersAre
    <3>2. a + b + c + d + e + f + (g + h) \in Nat
      OBVIOUS
    <3>. QED BY <3>1, <3>2 DEF Adds
  <2>. QED BY <2>2, <2>3
<1>2. KnownLeaks <=> [][Step]_vars
  BY PTL DEF KnownLeaks, Leak
<1>. HIDE DEF Step
<1>. QED BY <1>1, <1>2, TypeInvHolds, RingInvHolds, SentHolds, PTL DEF SafeSpec
=============================================================================
