----------------------------- MODULE Timer_proofs -----------------------------
(***************************************************************************)
(* Proofs about Timer for wheels of every number and size, all delays and  *)
(* calls at any moment: the types, the first wheel's pace, the slots of    *)
(* the first wheel, and the tasks that are within its reach.               *)
(***************************************************************************)
EXTENDS Timer, SequenceLemmas

-----------------------------------------------------------------------------
\* Quotient and remainder.
LEMMA DivMod ==
  ASSUME NEW n \in Nat, NEW W \in Nat \ {0}
  PROVE  /\ n \div W \in Nat /\ n % W \in 0..(W - 1)
         /\ n = W * (n \div W) + (n % W)
OBVIOUS

\* A multiple of W that is less than W above another is not above it.
LEMMA Multiples ==
  ASSUME NEW W \in Nat \ {0}, NEW p \in Nat, NEW q \in Nat, W * p < W * q + W
  PROVE  p <= q
<1> SUFFICES ASSUME p >= q + 1 PROVE FALSE
  OBVIOUS
<1>1. PICK d \in Nat : p = q + 1 + d
  <2>1. p - (q + 1) \in Nat
    OBVIOUS
  <2> QED BY <2>1
<1>2. W * p = W * q + W + W * d
  BY <1>1
<1>3. W * d \in Nat /\ W * q \in Nat
  OBVIOUS
<1> QED BY <1>2, <1>3

\* Quotient and remainder are unique.
LEMMA Residue ==
  ASSUME NEW W \in Nat \ {0}, NEW n \in Nat, NEW q \in Nat, NEW r \in 0..(W - 1), n = W * q + r
  PROVE  n % W = r /\ n \div W = q
<1> DEFINE p == n \div W
           s == n % W
<1>1. p \in Nat /\ s \in 0..(W - 1) /\ n = W * p + s
  BY DivMod
<1>2. W * p \in Nat /\ W * q \in Nat
  BY <1>1
<1> HIDE DEF p, s
<1>3. p <= q
  BY <1>1, <1>2, Multiples
<1>4. q <= p
  BY <1>1, <1>2, Multiples
<1> QED BY <1>1, <1>3, <1>4 DEF p, s

\* The remainder of the next number.
LEMMA ModStep ==
  ASSUME NEW n \in Nat, NEW W \in Nat \ {0}
  PROVE  (n + 1) % W = ((n % W) + 1) % W
<1> DEFINE q == n \div W
           r == n % W
<1>1. q \in Nat /\ r \in 0..(W - 1) /\ n = W * q + r
  BY DivMod
<1> HIDE DEF q, r
<1>2. CASE r + 1 < W
  <2>1. n + 1 = W * q + (r + 1) /\ r + 1 = W * 0 + (r + 1) /\ r + 1 \in 0..(W - 1)
    BY <1>1, <1>2
  <2>2. (n + 1) % W = r + 1
    BY <1>1, <2>1, Residue
  <2>3. (r + 1) % W = r + 1
    BY <1>1, <2>1, Residue
  <2> QED BY <2>2, <2>3 DEF r
<1>3. CASE r + 1 = W
  <2>1. n + 1 = W * (q + 1) + 0 /\ r + 1 = W * 1 + 0 /\ 0 \in 0..(W - 1)
    BY <1>1, <1>3
  <2>2. (n + 1) % W = 0
    BY <1>1, <2>1, Residue
  <2>3. (r + 1) % W = 0
    BY <1>1, <2>1, Residue
  <2> QED BY <2>2, <2>3 DEF r
<1> QED BY <1>1, <1>2, <1>3

\* Of W numbers in a row no two have the same remainder.
LEMMA SameResidue ==
  ASSUME NEW W \in Nat \ {0}, NEW x \in Nat, NEW y \in Nat, x <= y, y < x + W, x % W = y % W
  PROVE  x = y
<1> DEFINE p == x \div W
           q == y \div W
           r == x % W
<1>1. p \in Nat /\ q \in Nat /\ r \in 0..(W - 1) /\ x = W * p + r /\ y = W * q + r
  BY DivMod
<1>2. W * p \in Nat /\ W * q \in Nat
  BY <1>1
<1> HIDE DEF p, q, r
<1>3. p <= q
  BY <1>1, <1>2, Multiples
<1>4. q <= p
  BY <1>1, <1>2, Multiples
<1> QED BY <1>1, <1>3, <1>4

-----------------------------------------------------------------------------
\* There is a first wheel, and every wheel has a size.
LEMMA WheelFacts ==
  /\ N \in Nat /\ N >= 1
  /\ WheelSize \in [1..N -> Nat \ {0}]
  /\ 1 \in Wheel /\ WheelSize[1] \in Nat \ {0}
<1>1. N \in Nat /\ WheelSize \in [1..N -> Nat \ {0}]
  BY WheelAssumption, LenProperties DEF N
<1>2. N # 0
  BY WheelAssumption, EmptySeq DEF N
<1> QED BY <1>1, <1>2 DEF Wheel

\* The scales exist, and that of the first wheel is its size.
LEMMA ScaleFacts ==
  /\ \A w \in 0..N : Scale[w] \in Nat \ {0}
  /\ Scale[0] = 1
  /\ \A w \in Wheel : Scale[w] = Scale[w - 1] * WheelSize[w]
<1> DEFINE V == Nat \ {0}
           g == [w \in 1..N |-> [x \in V |-> x * WheelSize[w]]]
           Is(f) == f = [w \in 0..N |-> IF w = 0 THEN 1 ELSE f[w - 1] * WheelSize[w]]
<1>0. N \in Nat
  BY WheelFacts
<1>1. g \in [1..N -> [V -> V]]
  <2>1. ASSUME NEW w \in 1..N, NEW x \in V PROVE x * WheelSize[w] \in V
    <3>1. \A a, b \in V : a * b \in V
      OBVIOUS
    <3> QED BY <3>1, WheelFacts
  <2> QED BY <2>1
<1>g. \A w \in 1..N, x \in V : g[w][x] = x * WheelSize[w]
  OBVIOUS
<1> HIDE DEF g
<1>v. 1 \in V
  OBVIOUS
<1>2. PICK f \in [0..N -> V] : f[0] = 1 /\ \A w \in 1..N : f[w] = g[w][f[w - 1]]
  <2> HIDE DEF V
  <2> QED BY <1>0, <1>1, <1>v, RecursionExists
<1>3. \A w \in 1..N : f[w] = f[w - 1] * WheelSize[w]
  <2>1. \A w \in 1..N : w - 1 \in 0..N
    BY <1>0
  <2> HIDE DEF V
  <2> QED BY <1>2, <2>1, <1>g
<1>4. Is(f)
  BY <1>0, <1>2, <1>3
<1>5. Is(Scale)
  <2>1. Scale = CHOOSE h : Is(h)
    BY DEF Scale
  <2> HIDE DEF Is
  <2> QED BY <1>4, <2>1
<1>6. Scale[0] = 1 /\ DOMAIN Scale = 0..N /\ \A w \in 1..N : Scale[w] = Scale[w - 1] * WheelSize[w]
  BY <1>0, <1>5
<1>7. \A w \in 1..N : Scale[w - 1] \in V => Scale[w] = g[w][Scale[w - 1]]
  <2> HIDE DEF V
  <2> QED BY <1>6, <1>g
<1>8. \A w \in 0..N : Scale[w] \in V
  <2> HIDE DEF V
  <2> QED BY <1>0, <1>1, <1>v, <1>6, <1>7, RecursionIn
<1> QED BY <1>6, <1>8 DEF Wheel

\* The quotients of the level loop exist, and the first is the number itself.
LEMMA QuotientFacts ==
  ASSUME NEW n \in Nat
  PROVE  /\ \A w \in 0..N : Quotient(n)[w] \in Nat
         /\ Quotient(n)[0] = n
<1> DEFINE V == Nat
           v == n
           g == [w \in 1..N |-> [x \in V |-> x \div WheelSize[w]]]
           Is(f) == f = [w \in 0..N |-> IF w = 0 THEN n ELSE f[w - 1] \div WheelSize[w]]
           Q == Quotient(n)
<1>0. N \in Nat
  BY WheelFacts
<1>1. g \in [1..N -> [V -> V]]
  <2>1. ASSUME NEW w \in 1..N, NEW x \in V PROVE x \div WheelSize[w] \in V
    <3>1. WheelSize[w] \in Nat \ {0}
      BY WheelFacts
    <3> QED BY <3>1, DivMod
  <2> QED BY <2>1
<1>g. \A w \in 1..N, x \in Nat : g[w][x] = x \div WheelSize[w]
  OBVIOUS
<1> HIDE DEF g
<1>v. v \in V
  OBVIOUS
<1>2. PICK f \in [0..N -> V] : f[0] = v /\ \A w \in 1..N : f[w] = g[w][f[w - 1]]
  <2> HIDE DEF V, v
  <2> QED BY <1>0, <1>1, <1>v, RecursionExists
<1>3. \A w \in 1..N : f[w] = f[w - 1] \div WheelSize[w]
  <2>1. \A w \in 1..N : w - 1 \in 0..N
    BY <1>0
  <2> QED BY <1>2, <2>1, <1>g
<1>4. Is(f)
  BY <1>0, <1>2, <1>3
<1>5. Is(Q)
  <2>1. Q = CHOOSE h : Is(h)
    BY DEF Quotient
  <2> HIDE DEF Is, Q
  <2> QED BY <1>4, <2>1
<1> HIDE DEF Q
<1>6. Q[0] = n /\ \A w \in 1..N : Q[w] = Q[w - 1] \div WheelSize[w]
  BY <1>0, <1>5
<1>7. \A w \in 1..N : Q[w - 1] \in Nat => Q[w] = g[w][Q[w - 1]]
  BY <1>6, <1>g
<1>8. \A w \in 0..N : Q[w] \in Nat
  BY <1>0, <1>1, <1>6, <1>7, RecursionIn
<1> QED BY <1>6, <1>8 DEF Q

-----------------------------------------------------------------------------
SlotT == [at : {"slot"}, wheel : Wheel, index : Nat]
MapT == [at : {"map"}, key : Nat]
PlaceT == {New, Taken, Done} \cup SlotT \cup MapT

(***************************************************************************)
(* TypeOK, the places of the tasks, and when the thread runs: it has ticks *)
(* left while it makes one, does not exist before Start, and is gone after *)
(* an access out of bounds.                                                *)
(***************************************************************************)
Types ==
  /\ state \in {"PreInit", "Init", "Start", "Shutdown"}
  /\ ratio \in Nat /\ todo \in Nat /\ tick \in Nat /\ mapPos \in Nat
  /\ pc \in {"none", "top", "tick", "exec", "gone"}
  /\ pc \in {"tick", "exec"} => todo # 0
  /\ state \in {"PreInit", "Init"} => pc = "none"
  /\ oob => pc = "gone"
  /\ pos \in [Wheel -> Nat]
  /\ place \in [Task -> PlaceT]
  /\ due \in [Task -> Nat]
  /\ oob \in BOOLEAN

\* The places are told apart by their field at.
LEMMA SlotIsTyped ==
  /\ \A w \in Wheel, p \in Nat : Slot(w, p) \in PlaceT /\ Slot(w, p).at = "slot" /\ Slot(w, p).wheel = w /\ Slot(w, p).index = p
  /\ \A k \in Nat : InMap(k) \in PlaceT /\ InMap(k).at = "map"
  /\ New \in PlaceT /\ Taken \in PlaceT /\ Done \in PlaceT
  /\ \A p \in PlaceT : \/ p = New /\ p.at = "new"
                       \/ p = Taken /\ p.at = "taken"
                       \/ p = Done /\ p.at = "done"
                       \/ p.at = "slot" /\ p.wheel \in Wheel /\ p.index \in Nat
                       \/ p.at = "map" /\ p.key \in Nat
BY DEF Slot, InMap, New, Taken, Done, PlaceT, SlotT, MapT

\* Where ExecuteAt puts a task for a tick that is not over.
LEMMA PlaceForIs ==
  ASSUME NEW n \in Nat, NEW d \in Nat, n = tick, n <= d
  PROVE  /\ PlaceFor(d) \in PlaceT \ {New, Taken, Done}
         /\ PlaceFor(d).at = "slot" /\ PlaceFor(d).wheel = 1 => PlaceFor(d).index = d % WheelSize[1]
         /\ d - n < WheelSize[1] => PlaceFor(d) = Slot(1, d % WheelSize[1])
<1> DEFINE diff == Quotient(d - n)
           cur == Quotient(n)
           fits == {w \in Wheel : diff[w - 1] < WheelSize[w]}
           w == CHOOSE v \in fits : \A u \in fits : v <= u
           p == PlaceFor(d)
<1>0. N \in Nat /\ N >= 1 /\ 1 \in Wheel /\ WheelSize[1] \in Nat \ {0} /\ \A v \in Wheel : v \in Nat /\ v >= 1 /\ v <= N /\ WheelSize[v] \in Nat \ {0}
  BY WheelFacts DEF Wheel
<1>1. d - n \in Nat
  OBVIOUS
<1>2. /\ \A v \in 0..N : diff[v] \in Nat /\ cur[v] \in Nat
      /\ diff[0] = d - n /\ cur[0] = n
  BY <1>1, QuotientFacts
<1>3. p = IF fits = {} THEN InMap(diff[N] + cur[N]) ELSE Slot(w, SlotIndex(diff, cur, w))
  BY DEF PlaceFor
<1> HIDE DEF diff, cur, p
<1>4. CASE fits = {}
  <2>1. diff[N] + cur[N] \in Nat
    BY <1>0, <1>2
  <2>2. p = InMap(diff[N] + cur[N])
    BY <1>3, <1>4
  <2>3. ~(d - n < WheelSize[1])
    BY <1>4, <1>0, <1>2
  <2>4. p \in PlaceT /\ p.at = "map"
    BY <2>1, <2>2, SlotIsTyped
  <2>5. p # New /\ p # Taken /\ p # Done
    BY <2>2 DEF New, Taken, Done, InMap
  <2> QED BY <2>3, <2>4, <2>5 DEF p
<1>5. CASE fits # {}
  <2>1. \E v \in fits : \A u \in fits : v <= u
    <3>1. fits \subseteq Nat
      BY <1>0
    <3> HIDE DEF fits
    <3> QED BY <3>1, <1>5, Least
  <2>2. w \in fits /\ \A u \in fits : w <= u
    <3> HIDE DEF fits
    <3> QED BY <2>1
  <2> HIDE DEF w
  <2>3. w \in Wheel /\ w - 1 \in 0..N /\ WheelSize[w] \in Nat \ {0}
    BY <2>2, <1>0
  <2>4. diff[w - 1] + cur[w - 1] \in Nat
    BY <2>3, <1>2
  <2>5. SlotIndex(diff, cur, w) \in Nat
    <3> DEFINE x == diff[w - 1] + cur[w - 1]
               W == WheelSize[w]
    <3>1. x \in Nat /\ W \in Nat \ {0}
      BY <2>3, <2>4
    <3> HIDE DEF x, W
    <3>2. x % W \in Nat
      BY <3>1, DivMod
    <3> QED BY <3>2 DEF SlotIndex, x, W
  <2>6. p = Slot(w, SlotIndex(diff, cur, w))
    BY <1>3, <1>5
  <2>7. p \in PlaceT /\ p.at = "slot" /\ p.wheel = w /\ p.index = SlotIndex(diff, cur, w)
    BY <2>3, <2>5, <2>6, SlotIsTyped
  <2>8. ASSUME w = 1 PROVE p.index = d % WheelSize[1]
    <3>1. diff[w - 1] + cur[w - 1] = d
      BY <2>8, <1>2
    <3> QED BY <3>1, <2>7, <2>8 DEF SlotIndex
  <2>9. ASSUME d - n < WheelSize[1] PROVE w = 1
    <3>1. 1 \in fits
      BY <2>9, <1>0, <1>2
    <3>2. w <= 1
      BY <2>2, <3>1
    <3> QED BY <3>2, <2>3, <1>0
  <2>10. p # New /\ p # Taken /\ p # Done
    BY <2>6 DEF New, Taken, Done, Slot
  <2>11. d - n < WheelSize[1] => p = Slot(1, d % WheelSize[1])
    BY <2>6, <2>7, <2>8, <2>9
  <2> QED BY <2>7, <2>8, <2>10, <2>11 DEF p
<1> QED BY <1>4, <1>5

\* Where a tick moves a task to: whatever wheel or map it comes from, the slot
\* of the first wheel is that of its own tick.
LEMMA MovedIs ==
  ASSUME Types, NEW t \in Task, ~OutOfBounds
  PROVE  /\ Moved(t) \in PlaceT
         /\ Moved(t) = place[t] \/ Moved(t) = Taken \/ Moved(t).at = "slot" 
         /\ Moved(t).at = "slot" /\ Moved(t).wheel = 1 /\ Moved(t) # place[t] => Moved(t).index = due[t] % WheelSize[1]
<1> DEFINE p == place[t]
           m == Moved(t)
           W(w) == BorrowIndex(t, w)
<1>0. N \in Nat /\ N >= 1 /\ 1 \in Wheel /\ WheelSize[1] \in Nat \ {0} /\ \A v \in Wheel : v \in Nat /\ v >= 1 /\ v <= N /\ WheelSize[v] \in Nat \ {0}
  BY WheelFacts DEF Wheel
<1>1. p \in PlaceT /\ due[t] \in Nat
  BY DEF Types
<1>2. Scale[1] = WheelSize[1]
  <2>1. Scale[1] = Scale[1 - 1] * WheelSize[1] /\ Scale[0] = 1
    BY <1>0, ScaleFacts
  <2>2. 1 - 1 = 0
    OBVIOUS
  <2> QED BY <1>0, <2>1, <2>2
<1>3. ASSUME NEW w \in Wheel PROVE W(w) \in Nat
  <2>1. Scale[w] \in Nat \ {0}
    BY <1>0, ScaleFacts DEF Wheel
  <2> DEFINE x == due[t]
             S == Scale[w]
  <2>2. x \in Nat /\ S \in Nat \ {0}
    BY <1>1, <2>1
  <2> HIDE DEF x, S
  <2>3. x % S \in Nat
    BY <2>2, DivMod
  <2> QED BY <2>3 DEF BorrowIndex, W, x, S
<1>4. W(1) = due[t] % WheelSize[1]
  BY <1>2 DEF BorrowIndex
<1> HIDE DEF p, m, W
<1>5. ASSUME p.at = "slot", p.wheel > 1 PROVE p.wheel - 1 \in Wheel
  <2>1. p.wheel \in Wheel
    BY <1>1, <1>5, SlotIsTyped
  <2> QED BY <2>1, <1>5, <1>0 DEF Wheel
<1>6. N \in Wheel
  BY <1>0 DEF Wheel
<1>7. \/ m = p
      \/ m = Taken
      \/ p.at = "slot" /\ p.wheel > 1 /\ m = Slot(p.wheel - 1, W(p.wheel - 1))
      \/ m = Slot(N, W(N))
  BY DEF Moved, m, p, W
<1>8. ASSUME NEW w \in Wheel, m = Slot(w, W(w))
      PROVE  m \in PlaceT /\ m.at = "slot" /\ (m.wheel = 1 => m.index = due[t] % WheelSize[1])
  BY <1>3, <1>4, <1>8, SlotIsTyped
<1>9. Taken.at = "taken" /\ Taken \in PlaceT
  BY SlotIsTyped DEF Taken
<1> QED BY <1>1, <1>5, <1>6, <1>7, <1>8, <1>9 DEF m, p

-----------------------------------------------------------------------------
\* A task is taken out of the slot the first wheel stands at.
LEMMA TakenIs ==
  ASSUME NEW t \in Task, Moved(t) = Taken
  PROVE  place[t] = Taken \/ place[t] = Slot(1, pos[1])
BY DEF Moved, Slot, Taken

\* The first wheel stands at the tick of the clock, one ahead while tasks run.
WheelFollowsClock == ~oob => pos[1] = Turned % WheelSize[1]

(***************************************************************************)
(* The inductive invariant.  The slot of a task depends on its own tick    *)
(* only, and the pace of the first wheel tells at which ticks it is taken. *)
(***************************************************************************)
Inv == Types /\ WheelFollowsClock /\ SlotMatchesDue

\* Nothing turns or is stored at the start.
LEMMA InitInv == Init => Inv
<1> SUFFICES ASSUME Init PROVE Inv
  OBVIOUS
<1>0. 1 \in Wheel /\ WheelSize[1] \in Nat \ {0}
  BY WheelFacts
<1>1. Types
  BY SlotIsTyped DEF Init, Types
<1>2. WheelFollowsClock
  <2>1. 0 % WheelSize[1] = 0
    <3>1. 0 = WheelSize[1] * 0 + 0 /\ 0 \in 0..(WheelSize[1] - 1)
      BY <1>0
    <3> QED BY <1>0, <3>1, Residue
  <2> QED BY <1>0, <2>1 DEF Init, WheelFollowsClock, Turned
<1>3. SlotMatchesDue
  BY DEF Init, SlotMatchesDue, New
<1> QED BY <1>1, <1>2, <1>3 DEF Inv

\* What a tick does to the wheels and to the clock.
LEMMA TickStep == Inv /\ Tick => Inv'
<1> SUFFICES ASSUME Inv, Tick PROVE Inv'
  OBVIOUS
<1>0. N \in Wheel /\ 1 \in Wheel /\ WheelSize[1] \in Nat \ {0} /\ \A v \in Wheel : WheelSize[v] \in Nat \ {0}
  BY WheelFacts DEF Wheel
<1>1. Types /\ WheelFollowsClock /\ SlotMatchesDue
  BY DEF Inv
<1>2. ~OutOfBounds /\ place' = [t \in Task |-> Moved(t)] /\ due' = due /\ oob' = oob
  BY DEF Tick
<1>3. Types'
  <2>1. state' = state /\ ratio' = ratio /\ mapPos' \in Nat
    BY <1>1 DEF Tick, Types
  <2>2. pos' \in [Wheel -> Nat]
    <3>1. ASSUME NEW w \in Wheel PROVE (TickedAt(w) + 1) % WheelSize[w] \in Nat
      <4> DEFINE x == TickedAt(w) + 1
                 W == WheelSize[w]
      <4>1. x \in Nat /\ W \in Nat \ {0}
        BY <1>0, <1>1 DEF Types, TickedAt
      <4> HIDE DEF x, W
      <4>2. x % W \in Nat
        BY <4>1, DivMod
      <4> QED BY <4>2 DEF x, W
    <3>2. pos' = [w \in Wheel |-> IF w \notin Ticked THEN pos[w] ELSE (TickedAt(w) + 1) % WheelSize[w]]
      BY DEF Tick
    <3>3. \A w \in Wheel : pos[w] \in Nat
      BY <1>1 DEF Types
    <3> QED BY <3>1, <3>2, <3>3
  <2>3. place' \in [Task -> PlaceT]
    BY <1>1, <1>2, MovedIs
  <2>4. /\ todo' \in Nat /\ tick' \in Nat /\ pc' \in {"top", "tick", "exec"} /\ ~oob'
        /\ pc' \in {"tick", "exec"} => todo' # 0
        /\ state' \notin {"PreInit", "Init"}
    BY <1>1 DEF Tick, EndTick, Types
  <2> QED BY <1>1, <1>2, <2>1, <2>2, <2>3, <2>4 DEF Types
<1>4. WheelFollowsClock'
  <2> SUFFICES ASSUME ~oob PROVE pos'[1] = Turned' % WheelSize[1]
    BY <1>2 DEF WheelFollowsClock
  <2>1. Turned' = tick + 1
    BY <1>1 DEF Tick, EndTick, Turned, Types
  <2>2. pos[1] = tick % WheelSize[1]
    BY <1>1 DEF WheelFollowsClock, Turned, Tick
  <2>3. 1 \in Ticked
    BY <1>0 DEF Ticked
  <2>4. pos'[1] = (pos[1] + 1) % WheelSize[1]
    <3>1. pos' = [w \in Wheel |-> IF w \notin Ticked THEN pos[w] ELSE (TickedAt(w) + 1) % WheelSize[w]]
      BY DEF Tick
    <3>2. TickedAt(1) = pos[1]
      BY DEF TickedAt
    <3> HIDE DEF TickedAt
    <3> QED BY <1>0, <2>3, <3>1, <3>2
  <2>5. (tick + 1) % WheelSize[1] = ((tick % WheelSize[1]) + 1) % WheelSize[1]
    <3> DEFINE W == WheelSize[1]
    <3>1. W \in Nat \ {0} /\ tick \in Nat
      BY <1>0, <1>1 DEF Types
    <3> HIDE DEF W
    <3>2. (tick + 1) % W = ((tick % W) + 1) % W
      BY <3>1, ModStep
    <3> QED BY <3>2 DEF W
  <2> QED BY <2>1, <2>2, <2>4, <2>5
<1>5. SlotMatchesDue'
  <2>1. \A t \in Task : place'[t] = Moved(t)
    BY <1>2
  <2>2. ASSUME NEW t \in Task, place'[t].at = "slot", place'[t].wheel = 1
        PROVE  place'[t].index = due[t] % WheelSize[1]
    <3>1. CASE Moved(t) = place[t]
      BY <1>1, <2>1, <2>2, <3>1 DEF SlotMatchesDue
    <3>2. CASE Moved(t) # place[t]
      BY <1>1, <1>2, <2>1, <2>2, <3>2, MovedIs
    <3> QED BY <3>1, <3>2
  <2>3. ASSUME NEW t \in Task, place'[t].at = "taken"
        PROVE  pc' = "exec" /\ tick' = tick /\ due[t] % WheelSize[1] = tick % WheelSize[1]
    <3>1. Moved(t) = Taken
      <4>1. Moved(t) \in PlaceT /\ Moved(t).at = "taken"
        BY <1>1, <1>2, <2>1, <2>3, MovedIs
      <4> QED BY <4>1, SlotIsTyped
    <3>2. pc' = "exec" /\ tick' = tick
      BY <3>1 DEF Tick
    <3>3. place[t] = Slot(1, pos[1])
      <4>1. place[t] # Taken
        BY <1>1 DEF Tick, SlotMatchesDue, Taken
      <4> QED BY <3>1, <4>1, TakenIs
    <3>4. place[t].at = "slot" /\ place[t].wheel = 1 /\ place[t].index = pos[1]
      BY <3>3 DEF Slot
    <3>5. pos[1] = tick % WheelSize[1]
      BY <1>1 DEF WheelFollowsClock, Turned, Tick, Types
    <3> QED BY <1>1, <3>2, <3>4, <3>5 DEF SlotMatchesDue
  <2> QED BY <1>2, <2>2, <2>3 DEF SlotMatchesDue
<1> QED BY <1>3, <1>4, <1>5 DEF Inv

\* A new task is put into the slot of its tick.
LEMMA ExecuteAtStep ==
  ASSUME Inv, NEW t \in Task, NEW d \in Nat, ExecuteAt(t, d)
  PROVE  Inv'
<1> DEFINE p == IF d < tick THEN Done ELSE PlaceFor(d)
<1>1. Types /\ WheelFollowsClock /\ SlotMatchesDue
  BY DEF Inv
<1>2. /\ due' = [due EXCEPT ![t] = d] /\ place' = [place EXCEPT ![t] = p]
      /\ UNCHANGED <<state, clock, oob>>
  BY DEF ExecuteAt
<1>3. p \in PlaceT \ {Taken} /\ (p.at = "slot" /\ p.wheel = 1 => p.index = d % WheelSize[1])
  <2>0. tick \in Nat
    BY <1>1 DEF Types
  <2>1. CASE d < tick
    BY <2>1, SlotIsTyped DEF Done, Taken
  <2>2. CASE ~(d < tick)
    <3>1. tick <= d
      BY <2>0, <2>2
    <3>2. PICK n \in Nat : n = tick
      BY <2>0
    <3>3. p = PlaceFor(d)
      BY <2>2
    <3> QED BY <3>1, <3>2, <3>3, PlaceForIs
  <2> QED BY <2>1, <2>2
<1> HIDE DEF p
<1>4. Types'
  BY <1>1, <1>2, <1>3 DEF Types, clock
<1>5. WheelFollowsClock'
  BY <1>1, <1>2 DEF WheelFollowsClock, Turned, clock
<1>6. SlotMatchesDue'
  <2>1. place'[t] = p /\ due'[t] = d /\ p.at # "taken"
    <3>1. p.at # "taken"
      BY <1>3, SlotIsTyped
    <3> QED BY <3>1, <1>1, <1>2 DEF Types
  <2>2. \A u \in Task \ {t} : place'[u] = place[u] /\ due'[u] = due[u]
    BY <1>1, <1>2 DEF Types
  <2>3. pc' = pc /\ tick' = tick
    BY <1>2 DEF clock
  <2> QED BY <1>1, <1>3, <2>1, <2>2, <2>3 DEF SlotMatchesDue
<1> QED BY <1>4, <1>5, <1>6 DEF Inv

\* The other steps turn no wheel and move no task but to its end.
LEMMA OtherSteps ==
  ASSUME Inv,
         \/ Initialize \/ Start \/ Shutdown \/ \E r \in Ratio : SetTimeRatio(r)
         \/ Round \/ Exit \/ TickOutOfBounds \/ \E t \in Task : RunTask(t)
         \/ FinishTick
         \/ UNCHANGED vars
  PROVE  Inv'
<1>1. Types /\ WheelFollowsClock /\ SlotMatchesDue
  BY DEF Inv
<1>2. Types'
  <2>1. CASE Initialize \/ Start \/ Shutdown \/ Round \/ Exit
    BY <1>1, <2>1, RatioAssumption DEF Types, Initialize, Start, Shutdown, Round, Exit, clock, tasks
  <2>2. CASE \E r \in Ratio : SetTimeRatio(r)
    BY <1>1, <2>2, RatioAssumption DEF Types, SetTimeRatio, tasks
  <2>3. CASE TickOutOfBounds
    BY <1>1, <2>3 DEF Types, TickOutOfBounds, tasks
  <2>5. CASE FinishTick
    <3>1. todo' \in Nat /\ tick' \in Nat /\ pc' \in {"top", "tick"} /\ (pc' = "tick" => todo' # 0)
      BY <1>1, <2>5 DEF Types, FinishTick, EndTick
    <3> QED BY <1>1, <2>5, <3>1 DEF Types, FinishTick, tasks
  <2>6. CASE UNCHANGED vars
    BY <1>1, <2>6 DEF Types, vars, clock, tasks
  <2>4. CASE \E t \in Task : RunTask(t)
    BY <1>1, <2>4, SlotIsTyped DEF Types, RunTask, clock
  <2> QED BY <2>1, <2>2, <2>3, <2>4, <2>5, <2>6
<1>3. WheelFollowsClock'
  <2>1. \/ oob'
        \/ oob' = oob /\ pos' = pos /\ Turned' = Turned
    <3>1. CASE Initialize \/ Start \/ Shutdown \/ Round \/ Exit
      BY <1>1, <3>1 DEF Types, Initialize, Start, Shutdown, Round, Exit, clock, tasks, Turned
    <3>2. CASE \E r \in Ratio : SetTimeRatio(r)
      BY <3>2 DEF SetTimeRatio, tasks, Turned
    <3>3. CASE TickOutOfBounds \/ FinishTick \/ UNCHANGED vars
      BY <1>1, <3>3 DEF Types, TickOutOfBounds, FinishTick, EndTick, vars, clock, tasks, Turned
    <3>4. CASE \E t \in Task : RunTask(t)
      BY <1>1, <3>4 DEF RunTask, clock, Turned
    <3> QED BY <3>1, <3>2, <3>3, <3>4
  <2> QED BY <1>1, <2>1 DEF WheelFollowsClock
<1>4. SlotMatchesDue'
  <2>1. due' = due /\ (place' = place \/ \E t \in Task : place' = [place EXCEPT ![t] = Done])
    BY DEF Initialize, Start, Shutdown, Round, Exit, SetTimeRatio, TickOutOfBounds, FinishTick, RunTask, vars, tasks
  <2>t. \/ pc' = pc /\ tick' = tick
        \/ \A t \in Task : place[t].at # "taken"
    <3>1. CASE FinishTick
      <4>1. \A t \in Task : place[t] \in PlaceT /\ place[t] # Taken
        BY <1>1, <3>1 DEF FinishTick, ListDone, Types
      <4> QED BY <4>1, SlotIsTyped
    <3>2. CASE Initialize \/ Shutdown \/ (\E r \in Ratio : SetTimeRatio(r)) \/ (\E t \in Task : RunTask(t)) \/ UNCHANGED vars
      BY <3>2 DEF Initialize, Shutdown, SetTimeRatio, RunTask, vars, clock
    <3>3. CASE Start \/ Round \/ Exit \/ TickOutOfBounds
      <4>1. pc # "exec"
        BY <1>1, <3>3 DEF Start, Round, Exit, TickOutOfBounds, Types
      <4> QED BY <1>1, <4>1 DEF SlotMatchesDue
    <3> QED BY <3>1, <3>2, <3>3
  <2>2. CASE place' = place
    BY <1>1, <2>1, <2>t, <2>2 DEF SlotMatchesDue
  <2>3. ASSUME NEW t \in Task, place' = [place EXCEPT ![t] = Done]
        PROVE  SlotMatchesDue'
    <3>1. \A u \in Task : place'[u] = place[u] \/ place'[u] = Done
      BY <1>1, <2>3 DEF Types
    <3>2. Done.at = "done"
      BY DEF Done
    <3> QED BY <1>1, <2>1, <2>t, <3>1, <3>2 DEF SlotMatchesDue
  <2> QED BY <2>1, <2>2, <2>3
<1> QED BY <1>2, <1>3, <1>4 DEF Inv

\* Every step keeps the invariant.
LEMMA InvStep == Inv /\ [Next]_vars => Inv'
<1> SUFFICES ASSUME Inv, [Next]_vars PROVE Inv'
  OBVIOUS
<1>1. tick \in Nat /\ MaxDelay \in Nat
  BY BoundAssumption DEF Inv, Types
<1>2. CASE \E t \in Task, d \in 0..(tick + MaxDelay) : ExecuteAt(t, d)
  BY <1>1, <1>2, ExecuteAtStep
<1>3. CASE Tick
  BY <1>3, TickStep
<1> QED BY <1>2, <1>3, OtherSteps DEF Next, LoopStep

(***************************************************************************)
(* The types are kept, for every number and size of wheels; in particular  *)
(* TimerLoop's count of ticks never passes zero.                           *)
(***************************************************************************)
THEOREM TypeCorrect == Spec => []TypeOK
<1>1. Inv => TypeOK
  <2> SUFFICES ASSUME Inv PROVE TypeOK
    OBVIOUS
  <2>1. Types
    BY DEF Inv
  <2>2. \A t \in Task : place[t].at \in {"new", "slot", "map", "taken", "done"}
    BY <2>1, SlotIsTyped DEF Types
  <2> QED BY <2>1, <2>2 DEF Types, TypeOK
<1> QED BY <1>1, InitInv, InvStep, PTL DEF Spec

(***************************************************************************)
(* The first wheel and the clock never drift apart.                        *)
(***************************************************************************)
THEOREM WheelKeepsTime == Spec => []WheelFollowsClock
<1>1. Inv => WheelFollowsClock
  BY DEF Inv
<1> QED BY <1>1, InitInv, InvStep, PTL DEF Spec

(***************************************************************************)
(* For wheels of every number and size, all delays and calls at any        *)
(* moment: every way into the first wheel (ExecuteAt, the borrow functions *)
(* of any number of wheels, the overflow map) leads a task to the slot of  *)
(* its tick, and the thread runs it only at ticks congruent to its own     *)
(* modulo the first wheel.  So it is early or late, as the lost carry and  *)
(* the calls from tasks can make it, by whole turns only.                  *)
(***************************************************************************)
THEOREM TasksKeepTheirSlot == Spec => []SlotMatchesDue
<1>1. Inv => SlotMatchesDue
  BY DEF Inv
<1> QED BY <1>1, InitInv, InvStep, PTL DEF Spec

-----------------------------------------------------------------------------
\* Of the slots within reach, the tick takes exactly those of this tick.
LEMMA ReachTick ==
  ASSUME Inv, Tick, NEW t \in Task, WithinReach(t)
  PROVE  IF due[t] = tick THEN Moved(t) = Taken
         ELSE Moved(t) = place[t] /\ tick + 1 <= due[t] /\ due[t] < tick + WheelSize[1]
<1> DEFINE W == WheelSize[1]
           d == due[t]
<1>0. W \in Nat \ {0} /\ tick \in Nat /\ d \in Nat
  BY WheelFacts DEF Inv, Types
<1>1. pos[1] = tick % W /\ Turned = tick
  BY DEF Inv, Types, WheelFollowsClock, Tick, Turned
<1>2. place[t].at = "slot" /\ place[t].wheel = 1 /\ place[t] = Slot(1, d % W) /\ tick <= d /\ d < tick + W
  BY <1>1 DEF WithinReach, Slot
<1> HIDE DEF W, d
<1>3. CASE d = tick
  <2>1. place[t] = Slot(1, pos[1])
    BY <1>1, <1>2, <1>3
  <2>2. Moved(t) = Taken
    BY <1>2, <2>1 DEF Moved
  <2> QED BY <1>3, <2>2 DEF d
<1>4. CASE d # tick
  <2>1. d % W # tick % W
    BY <1>0, <1>2, <1>4, SameResidue
  <2>2. place[t] # Slot(1, pos[1])
    BY <1>1, <1>2, <2>1 DEF Slot
  <2>3. Moved(t) = place[t]
    BY <1>2, <2>2 DEF Moved
  <2>4. tick + 1 <= d
    BY <1>0, <1>2, <1>4
  <2> QED BY <1>2, <1>4, <2>3, <2>4 DEF W, d
<1> QED BY <1>3, <1>4

\* A task less than one turn ahead goes into the slot of its tick.
LEMMA NearIsReached ==
  ASSUME Inv, NEW t \in Task, NEW d \in Nat, ExecuteAt(t, d), Turned <= d, d < tick + WheelSize[1]
  PROVE  WithinReach(t)'
<1>0. Types /\ tick \in Nat /\ WheelSize[1] \in Nat \ {0}
  BY WheelFacts DEF Inv, Types
<1>1. due' = [due EXCEPT ![t] = d] /\ place' = [place EXCEPT ![t] = IF d < tick THEN Done ELSE PlaceFor(d)]
      /\ tick' = tick /\ pc' = pc
  BY DEF ExecuteAt, clock
<1>2. Turned' = Turned /\ Turned \in {tick, tick + 1}
  BY <1>1 DEF Turned
<1>3. tick <= d /\ d - tick < WheelSize[1] /\ d < Turned + WheelSize[1]
  BY <1>0, <1>2
<1>4. PlaceFor(d) = Slot(1, d % WheelSize[1])
  <2>1. PICK n \in Nat : n = tick
    BY <1>0
  <2> QED BY <1>3, <2>1, PlaceForIs
<1>5. place'[t] = Slot(1, d % WheelSize[1]) /\ due'[t] = d
  BY <1>0, <1>1, <1>3, <1>4 DEF Types
<1> QED BY <1>2, <1>3, <1>5 DEF WithinReach

\* What a step does to a task: ExecuteAt places it, a tick moves it, RunTask
\* ends it once it is taken, and the clock stands still where it would matter.
LEMMA StepsOfTask ==
  ASSUME Inv, [Next]_vars, NEW t \in Task
  PROVE  \/ \E d \in Nat : ExecuteAt(t, d) /\ place[t] = New /\ due'[t] = d
         \/ Tick /\ place'[t] = Moved(t) /\ due'[t] = due[t]
         \/ place[t] = Taken /\ place'[t] = Done /\ due'[t] = due[t]
         \/ place'[t] = place[t] /\ due'[t] = due[t] /\ Turned' = Turned
<1>0. Types /\ tick \in Nat /\ MaxDelay \in Nat
  BY BoundAssumption DEF Inv, Types
<1>1. CASE Tick
  BY <1>1 DEF Tick
<1>2. CASE \E u \in Task, d \in 0..(tick + MaxDelay) : ExecuteAt(u, d)
  <2> PICK u \in Task, d \in 0..(tick + MaxDelay) : ExecuteAt(u, d)
    BY <1>2
  <2>1. /\ due' = [due EXCEPT ![u] = d] /\ tick' = tick /\ pc' = pc /\ place[u] = New /\ d \in Nat
        /\ place' = [place EXCEPT ![u] = IF d < tick THEN Done ELSE PlaceFor(d)]
    BY <1>0 DEF ExecuteAt, clock
  <2>2. CASE u = t
    <3>1. due'[t] = d
      BY <1>0, <2>1, <2>2 DEF Types
    <3> QED BY <2>1, <2>2, <3>1
  <2>3. CASE u # t
    <3>1. due'[t] = due[t] /\ place'[t] = place[t] /\ Turned' = Turned
      BY <1>0, <2>1, <2>3 DEF Types, Turned
    <3> QED BY <3>1
  <2> QED BY <2>2, <2>3
<1>3. CASE \E u \in Task : RunTask(u)
  <2> PICK u \in Task : RunTask(u)
    BY <1>3
  <2>1. place' = [place EXCEPT ![u] = Done] /\ place[u] = Taken /\ due' = due /\ Turned' = Turned
    BY DEF RunTask, clock, Turned
  <2>2. place'[t] = IF u = t THEN Done ELSE place[t]
    BY <1>0, <2>1 DEF Types
  <2> QED BY <2>1, <2>2
<1>4. CASE FinishTick
  BY <1>4 DEF FinishTick, EndTick, Turned, tasks
<1>5. CASE TickOutOfBounds
  BY <1>5 DEF TickOutOfBounds, Turned, tasks
<1>6. CASE Initialize \/ Start \/ Shutdown \/ (\E r \in Ratio : SetTimeRatio(r)) \/ Round \/ Exit \/ UNCHANGED vars
  BY <1>0, <1>6 DEF Types, Initialize, Start, Shutdown, SetTimeRatio, Round, Exit, vars, clock, tasks, Turned
<1> QED BY <1>1, <1>2, <1>3, <1>4, <1>5, <1>6 DEF Next, LoopStep

(***************************************************************************)
(* For wheels of every number and size, all delays and ratios and calls at *)
(* any moment: a task submitted less than one turn of the first wheel      *)
(* ahead, for a tick that wheel has not turned past, is taken exactly at   *)
(* its tick, and so is a task of a higher wheel or the map once it is      *)
(* within reach.  It says nothing of a task a task submits for its own     *)
(* tick, nor of the way through the higher wheels.                         *)
(***************************************************************************)
THEOREM NearTasksRunAtTheirTick == Spec => NearTasksArePrompt
<1>1. ASSUME Inv, [Next]_vars, NEW t \in Task
      PROVE  /\ (place[t] = New /\ place'[t] # New /\ Turned <= due'[t] /\ due'[t] < tick + WheelSize[1])
                  => WithinReach(t)'
             /\ WithinReach(t) => WithinReach(t)' \/ (place'[t] = Taken /\ due'[t] = due[t] /\ due[t] = tick')
  <2>0. Types /\ tick \in Nat /\ due[t] \in Nat /\ WheelSize[1] \in Nat \ {0}
    BY <1>1, WheelFacts DEF Inv, Types
  <2>r. WithinReach(t) => place[t].at = "slot"
    BY DEF WithinReach, Slot
  <2>1. CASE \E d \in Nat : ExecuteAt(t, d) /\ place[t] = New /\ due'[t] = d
    <3> PICK d \in Nat : ExecuteAt(t, d) /\ place[t] = New /\ due'[t] = d
      BY <2>1
    <3>1. Turned <= d /\ d < tick + WheelSize[1] => WithinReach(t)'
      BY <1>1, NearIsReached
    <3>2. ~WithinReach(t)
      BY <2>r DEF New
    <3> QED BY <3>1, <3>2
  <2>2. CASE Tick /\ place'[t] = Moved(t) /\ due'[t] = due[t]
    <3>1. place[t] = New => Moved(t) = New
      BY DEF New, Slot, Moved
    <3>2. ASSUME WithinReach(t)
          PROVE  WithinReach(t)' \/ (place'[t] = Taken /\ due'[t] = due[t] /\ due[t] = tick')
      <4>1. CASE due[t] = tick
        <5>1. Moved(t) = Taken
          BY <1>1, <2>2, <3>2, <4>1, ReachTick
        <5>2. tick' = tick
          BY <2>2, <5>1 DEF Tick
        <5> QED BY <2>2, <4>1, <5>1, <5>2
      <4>2. CASE due[t] # tick
        <5>1. Moved(t) = place[t] /\ tick + 1 <= due[t] /\ due[t] < tick + WheelSize[1]
          BY <1>1, <2>2, <3>2, <4>2, ReachTick
        <5>2. Turned' = tick + 1
          BY <2>0, <2>2 DEF Tick, EndTick, Turned, Types
        <5>3. due[t] < tick + 1 + WheelSize[1]
          BY <2>0, <5>1
        <5> QED BY <2>2, <3>2, <5>1, <5>2, <5>3 DEF WithinReach
      <4> QED BY <4>1, <4>2
    <3> QED BY <2>2, <3>1, <3>2
  <2>3. CASE place[t] = Taken /\ place'[t] = Done /\ due'[t] = due[t]
    BY <2>3, <2>r DEF Taken, New
  <2>4. CASE place'[t] = place[t] /\ due'[t] = due[t] /\ Turned' = Turned
    BY <2>4 DEF WithinReach
  <2> QED BY <1>1, <2>1, <2>2, <2>3, <2>4, StepsOfTask
<1>2. Inv /\ [Next]_vars =>
        [\A t \in Task :
           /\ (place[t] = New /\ place'[t] # New /\ Turned <= due'[t] /\ due'[t] < tick + WheelSize[1])
                => WithinReach(t)'
           /\ WithinReach(t) => WithinReach(t)' \/ (place'[t] = Taken /\ due'[t] = due[t] /\ due[t] = tick')]_vars
  BY <1>1
<1> QED BY <1>2, InitInv, InvStep, PTL DEF Spec, NearTasksArePrompt
===============================================================================
