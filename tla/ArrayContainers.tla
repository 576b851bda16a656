---------------------------- MODULE ArrayContainers ----------------------------
(***************************************************************************)
(* The containers that keep their values in an array, for one thread: the  *)
(* binary heap of container/heap.hpp, a vector (index i of the code is     *)
(* position i + 1 of the sequence a), and the ring buffer of               *)
(* container/ring_buf.hpp.  Elements of the ring are elem bytes long: the  *)
(* copies over the end of the array count the second part as               *)
(* `len - tmp_size * sizeof(T)` bytes.                                     *)
(***************************************************************************)
EXTENDS Integers, Sequences, FiniteSets

CONSTANTS
  Value,     \* the values in the heap, integers
  MaxSize,   \* bound: values in the heap
  Item,      \* the values in the ring
  BufSize    \* BUF_SIZE

VARIABLES
  a,        \* container_
  isMin,    \* is_min_heap_
  held,     \* history: how often each value is in the heap
  content,   \* content_, from index 0
  wpos, rpos,
  elem,      \* sizeof(T)
  fifo,      \* history: what was put in and not taken out
  strayed    \* a PushArray ended at the last element, or copied a wrong number of bytes

hvars == <<a, isMin, held>>

NoneHeld == [v \in Value |-> 0]
Count(s) == [v \in Value |-> Cardinality({i \in DOMAIN s : s[i] = v})]

HeapInit == a = <<>> /\ isMin \in BOOLEAN /\ held = NoneHeld

LeftChildIndex(i) == 2 * i + 1
ParentIndex(i) == (i - 1) \div 2

\* x stands above y: "(y > x) ^ is_min_heap_" is true of the pair
\* (also of equal values in a smallest-first heap, which are exchanged).
Rises(y, x) == (y > x) # isMin

Swap(s, i, j) == [s EXCEPT ![i + 1] = s[j + 1], ![j + 1] = s[i + 1]]

\* Mutant of Chosen: the left child whatever the right one is.
ChosenLeft(s, child, len) == child

\* The child that rises above the other.
Chosen(s, child, len) ==
  IF child + 1 < len /\ Rises(s[child + 2], s[child + 1]) THEN child + 1 ELSE child

\* One turn of the loop of AdjustDown: at is a vector and an index, whose
\* value goes below the child that rises above it.
Lowered(at, len) ==
  LET left == LeftChildIndex(at[2])
      child == Chosen(at[1], left, len)
  IN IF left < len /\ Rises(at[1][child + 1], at[1][at[2] + 1]) THEN <<Swap(at[1], child, at[2]), child>> ELSE at

\* The value at index i sinks among the first len ones; a turn that moves
\* nothing is the last one.
AdjustDown(s, i, len) ==
  LET turn[k \in 0..len] == IF k = 0 THEN <<s, i>> ELSE Lowered(turn[k - 1], len)
  IN turn[len][1]

Raised(at) ==
  LET parent == ParentIndex(at[2])
  IN IF at[2] > 0 /\ Rises(at[1][at[2] + 1], at[1][parent + 1]) THEN <<Swap(at[1], at[2], parent), parent>> ELSE at

AdjustUp(s, i) ==
  LET turn[k \in 0..i] == IF k = 0 THEN <<s, i>> ELSE Raised(turn[k - 1])
  IN turn[i][1]

\* From the last inner value to the first.
Adjust(s) ==
  LET inner == Len(s) \div 2
      pass[k \in 0..inner] == IF k = 0 THEN s ELSE AdjustDown(pass[k - 1], inner - k, Len(s))
  IN pass[inner]

HeapPush(v) ==
  /\ Len(a) < MaxSize
  /\ a' = AdjustUp(Append(a, v), Len(a))
  /\ held' = [held EXCEPT ![v] = @ + 1]
  /\ UNCHANGED isMin

HeapPop ==
  /\ a # <<>>
  /\ a' = LET s == SubSeq(Swap(a, 0, Len(a) - 1), 1, Len(a) - 1) IN AdjustDown(s, 0, Len(s))
  /\ held' = [held EXCEPT ![a[1]] = @ - 1]
  /\ UNCHANGED isMin

\* An array of one value is left out: the loop of Adjust starts at
\* (size - 2) / 2 of unsigned numbers and counts down from 2^63.
Assign(s) ==
  /\ Len(s) # 1
  /\ a' = Adjust(s)
  /\ held' = Count(s)
  /\ UNCHANGED isMin

\* What Sort makes of the vector: the first value goes behind the others, k times.
Sorted(s) ==
  LET pass[k \in 0..(Len(s) - 1)] ==
        IF k = 0 THEN s ELSE AdjustDown(Swap(pass[k - 1], 0, Len(s) - k), 0, Len(s) - k)
  IN pass[Len(s) - 1]

\* (The loop starts at size - 1, which wraps on an empty heap.)
Sort ==
  /\ a # <<>>
  /\ a' = Sorted(a)
  /\ isMin' = ~isMin
  /\ UNCHANGED held

HeapNext ==
  \/ \E v \in Value : HeapPush(v)
  \/ HeapPop
  \/ \E n \in 0..MaxSize : \E s \in [1..n -> Value] : Assign(s)
  \/ Sort

HeapSpec == HeapInit /\ [][HeapNext]_hvars

-----------------------------------------------------------------------------
\* The vector is a heap of the kind it says and holds what was put in and
\* not taken out: its first value is one that no other rises above, so a
\* pop takes a smallest (largest) one, also after Sort has turned the kind.
HeapHolds ==
  /\ Count(a) = held
  /\ \A i \in 1..(Len(a) - 1) :
       IF isMin THEN a[i + 1] >= a[ParentIndex(i) + 1] ELSE a[i + 1] <= a[ParentIndex(i) + 1]

-----------------------------------------------------------------------------
ringvars == <<content, wpos, rpos, elem, fifo, strayed>>

RingInit ==
  /\ content \in [0..(BufSize - 1) -> {CHOOSE x \in Item : TRUE}]
  /\ wpos = 0 /\ rpos = 0
  /\ elem \in {1, 4}
  /\ fifo = <<>>
  /\ strayed = FALSE

Empty == wpos = rpos
Full == IF wpos >= rpos THEN wpos - rpos = BufSize - 1 ELSE rpos - wpos = 1
RingCapacity == BufSize - 1
Size == IF wpos >= rpos THEN wpos - rpos ELSE wpos + BufSize - rpos
UnusedCapacity == IF wpos >= rpos THEN BufSize + rpos - wpos - 1 ELSE rpos - wpos - 1

Wrapped(p) == IF p < BufSize THEN p ELSE p - BufSize

RingPush(x) ==
  /\ ~strayed
  /\ IF Full THEN UNCHANGED <<content, wpos, fifo>>
     ELSE /\ content' = [content EXCEPT ![wpos] = x]
          /\ wpos' = Wrapped(wpos + 1)
          /\ fifo' = Append(fifo, x)
  /\ UNCHANGED <<rpos, elem, strayed>>

PopArray(len) ==
  /\ ~strayed
  /\ IF len > Size THEN UNCHANGED <<rpos, fifo>>
     ELSE rpos' = Wrapped(rpos + len) /\ fifo' = SubSeq(fifo, len + 1, Len(fifo))
  /\ UNCHANGED <<content, wpos, elem, strayed>>

RingPop ==
  /\ ~strayed
  /\ IF Empty THEN UNCHANGED <<rpos, fifo>> ELSE rpos' = Wrapped(rpos + 1) /\ fifo' = Tail(fifo)
  /\ UNCHANGED <<content, wpos, elem, strayed>>

\* The bytes of the second part of a copy of len elements over the end of
\* the array, when the first part has first ones.
SecondPart(len, first) == len - first * elem

\* The first wpos + len <= BUF_SIZE case never wraps wpos, not even at the end.
PushArray(s) ==
  LET len == Len(s)
      first == BufSize - wpos
      straight == wpos + len <= BufSize
  IN /\ ~strayed /\ len > 0
     /\ IF len > UnusedCapacity THEN UNCHANGED <<content, wpos, fifo, strayed>>
        ELSE /\ content' = [i \in 0..(BufSize - 1) |->
                              IF i >= wpos /\ i < wpos + len THEN s[i - wpos + 1]
                              ELSE IF ~straight /\ i < len - first THEN s[i + first + 1] ELSE content[i]]
             /\ wpos' = IF straight THEN wpos + len ELSE len - first
             /\ fifo' = fifo \o s
             /\ strayed' = IF straight THEN wpos + len = BufSize ELSE SecondPart(len, first) # (len - first) * elem
     /\ UNCHANGED <<rpos, elem>>

Clear == ~strayed /\ wpos' = 0 /\ rpos' = 0 /\ fifo' = <<>> /\ UNCHANGED <<content, elem, strayed>>

RingNext ==
  \/ \E x \in Item : RingPush(x)
  \/ RingPop
  \/ \E len \in 0..BufSize : PopArray(len)
  \/ \E n \in 1..BufSize : \E s \in [1..n -> Item] : PushArray(s)
  \/ Clear

RingSpec == RingInit /\ [][RingNext]_ringvars

-----------------------------------------------------------------------------
Get(pos) == content[Wrapped(rpos + pos)]

\* GetArray, and TopArray with pos = 0: the elements it returns, or
\* "undefined" when the second part has a wrong (or negative) length.
GetArray(pos, len) ==
  LET from == Wrapped(rpos + pos)
      first == BufSize - from
  IN IF from + len <= wpos \/ (len >= first /\ SecondPart(len, first) = (len - first) * elem)
     THEN [i \in 1..len |-> content[Wrapped(from + i - 1)]]
     ELSE "undefined"
TopArray(len) == GetArray(0, len)

\* The buffer is the queue of its history as long as it has not strayed,
\* and what GetArray returns, where it is defined, is a part of that queue.
RingIsFifo ==
  ~strayed =>
    /\ Size = Len(fifo) /\ Size + UnusedCapacity = RingCapacity
    /\ Empty = (fifo = <<>>) /\ Full = (Len(fifo) = RingCapacity)
    /\ \A pos \in 0..(Size - 1) : Get(pos) = fifo[pos + 1]
    /\ TopArray(Size) \in {fifo, "undefined"}
    /\ \A pos \in 0..(Size - 1) : \A len \in 1..(Size - pos) :
         GetArray(pos, len) \in {SubSeq(fifo, pos + 1, pos + len), "undefined"}
=============================================================================
