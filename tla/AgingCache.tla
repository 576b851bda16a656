------------------------------ MODULE AgingCache ------------------------------
(***************************************************************************)
(* What LocalCache promises: values that age and that nobody gets after    *)
(* Ttl, and a bound on their number kept by giving up those that were used *)
(* least recently.  There are no lists, and no clock: `before` is the      *)
(* order of the last uses, an age is counted up to Ttl + 1 (expired).      *)
(***************************************************************************)
EXTENDS Naturals, FiniteSets

CONSTANTS Key, Value, Moved, Nullopt, Capacity, CleanSize, Ttl

VARIABLES
  entry,   \* from the keys kept to [val, age]
  before,  \* pairs of kept keys, the first one used earlier
  ret

vars == <<entry, before, ret>>

Kept == DOMAIN entry
Fresh == {k \in Kept : entry[k].age <= Ttl}
Target == IF CleanSize >= Capacity THEN (9 * Capacity) \div 10 ELSE CleanSize

Init == Kept = {} /\ before = {} /\ ret = Nullopt

\* Of what was kept, the keys of ks are kept on.
KeepOnly(ks) ==
  /\ entry' = [k \in ks |-> entry[k]]
  /\ before' = before \cap (ks \X ks)

\* k becomes the one used last of ks.
UsedLast(order, ks, k) ==
  {p \in order : k \notin {p[1], p[2]}} \cup ((ks \ {k}) \X {k})

\* What a clean-up of the keys ks, used in that order, leaves: the fresh ones
\* when they are few enough, and otherwise Target of them, such that none of
\* those given up was used after one of those kept.
Left(order, ks, fresh, kept) ==
  /\ kept \subseteq fresh
  /\ IF Cardinality(fresh) <= Target THEN kept = fresh
     ELSE /\ Cardinality(kept) = Target
          /\ \A x \in kept, y \in fresh \ kept : <<y, x>> \in order

Get(k) ==
  /\ entry' = [x \in Fresh |-> entry[x]]
  /\ IF k \in Fresh
     THEN /\ before' = UsedLast(before \cap (Fresh \X Fresh), Fresh, k)
          /\ ret' = entry[k].val
     ELSE /\ before' = before \cap (Fresh \X Fresh)
          /\ ret' = Nullopt

\* A present key is given the value, whatever its age (or loses its value).
Reload(k, v) ==
  /\ k \in Kept
  /\ entry' = [entry EXCEPT ![k] = [val |-> v, age |-> 0]]
  /\ before' = UsedLast(before, Kept, k)
  /\ ret' = Nullopt

Insert(k, v) ==
  /\ k \notin Kept
  /\ LET ks == Kept \cup {k}
         order == UsedLast(before, ks, k)
         new == [x \in ks |-> IF x = k THEN [val |-> v, age |-> 0] ELSE entry[x]]
     IN \E kept \in SUBSET ks :
          /\ IF Cardinality(ks) < Capacity THEN kept = ks
             ELSE Left(order, ks, Fresh \cup {k}, kept)
          /\ entry' = [x \in kept |-> new[x]]
          /\ before' = order \cap (kept \X kept)
  /\ ret' = Nullopt

Shrink == /\ \E kept \in SUBSET Fresh : Left(before, Kept, Fresh, kept) /\ KeepOnly(kept)
          /\ ret' = Nullopt

Forget == /\ \E ks \in {{}, Fresh} \cup {Fresh \ {k} : k \in Key} : KeepOnly(ks)
          /\ ret' = Nullopt

Grow == /\ entry' = [k \in Kept |->
                       [entry[k] EXCEPT !.age = IF @ <= Ttl THEN @ + 1 ELSE @]]
        /\ UNCHANGED <<before, ret>>

Next ==
  \/ \E k \in Key : \/ Get(k)
                    \/ \E v \in Value : Insert(k, v)
                    \/ \E v \in Value \cup {Moved} : Reload(k, v)
  \/ Shrink \/ Forget \/ Grow

Spec == Init /\ [][Next]_vars
=============================================================================
