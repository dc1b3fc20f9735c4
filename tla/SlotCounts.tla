------------------------------ MODULE SlotCounts ------------------------------
(* How many requests wait at certain steps.  The bounds of the flows that      *)
(* check a limit first and count later rest on these numbers.                  *)
EXTENDS Naturals, FiniteSetTheorems, TLAPS

(* The slots that `at` puts at one of the steps S, and their number.           *)
At(at, S) == {r \in DOMAIN at : at[r] \in S}
Number(at, S) == Cardinality(At(at, S))

(* There are finitely many, and no more than slots.                            *)
LEMMA Sized ==
    ASSUME NEW R, IsFiniteSet(R), NEW W, NEW at \in [R -> W], NEW S
    PROVE  /\ IsFiniteSet(At(at, S))
           /\ Number(at, S) \in Nat /\ Cardinality(R) \in Nat
           /\ Number(at, S) <= Cardinality(R)
<1>1. At(at, S) \in SUBSET R
    BY DEF At
<1> QED
    BY <1>1, FS_Subset, FS_CardinalityType DEF Number

(* A slot that is not among them leaves room for itself.                       *)
LEMMA Room ==
    ASSUME NEW R, IsFiniteSet(R), NEW W, NEW at \in [R -> W], NEW S,
           NEW r \in R, at[r] \notin S
    PROVE  Number(at, S) + 1 <= Cardinality(R)
<1>1. At(at, S) \in SUBSET (R \ {r})
    BY DEF At
<1>2. IsFiniteSet(R \ {r}) /\ Cardinality(R \ {r}) = Cardinality(R) - 1
    BY FS_RemoveElement
<1>3. Number(at, S) <= Cardinality(R) - 1
    BY <1>1, <1>2, FS_Subset DEF Number
<1> QED
    BY <1>3, Sized

(* One slot moves in.                                                          *)
LEMMA Enters ==
    ASSUME NEW R, IsFiniteSet(R), NEW W, NEW at \in [R -> W], NEW next \in [R -> W],
           NEW S, NEW r \in R, at[r] \notin S, next[r] \in S,
           \A q \in R : q # r => next[q] = at[q]
    PROVE  Number(next, S) = Number(at, S) + 1
<1>1. At(next, S) = At(at, S) \cup {r} /\ r \notin At(at, S)
    BY DEF At
<1>2. IsFiniteSet(At(at, S))
    BY Sized
<1> QED
    BY <1>1, <1>2, FS_AddElement DEF Number

(* One slot moves out.                                                         *)
LEMMA Leaves ==
    ASSUME NEW R, IsFiniteSet(R), NEW W, NEW at \in [R -> W], NEW next \in [R -> W],
           NEW S, NEW r \in R, at[r] \in S, next[r] \notin S,
           \A q \in R : q # r => next[q] = at[q]
    PROVE  Number(next, S) = Number(at, S) - 1
<1>1. At(next, S) = At(at, S) \ {r} /\ r \in At(at, S)
    BY DEF At
<1>2. IsFiniteSet(At(at, S))
    BY Sized
<1> QED
    BY <1>1, <1>2, FS_RemoveElement DEF Number

(* Nobody moves in.                                                            *)
LEMMA Fewer ==
    ASSUME NEW R, IsFiniteSet(R), NEW W, NEW at \in [R -> W], NEW S,
           NEW next, At(next, S) \subseteq At(at, S)
    PROVE  Number(next, S) <= Number(at, S)
<1>1. IsFiniteSet(At(at, S))
    BY Sized
<1> QED
    BY <1>1, FS_Subset DEF Number

(* Steps that exclude each other.                                              *)
LEMMA Apart ==
    ASSUME NEW R, IsFiniteSet(R), NEW W, NEW at \in [R -> W],
           NEW S, NEW T, S \cap T = {}
    PROVE  Number(at, S \cup T) = Number(at, S) + Number(at, T)
<1>1. At(at, S \cup T) = At(at, S) \cup At(at, T) /\ At(at, S) \cap At(at, T) = {}
    BY DEF At
<1>2. IsFiniteSet(At(at, S)) /\ IsFiniteSet(At(at, T))
    BY Sized
<1>3. Cardinality(At(at, S) \cup At(at, T)) =
          Cardinality(At(at, S)) + Cardinality(At(at, T)) - Cardinality(At(at, S) \cap At(at, T))
    BY <1>2, FS_Union
<1>4. Cardinality(At(at, S) \cap At(at, T)) = 0
    BY <1>1, FS_EmptySet
<1>5. Number(at, S \cup T) = Number(at, S) + Number(at, T) - 0
    BY <1>1, <1>3, <1>4 DEF Number
<1> QED
    BY <1>5, Sized

(* Nobody is left when all have stopped.                                       *)
LEMMA NobodyAt ==
    ASSUME NEW at, NEW S, \A r \in DOMAIN at : at[r] \notin S
    PROVE  Number(at, S) = 0
<1>1. At(at, S) = {}
    BY DEF At
<1> QED
    BY <1>1, FS_EmptySet DEF Number

(* What n faults may lose when each loses what every one of m slots holds.     *)
LEMMA LossGrows ==
    ASSUME NEW n \in Nat, NEW m \in Nat
    PROVE  n * m \in Nat /\ (n + 1) * m = n * m + m
OBVIOUS

-------------------------------------------------------------------------------
(* A limit that is checked first and counted later: n things have been done,   *)
(* some of them are counted, the slots at C still have to count one, the slots *)
(* at A are past the guard and may each do one more, and faults have lost some *)
(* counts.  While the guard admits below the limit only, the limit is exceeded *)
(* by the other slots at most, and by what was lost.                           *)
CountsLater(n, count, limit, at, A, C, lost) ==
    /\ n <= count + Number(at, C) + lost
    /\ n + Number(at, A) + 1 <= limit + Cardinality(DOMAIN at) + lost

(* When the history starts anew, the bounds hold wherever the slots are.       *)
LEMMA NoneDone ==
    ASSUME NEW R, IsFiniteSet(R), NEW W, NEW at \in [R -> W], NEW A, NEW C,
           NEW limit \in Nat \ {0}, NEW count \in Nat, NEW lost \in Nat
    PROVE  CountsLater(0, count, limit, at, A, C, lost)
BY Sized DEF CountsLater

(* Nothing is done, nobody is admitted, and nobody leaves without counting.    *)
LEMMA NothingDone ==
    ASSUME NEW R, IsFiniteSet(R), NEW W, NEW at \in [R -> W], NEW next \in [R -> W],
           NEW A, NEW C, NEW limit \in Nat \ {0}, NEW n \in Nat,
           NEW count \in Nat, NEW counted \in Nat, NEW lost \in Nat,
           CountsLater(n, count, limit, at, A, C, lost),
           counted >= count,
           At(next, A) \subseteq At(at, A), At(at, C) \subseteq At(next, C)
    PROVE  CountsLater(n, counted, limit, next, A, C, lost)
<1>1. /\ DOMAIN at = R /\ DOMAIN next = R
      /\ Cardinality(R) \in Nat
      /\ Number(at, A) \in Nat /\ Number(next, A) \in Nat
      /\ Number(at, C) \in Nat /\ Number(next, C) \in Nat
    BY Sized
<1>2. Number(next, A) <= Number(at, A) /\ Number(at, C) <= Number(next, C)
    BY Fewer
<1> QED
    BY <1>1, <1>2 DEF CountsLater

(* The same when a fault loses what every slot has to count.                   *)
LEMMA CountsLost ==
    ASSUME NEW R, IsFiniteSet(R), NEW W, NEW at \in [R -> W], NEW next \in [R -> W],
           NEW A, NEW C, NEW limit \in Nat \ {0}, NEW n \in Nat,
           NEW count \in Nat, NEW counted \in Nat, NEW lost \in Nat,
           CountsLater(n, count, limit, at, A, C, lost),
           counted >= count, At(next, A) \subseteq At(at, A)
    PROVE  CountsLater(n, counted, limit, next, A, C, lost + Cardinality(R))
<1>1. /\ DOMAIN at = R /\ DOMAIN next = R
      /\ Cardinality(R) \in Nat
      /\ Number(at, A) \in Nat /\ Number(next, A) \in Nat
      /\ Number(at, C) \in Nat /\ Number(next, C) \in Nat /\ Number(at, C) <= Cardinality(R)
    BY Sized
<1>2. Number(next, A) <= Number(at, A)
    BY Fewer
<1> QED
    BY <1>1, <1>2 DEF CountsLater

(* And when everything is counted.                                             *)
LEMMA AllCounted ==
    ASSUME NEW R, IsFiniteSet(R), NEW W, NEW at \in [R -> W], NEW next \in [R -> W],
           NEW A, NEW C, NEW limit \in Nat \ {0}, NEW n \in Nat,
           NEW count \in Nat, NEW counted \in Nat, NEW lost \in Nat,
           CountsLater(n, count, limit, at, A, C, lost),
           counted >= n, At(next, A) \subseteq At(at, A)
    PROVE  CountsLater(n, counted, limit, next, A, C, lost)
<1>1. /\ DOMAIN at = R /\ DOMAIN next = R
      /\ Cardinality(R) \in Nat
      /\ Number(at, A) \in Nat /\ Number(next, A) \in Nat /\ Number(next, C) \in Nat
    BY Sized
<1>2. Number(next, A) <= Number(at, A)
    BY Fewer
<1> QED
    BY <1>1, <1>2 DEF CountsLater

(* The guard lets one slot past: the count is below the limit.                 *)
LEMMA OneAdmitted ==
    ASSUME NEW R, IsFiniteSet(R), NEW W, NEW at \in [R -> W], NEW next \in [R -> W],
           NEW A, NEW C, A \cap C = {}, NEW limit \in Nat \ {0},
           NEW n \in Nat, NEW count \in Nat, NEW lost \in Nat, count < limit,
           CountsLater(n, count, limit, at, A, C, lost),
           NEW r \in R, \A q \in R : q # r => next[q] = at[q],
           at[r] \notin A, at[r] \notin C, next[r] \in A
    PROVE  CountsLater(n, count, limit, next, A, C, lost)
<1>1. /\ DOMAIN at = R /\ DOMAIN next = R
      /\ Cardinality(R) \in Nat
      /\ Number(at, A) \in Nat /\ Number(at, C) \in Nat /\ Number(next, C) \in Nat
    BY Sized
<1>2. Number(next, A) = Number(at, A) + 1
    BY Enters
<1>3. At(at, C) \subseteq At(next, C)
    BY DEF At
<1>4. Number(at, C) <= Number(next, C)
    BY <1>3, Fewer
<1>5. Number(at, A \cup C) = Number(at, A) + Number(at, C)
    BY Apart
<1>6. Number(at, A \cup C) + 1 <= Cardinality(R)
    BY Room
<1> QED
    BY <1>1, <1>2, <1>4, <1>5, <1>6 DEF CountsLater

(* One that was admitted does it, and has to count it, or all is counted.      *)
LEMMA OneDone ==
    ASSUME NEW R, IsFiniteSet(R), NEW W, NEW at \in [R -> W], NEW next \in [R -> W],
           NEW A, NEW C, NEW limit \in Nat \ {0},
           NEW n \in Nat, NEW count \in Nat, NEW counted \in Nat, NEW lost \in Nat,
           counted >= count,
           CountsLater(n, count, limit, at, A, C, lost),
           NEW r \in R, \A q \in R : q # r => next[q] = at[q],
           at[r] \in A, at[r] \notin C, next[r] \notin A, next[r] \in C
    PROVE  CountsLater(n + 1, counted, limit, next, A, C, lost)
<1>1. /\ DOMAIN at = R /\ DOMAIN next = R
      /\ Cardinality(R) \in Nat
      /\ Number(at, A) \in Nat /\ Number(at, C) \in Nat
    BY Sized
<1>2. Number(next, A) = Number(at, A) - 1
    BY Leaves
<1>3. Number(next, C) = Number(at, C) + 1
    BY Enters
<1> QED
    BY <1>1, <1>2, <1>3 DEF CountsLater

(* One counts what it did.                                                     *)
LEMMA OneCounted ==
    ASSUME NEW R, IsFiniteSet(R), NEW W, NEW at \in [R -> W], NEW next \in [R -> W],
           NEW A, NEW C, NEW limit \in Nat \ {0},
           NEW n \in Nat, NEW count \in Nat, NEW lost \in Nat,
           CountsLater(n, count, limit, at, A, C, lost),
           NEW r \in R, \A q \in R : q # r => next[q] = at[q],
           at[r] \in C, next[r] \notin C, next[r] \notin A
    PROVE  CountsLater(n, count + 1, limit, next, A, C, lost)
<1>1. /\ DOMAIN at = R /\ DOMAIN next = R
      /\ Cardinality(R) \in Nat
      /\ Number(at, A) \in Nat /\ Number(next, A) \in Nat /\ Number(at, C) \in Nat
    BY Sized
<1>2. Number(next, C) = Number(at, C) - 1
    BY Leaves
<1>3. At(next, A) \subseteq At(at, A)
    BY DEF At
<1>4. Number(next, A) <= Number(at, A)
    BY <1>3, Fewer
<1> QED
    BY <1>1, <1>2, <1>4 DEF CountsLater

(* What it all comes to.                                                       *)
LEMMA LimitExceeded ==
    ASSUME NEW R, IsFiniteSet(R), NEW W, NEW at \in [R -> W], NEW A, NEW C,
           NEW limit \in Nat, NEW n \in Nat, NEW count \in Nat, NEW lost \in Nat,
           CountsLater(n, count, limit, at, A, C, lost)
    PROVE  n <= limit + (Cardinality(R) - 1) + lost
<1>1. DOMAIN at = R /\ Cardinality(R) \in Nat /\ Number(at, A) \in Nat
    BY Sized
<1> QED
    BY <1>1 DEF CountsLater
===============================================================================
