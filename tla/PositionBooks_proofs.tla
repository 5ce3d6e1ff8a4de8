------------------------- MODULE PositionBooks_proofs -------------------------
(***************************************************************************)
(* Proofs about PositionBooks, with and without its history, for every set  *)
(* of symbols, orders of any size and every bound of the environment.       *)
(*                                                                         *)
(* What orders add up to is a fold, and flattenAll a loop: both are         *)
(* described by induction over the natural numbers, which is itself proved  *)
(* from the least number of a set (Sums, Loop).  An array is then judged by *)
(* the signed position it has of each symbol (Val), which UpdatePosition    *)
(* changes by the order and nothing else (UpdatePositionAdds).              *)
(***************************************************************************)
EXTENDS PositionHistory, SequenceTheorems, WellFoundedInduction, TLAPS

(* Induction over the natural numbers, stated of a set: a set that is not   *)
(* all of Nat misses a least number.                                        *)
LEMMA LeastNumber ==
    ASSUME NEW T, T \subseteq Nat, T # {}
    PROVE  \E x \in T : \A y \in T : x <= y
<1>1. PICK R : R = OpToRel(<, Nat)
  OBVIOUS
<1>2. IsWellFoundedOn(R, Nat)
  BY <1>1, NatLessThanWellFounded
<1>3. PICK x \in T : \A y \in T : ~ (<<y, x>> \in R)
  BY <1>2, WFMin
<1>4. \A y \in T : ~ (y < x)
  BY <1>1, <1>3 DEF OpToRel
<1> QED
  BY <1>3, <1>4

LEMMA Induction ==
    ASSUME NEW T, 0 \in T, \A n \in Nat : n \in T => n + 1 \in T
    PROVE  \A n \in Nat : n \in T
<1>1. SUFFICES ASSUME Nat \ T # {} PROVE FALSE
  OBVIOUS
<1>2. PICK x \in Nat \ T : \A y \in Nat \ T : x <= y
  BY <1>1, LeastNumber
<1>3. x - 1 \in Nat /\ x - 1 \in T
  BY <1>2
<1> QED
  BY <1>2, <1>3

-----------------------------------------------------------------------------
(* FilledNet, defined by a fold, is the last of the partial sums.           *)

Delta(o, s) ==
    IF o.symbol = s /\ o.status = "filled" THEN Signed(o) ELSE 0

LEMMA DeltaType ==
    ASSUME NEW o \in OrderType, NEW s
    PROVE  Delta(o, s) \in Int
BY DEF OrderType, Delta, Signed

Sums(P, os, s) ==
    /\ P \in [0..Len(os) -> Int]
    /\ P[0] = 0
    /\ \A k \in 1..Len(os) : P[k] = P[k - 1] + Delta(os[k], s)

(* What the fold computes for a set of indices. *)
Folds(g, os, m, s) ==
    g = [S \in SUBSET (1..m) |->
            IF S = {} THEN 0
            ELSE LET x == Max(S) IN
                 IF os[x].symbol = s /\ os[x].status = "filled"
                   THEN g[S \ {x}] + Signed(os[x]) ELSE g[S \ {x}]]

LEMMA FoldIsChosen ==
    ASSUME NEW os \in Seq(OrderType), NEW s
    PROVE  FilledNet(os, s) = (CHOOSE g : Folds(g, os, Len(os), s))[1..Len(os)]
<1>1. DOMAIN os = 1..Len(os)
  OBVIOUS
<1> QED
  BY <1>1 DEF FilledNet, FoldLeft, MapThenFoldSet, Folds

LEMMA MaxOf ==
    ASSUME NEW m \in Nat, NEW S \in SUBSET (1..m), S # {}
    PROVE  Max(S) \in S /\ \A x \in S : x <= Max(S)
<1>1. \E z \in S : \A x \in S : x <= z
  <2>1. PICK T : T = {m - x : x \in S}
    OBVIOUS
  <2>2. T \subseteq Nat /\ T # {}
    <3>1. \A x \in S : m - x \in Nat
      OBVIOUS
    <3> QED
      BY <2>1, <3>1
  <2>3. PICK y \in T : \A t \in T : y <= t
    BY <2>2, LeastNumber
  <2>4. PICK z \in S : y = m - z
    BY <2>1
  <2>5. \A x \in S : m - z <= m - x
    BY <2>1, <2>3, <2>4
  <2> QED
    BY <2>5
<1> QED
  BY <1>1 DEF Max

LEMMA MaxUpTo ==
    ASSUME NEW m \in Nat, m > 0
    PROVE  Max(1..m) = m
<1>1. 1..m \in SUBSET (1..m) /\ 1..m # {}
  OBVIOUS
<1>2. Max(1..m) \in 1..m /\ \A x \in 1..m : x <= Max(1..m)
  BY <1>1, MaxOf
<1> QED
  BY <1>2

FoldsOf(g, os, m, s) ==
    /\ g \in [SUBSET (1..m) -> Int]
    /\ g[{}] = 0
    /\ \A S \in SUBSET (1..m) : S # {} =>
          g[S] = g[S \ {Max(S)}] + Delta(os[Max(S)], s)

LEMMA FoldsOfFolds ==
    ASSUME NEW os \in Seq(OrderType), NEW s, NEW m \in 0..Len(os), NEW g,
           FoldsOf(g, os, m, s)
    PROVE  Folds(g, os, m, s)
<1>1. ASSUME NEW S \in SUBSET (1..m), S # {}
      PROVE  g[S] = LET x == Max(S) IN
                    IF os[x].symbol = s /\ os[x].status = "filled"
                      THEN g[S \ {x}] + Signed(os[x]) ELSE g[S \ {x}]
  <2>1. PICK x : x = Max(S)
    OBVIOUS
  <2>2. g[S] = g[S \ {x}] + Delta(os[x], s) /\ g[S \ {x}] \in Int
    BY <1>1, <2>1 DEF FoldsOf
  <2> QED
    BY <2>1, <2>2 DEF Delta
<1> QED
  BY <1>1 DEF Folds, FoldsOf

LEMMA FoldExists ==
    ASSUME NEW os \in Seq(OrderType), NEW s
    PROVE  \E g : FoldsOf(g, os, Len(os), s)
<1>1. PICK T : T = {m \in Nat : m <= Len(os) => \E g : FoldsOf(g, os, m, s)}
  OBVIOUS
<1>2. 0 \in T
  <2>1. PICK g : g = [S \in SUBSET (1..0) |-> 0]
    OBVIOUS
  <2>2. SUBSET (1..0) = {{}}
    <3>1. 1..0 = {}
      OBVIOUS
    <3> QED
      BY <3>1
  <2>3. g \in [SUBSET (1..0) -> Int] /\ g[{}] = 0
    BY <2>1, <2>2
  <2>4. FoldsOf(g, os, 0, s)
    BY <2>2, <2>3 DEF FoldsOf
  <2> QED
    BY <1>1, <2>4
<1>3. ASSUME NEW n \in Nat, n \in T
      PROVE  n + 1 \in T
  <2> SUFFICES ASSUME n + 1 <= Len(os)
               PROVE  \E g : FoldsOf(g, os, n + 1, s)
    BY <1>1
  <2>1. PICK g : FoldsOf(g, os, n, s)
    BY <1>1, <1>3
  <2>2. PICK d \in Int : d = Delta(os[n + 1], s)
    BY DeltaType
  <2>3. PICK h : h = [S \in SUBSET (1..(n + 1)) |->
                        IF n + 1 \in S THEN g[S \ {n + 1}] + d ELSE g[S]]
    OBVIOUS
  <2>4. ASSUME NEW S \in SUBSET (1..(n + 1))
        PROVE  /\ S \ {n + 1} \in SUBSET (1..n)
               /\ n + 1 \notin S => S \in SUBSET (1..n)
    OBVIOUS
  <2>5. h \in [SUBSET (1..(n + 1)) -> Int] /\ h[{}] = 0
    BY <2>1, <2>2, <2>3, <2>4 DEF FoldsOf
  <2>6. ASSUME NEW S \in SUBSET (1..(n + 1)), S # {}
        PROVE  h[S] = h[S \ {Max(S)}] + Delta(os[Max(S)], s)
    <3>1. PICK x : x = Max(S)
      OBVIOUS
    <3>2. x \in S /\ \A y \in S : y <= x
      <4>1. n + 1 \in Nat
        OBVIOUS
      <4> QED
        BY <2>6, <3>1, <4>1, MaxOf
    <3>3. S \ {x} \in SUBSET (1..(n + 1)) /\ n + 1 \notin S \ {x}
      BY <3>2
    <3>4. h[S \ {x}] = g[S \ {x}]
      BY <2>3, <3>3
    <3>5. CASE n + 1 \in S
      <4>1. x = n + 1
        BY <3>2, <3>5
      <4> QED
        BY <2>2, <2>3, <3>1, <3>4, <3>5, <4>1
    <3>6. CASE n + 1 \notin S
      BY <2>1, <2>3, <2>4, <2>6, <3>1, <3>4, <3>6 DEF FoldsOf
    <3> QED
      BY <3>5, <3>6
  <2> QED
    BY <2>5, <2>6 DEF FoldsOf
<1>4. \A n \in Nat : n \in T
  BY <1>2, <1>3, Induction
<1> QED
  BY <1>1, <1>4

LEMMA ChosenFolds ==
    ASSUME NEW os \in Seq(OrderType), NEW s
    PROVE  \E g : /\ Folds(g, os, Len(os), s)
                  /\ FilledNet(os, s) = g[1..Len(os)]
<1>1. \E g : Folds(g, os, Len(os), s)
  BY FoldExists, FoldsOfFolds
<1>2. PICK h : h = CHOOSE g : Folds(g, os, Len(os), s)
  OBVIOUS
<1>3. Folds(h, os, Len(os), s)
  BY <1>1, <1>2
<1> QED
  BY <1>2, <1>3, FoldIsChosen

(* FilledNet is known by any function that adds up.                         *)
LEMMA FilledNetSums ==
    ASSUME NEW os \in Seq(OrderType), NEW s, NEW P, Sums(P, os, s)
    PROVE  FilledNet(os, s) = P[Len(os)]
<1>1. PICK g : Folds(g, os, Len(os), s) /\ FilledNet(os, s) = g[1..Len(os)]
  BY ChosenFolds
<1>2. PICK T : T = {m \in Nat : m <= Len(os) => g[1..m] = P[m]}
  OBVIOUS
<1>3. 0 \in T
  <2>1. g[{}] = 0 /\ 1..0 = {}
    BY <1>1 DEF Folds
  <2> QED
    BY <1>2, <2>1 DEF Sums
<1>4. ASSUME NEW n \in Nat, n \in T
      PROVE  n + 1 \in T
  <2> SUFFICES ASSUME n + 1 <= Len(os)
               PROVE  g[1..(n + 1)] = P[n + 1]
    BY <1>2
  <2>1. PICK S : S = 1..(n + 1)
    OBVIOUS
  <2>2. S \in SUBSET (1..Len(os)) /\ S # {} /\ S \ {n + 1} = 1..n
    BY <2>1
  <2>3. Max(S) = n + 1
    BY <2>1, MaxUpTo
  <2>4. g[S] = IF os[n + 1].symbol = s /\ os[n + 1].status = "filled"
                 THEN g[1..n] + Signed(os[n + 1]) ELSE g[1..n]
    <3>1. g[S] = IF S = {} THEN 0
                 ELSE LET x == Max(S) IN
                      IF os[x].symbol = s /\ os[x].status = "filled"
                        THEN g[S \ {x}] + Signed(os[x]) ELSE g[S \ {x}]
      BY <1>1, <2>2 DEF Folds
    <3> QED
      BY <2>2, <2>3, <3>1
  <2>5. P[n + 1] = P[n] + Delta(os[n + 1], s) /\ P[n] \in Int
    <3>1. n + 1 \in 1..Len(os) /\ (n + 1) - 1 = n /\ n \in 0..Len(os)
      OBVIOUS
    <3> QED
      BY <3>1 DEF Sums
  <2>6. g[1..n] = P[n]
    BY <1>2, <1>4
  <2> QED
    BY <2>1, <2>4, <2>5, <2>6 DEF Delta
<1>5. \A n \in Nat : n \in T
  BY <1>3, <1>4, Induction
<1> QED
  BY <1>1, <1>2, <1>5

LEMMA SumsExist ==
    ASSUME NEW os \in Seq(OrderType), NEW s
    PROVE  \E P : Sums(P, os, s)
<1>1. PICK g : FoldsOf(g, os, Len(os), s)
  BY FoldExists
<1>2. PICK P : P = [k \in 0..Len(os) |-> g[1..k]]
  OBVIOUS
<1>3. ASSUME NEW k \in 0..Len(os)
      PROVE  1..k \in SUBSET (1..Len(os)) /\ P[k] = g[1..k]
  BY <1>2
<1>4. P \in [0..Len(os) -> Int]
  BY <1>1, <1>2, <1>3 DEF FoldsOf
<1>5. P[0] = 0
  <2>1. 1..0 = {} /\ 0 \in 0..Len(os)
    OBVIOUS
  <2> QED
    BY <1>1, <1>3, <2>1 DEF FoldsOf
<1>6. ASSUME NEW k \in 1..Len(os)
      PROVE  P[k] = P[k - 1] + Delta(os[k], s)
  <2>1. PICK S : S = 1..k
    OBVIOUS
  <2>2. /\ S \in SUBSET (1..Len(os)) /\ S # {} /\ S \ {k} = 1..(k - 1)
        /\ k \in 0..Len(os) /\ k - 1 \in 0..Len(os) /\ Max(S) = k
    <3>1. k \in Nat /\ k > 0
      OBVIOUS
    <3>2. Max(S) = k
      BY <2>1, <3>1, MaxUpTo
    <3>3. PICK n \in Nat : n = Len(os)
      OBVIOUS
    <3>4. k \in 1..n /\ k \in 0..n /\ k - 1 \in 0..n
      BY <3>3
    <3>5. S \subseteq 1..n /\ k \in S
      BY <2>1, <3>4
    <3>6. S \ {k} = 1..(k - 1)
      BY <2>1, <3>1
    <3> QED
      BY <3>2, <3>3, <3>4, <3>5, <3>6
  <2>3. g[S] = g[S \ {k}] + Delta(os[k], s)
    BY <1>1, <2>2 DEF FoldsOf
  <2> QED
    BY <1>3, <2>1, <2>2, <2>3
<1> QED
  BY <1>4, <1>5, <1>6 DEF Sums

LEMMA FilledNetType ==
    ASSUME NEW os \in Seq(OrderType), NEW s
    PROVE  FilledNet(os, s) \in Int
<1>1. PICK P : Sums(P, os, s)
  BY SumsExist
<1>2. Len(os) \in 0..Len(os)
  OBVIOUS
<1> QED
  BY <1>1, <1>2, FilledNetSums DEF Sums

LEMMA FilledNetEmpty ==
    ASSUME NEW s
    PROVE  FilledNet(<<>>, s) = 0
<1>1. <<>> \in Seq(OrderType) /\ Len(<<>>) = 0
  BY EmptySeq
<1>2. PICK P : Sums(P, <<>>, s)
  BY <1>1, SumsExist
<1> QED
  BY <1>1, <1>2, FilledNetSums DEF Sums

LEMMA FilledNetAppend ==
    ASSUME NEW os \in Seq(OrderType), NEW o \in OrderType, NEW s
    PROVE  FilledNet(Append(os, o), s) = FilledNet(os, s) + Delta(o, s)
<1>1. PICK n \in Nat : n = Len(os)
  OBVIOUS
<1>2. PICK P : Sums(P, os, s)
  BY SumsExist
<1>3. PICK d \in Int : d = Delta(o, s)
  BY DeltaType
<1>4. PICK qs : qs = Append(os, o)
  OBVIOUS
<1>5. /\ qs \in Seq(OrderType) /\ Len(qs) = n + 1 /\ qs[n + 1] = o
      /\ \A i \in 1..n : qs[i] = os[i]
  BY <1>1, <1>4
<1>6. PICK Q : Q = [k \in 0..(n + 1) |-> IF k <= n THEN P[k] ELSE P[n] + d]
  OBVIOUS
<1>7. \A k \in 0..n : P[k] \in Int /\ Q[k] = P[k]
  <2>1. P \in [0..n -> Int]
    BY <1>1, <1>2 DEF Sums
  <2>2. \A k \in 0..n : k \in 0..(n + 1) /\ k <= n
    OBVIOUS
  <2> QED
    BY <1>6, <2>1, <2>2
<1>8. Q[n + 1] = P[n] + d
  BY <1>6
<1>9. Q \in [0..(n + 1) -> Int]
  <2>1. P[n] + d \in Int
    BY <1>3, <1>7
  <2>2. \A k \in 0..(n + 1) : k <= n => k \in 0..n
    OBVIOUS
  <2> QED
    BY <1>6, <1>7, <2>1, <2>2
<1>10. ASSUME NEW k \in 1..(n + 1)
       PROVE  Q[k] = Q[k - 1] + Delta(qs[k], s)
  <2>1. CASE k = n + 1
    BY <1>3, <1>5, <1>7, <1>8, <2>1
  <2>2. CASE k # n + 1
    <3>1. k \in 1..n /\ k \in 0..n /\ k - 1 \in 0..n
      BY <2>2
    <3>2. P[k] = P[k - 1] + Delta(os[k], s)
      BY <1>1, <1>2, <3>1 DEF Sums
    <3> QED
      BY <1>5, <1>7, <3>1, <3>2
  <2> QED
    BY <2>1, <2>2
<1>11. Q[0] = 0
  BY <1>2, <1>7 DEF Sums
<1>12. Sums(Q, qs, s)
  BY <1>5, <1>9, <1>10, <1>11 DEF Sums
<1>13. FilledNet(qs, s) = Q[n + 1] /\ FilledNet(os, s) = P[n]
  BY <1>1, <1>2, <1>5, <1>12, FilledNetSums
<1> QED
  BY <1>3, <1>4, <1>8, <1>13

(* One order is another.                                                    *)
LEMMA FilledNetReplace ==
    ASSUME NEW os \in Seq(OrderType), NEW qs \in Seq(OrderType), NEW s,
           Len(qs) = Len(os), NEW k \in 1..Len(os),
           \A i \in 1..Len(os) : i # k => qs[i] = os[i]
    PROVE  FilledNet(qs, s) = FilledNet(os, s) - Delta(os[k], s) + Delta(qs[k], s)
<1>1. PICK n \in Nat : n = Len(os)
  OBVIOUS
<1>2. PICK P : Sums(P, os, s)
  BY SumsExist
<1>3. Delta(os[k], s) \in Int /\ Delta(qs[k], s) \in Int
  <2>1. os[k] \in OrderType /\ qs[k] \in OrderType
    OBVIOUS
  <2> QED
    BY <2>1, DeltaType
<1>4. PICK d \in Int : d = Delta(qs[k], s) - Delta(os[k], s)
  BY <1>3
<1>5. PICK Q : Q = [i \in 0..n |-> IF i < k THEN P[i] ELSE P[i] + d]
  OBVIOUS
<1>6. \A i \in 0..n : /\ P[i] \in Int
                      /\ i < k => Q[i] = P[i]
                      /\ i >= k => Q[i] = P[i] + d
  BY <1>1, <1>2, <1>5 DEF Sums
<1>7. Q \in [0..n -> Int]
  BY <1>4, <1>5, <1>6
<1>8. ASSUME NEW i \in 1..n
      PROVE  Q[i] = Q[i - 1] + Delta(qs[i], s)
  <2>1. i \in 0..n /\ i - 1 \in 0..n /\ k \in 1..n
    BY <1>1
  <2>2. P[i] = P[i - 1] + Delta(os[i], s)
    BY <1>1, <1>2 DEF Sums
  <2>3. Delta(os[i], s) \in Int
    <3>1. os[i] \in OrderType
      BY <1>1
    <3> QED
      BY <3>1, DeltaType
  <2>4. CASE i = k
    BY <1>3, <1>4, <1>6, <2>1, <2>2, <2>4
  <2>5. CASE i # k
    <3>1. qs[i] = os[i]
      BY <1>1, <2>5
    <3>2. CASE i < k
      BY <1>6, <2>1, <2>2, <3>1, <3>2
    <3>3. CASE i > k
      BY <1>4, <1>6, <2>1, <2>2, <2>3, <3>1, <3>3
    <3> QED
      BY <2>1, <2>5, <3>2, <3>3
  <2> QED
    BY <2>4, <2>5
<1>9. Q[0] = 0
  BY <1>1, <1>2, <1>6 DEF Sums
<1>10. Sums(Q, qs, s)
  BY <1>1, <1>7, <1>8, <1>9 DEF Sums
<1>11. FilledNet(qs, s) = Q[n] /\ FilledNet(os, s) = P[n]
  BY <1>1, <1>2, <1>10, FilledNetSums
<1>12. n \in 0..n /\ n >= k
  BY <1>1
<1> QED
  BY <1>3, <1>4, <1>6, <1>11, <1>12

-----------------------------------------------------------------------------
(* The array of the broker.  Val is what BrokerPosition reads from it.      *)

Distinct(ps) == \A i, j \in DOMAIN ps : i # j => ps[i].symbol # ps[j].symbol

Array(ps) == ps \in Seq(PositionType) /\ Distinct(ps)

Val(ps, s) == IF Holds(ps, s) THEN Signed(ps[IndexOf(ps, s)]) ELSE 0

LEMMA ValOf ==
    ASSUME NEW ps, Array(ps), NEW i \in DOMAIN ps
    PROVE  /\ Holds(ps, ps[i].symbol)
           /\ IndexOf(ps, ps[i].symbol) = i
           /\ Val(ps, ps[i].symbol) = Signed(ps[i])
           /\ Signed(ps[i]) \in Int \ {0}
<1>1. Holds(ps, ps[i].symbol)
  BY DEF Holds
<1>2. IndexOf(ps, ps[i].symbol) = i
  BY DEF IndexOf, Array, Distinct
<1>3. ps[i] \in PositionType
  BY DEF Array
<1>4. Signed(ps[i]) \in Int \ {0}
  BY <1>3 DEF PositionType, Signed
<1> QED
  BY <1>1, <1>2, <1>4 DEF Val

LEMMA ValNone ==
    ASSUME NEW ps, NEW s, ~Holds(ps, s)
    PROVE  Val(ps, s) = 0
BY DEF Val

LEMMA ValType ==
    ASSUME NEW ps, Array(ps), NEW s
    PROVE  Val(ps, s) \in Int /\ (Holds(ps, s) <=> Val(ps, s) # 0)
<1>1. CASE Holds(ps, s)
  <2>1. PICK i \in DOMAIN ps : ps[i].symbol = s
    BY <1>1 DEF Holds
  <2> QED
    BY <1>1, <2>1, ValOf
<1>2. CASE ~Holds(ps, s)
  BY <1>2, ValNone
<1> QED
  BY <1>1, <1>2

LEMMA SameVal ==
    ASSUME NEW ps, NEW qs, Array(ps), Array(qs), NEW s,
           \A i \in DOMAIN ps : ps[i].symbol = s => \E j \in DOMAIN qs : qs[j] = ps[i],
           \A j \in DOMAIN qs : qs[j].symbol = s => \E i \in DOMAIN ps : ps[i] = qs[j]
    PROVE  Val(qs, s) = Val(ps, s)
<1>1. CASE Holds(ps, s)
  <2>1. PICK i \in DOMAIN ps : ps[i].symbol = s
    BY <1>1 DEF Holds
  <2>2. PICK j \in DOMAIN qs : qs[j] = ps[i]
    BY <2>1
  <2>3. Val(ps, s) = Signed(ps[i])
    BY <2>1, ValOf
  <2>4. Val(qs, s) = Signed(qs[j])
    BY <2>1, <2>2, ValOf
  <2> QED
    BY <2>2, <2>3, <2>4
<1>2. CASE ~Holds(ps, s)
  <2>1. ~Holds(qs, s)
    BY <1>2 DEF Holds
  <2> QED
    BY <1>2, <2>1, ValNone
<1> QED
  BY <1>1, <1>2

LEMMA Appended ==
    ASSUME NEW ps, Array(ps), NEW p \in PositionType, ~Holds(ps, p.symbol)
    PROVE  /\ Array(Append(ps, p))
           /\ Val(Append(ps, p), p.symbol) = Signed(p)
           /\ \A s : s # p.symbol => Val(Append(ps, p), s) = Val(ps, s)
<1>1. PICK qs : qs = Append(ps, p)
  OBVIOUS
<1>2. PICK n \in Nat : n = Len(ps)
  BY DEF Array
<1>3. /\ qs \in Seq(PositionType) /\ DOMAIN qs = 1..(n + 1) /\ DOMAIN ps = 1..n
      /\ qs[n + 1] = p /\ \A i \in 1..n : qs[i] = ps[i]
  BY <1>1, <1>2 DEF Array
<1>4. \A i \in 1..n : qs[i].symbol # p.symbol
  BY <1>3 DEF Holds
<1>5. Distinct(qs)
  <2> SUFFICES ASSUME NEW i \in 1..(n + 1), NEW j \in 1..(n + 1), i # j
               PROVE  qs[i].symbol # qs[j].symbol
    BY <1>3 DEF Distinct
  <2>1. CASE i \in 1..n /\ j \in 1..n
    BY <1>3, <2>1 DEF Array, Distinct
  <2>2. CASE i \notin 1..n
    <3>1. i = n + 1 /\ j \in 1..n
      BY <2>2
    <3> QED
      BY <1>3, <1>4, <3>1
  <2>3. CASE j \notin 1..n
    <3>1. j = n + 1 /\ i \in 1..n
      BY <2>3
    <3> QED
      BY <1>3, <1>4, <3>1
  <2> QED
    BY <2>1, <2>2, <2>3
<1>6. Array(qs)
  BY <1>3, <1>5 DEF Array
<1>7. Val(qs, p.symbol) = Signed(p)
  <2>1. n + 1 \in DOMAIN qs
    BY <1>3
  <2> QED
    BY <1>3, <1>6, <2>1, ValOf
<1>8. ASSUME NEW s, s # p.symbol
      PROVE  Val(qs, s) = Val(ps, s)
  <2>1. \A i \in DOMAIN ps : ps[i].symbol = s => \E j \in DOMAIN qs : qs[j] = ps[i]
    <3>1. \A i \in 1..n : i \in 1..(n + 1)
      OBVIOUS
    <3> QED
      BY <1>3, <3>1
  <2>2. \A j \in DOMAIN qs : qs[j].symbol = s => \E i \in DOMAIN ps : ps[i] = qs[j]
    <3>1. \A j \in 1..(n + 1) : j = n + 1 \/ j \in 1..n
      OBVIOUS
    <3> QED
      BY <1>3, <1>8, <3>1
  <2> QED
    BY <1>6, <2>1, <2>2, SameVal
<1> QED
  BY <1>1, <1>6, <1>7, <1>8

LEMMA Removed ==
    ASSUME NEW ps, Array(ps), NEW k \in DOMAIN ps
    PROVE  /\ Array(RemoveAt(ps, k))
           /\ ~Holds(RemoveAt(ps, k), ps[k].symbol)
           /\ \A s : s # ps[k].symbol => Val(RemoveAt(ps, k), s) = Val(ps, s)
<1>1. PICK qs : qs = RemoveAt(ps, k)
  OBVIOUS
<1>2. PICK n \in Nat : n = Len(ps)
  BY DEF Array
<1>3. ps \in Seq(PositionType) /\ DOMAIN ps = 1..n /\ k \in 1..n
  BY <1>2 DEF Array
<1>4. PICK a, b : a = SubSeq(ps, 1, k - 1) /\ b = SubSeq(ps, k + 1, n)
  OBVIOUS
<1>5. /\ a \in Seq(PositionType) /\ Len(a) = k - 1
      /\ \A i \in 1..(k - 1) : a[i] = ps[i]
  <2>1. \A i \in 1..(k - 1) : ps[i] \in PositionType
    BY <1>3
  <2> QED
    BY <1>3, <1>4, <2>1, SubSeqProperties
<1>6. /\ b \in Seq(PositionType) /\ Len(b) = n - k
      /\ \A i \in 1..(n - k) : b[i] = ps[k + i]
  <2>1. \A i \in (k + 1)..n : ps[i] \in PositionType
    BY <1>3
  <2> QED
    BY <1>3, <1>4, <2>1, SubSeqProperties
<1>7. qs = a \o b
  BY <1>1, <1>2, <1>4 DEF RemoveAt
<1>8. /\ qs \in Seq(PositionType) /\ Len(qs) = n - 1 /\ DOMAIN qs = 1..(n - 1)
      /\ \A i \in 1..(n - 1) : qs[i] = IF i < k THEN ps[i] ELSE ps[i + 1]
  <2>1. /\ qs \in Seq(PositionType) /\ Len(qs) = Len(a) + Len(b)
        /\ \A i \in 1..(Len(a) + Len(b)) :
              qs[i] = IF i <= Len(a) THEN a[i] ELSE b[i - Len(a)]
    BY <1>5, <1>6, <1>7, ConcatProperties
  <2>2. Len(a) + Len(b) = n - 1
    BY <1>3, <1>5, <1>6
  <2>3. ASSUME NEW i \in 1..(n - 1)
        PROVE  qs[i] = IF i < k THEN ps[i] ELSE ps[i + 1]
    <3>1. CASE i < k
      <4>1. i <= Len(a) /\ i \in 1..(k - 1)
        BY <1>3, <1>5, <3>1
      <4> QED
        BY <1>5, <2>1, <2>2, <3>1, <4>1
    <3>2. CASE ~(i < k)
      <4>1. ~(i <= Len(a)) /\ i - Len(a) \in 1..(n - k) /\ k + (i - Len(a)) = i + 1
        BY <1>3, <1>5, <3>2
      <4> QED
        BY <1>6, <2>1, <2>2, <3>2, <4>1
    <3> QED
      BY <3>1, <3>2
  <2> QED
    BY <2>1, <2>2, <2>3
<1>9. \A i \in 1..(n - 1) :
         \E j \in 1..n : j # k /\ qs[i] = ps[j] /\ j = IF i < k THEN i ELSE i + 1
  BY <1>3, <1>8
<1>10. \A j \in 1..n : j # k => \E i \in 1..(n - 1) : qs[i] = ps[j]
  <2> SUFFICES ASSUME NEW j \in 1..n, j # k
               PROVE  \E i \in 1..(n - 1) : qs[i] = ps[j]
    OBVIOUS
  <2>1. CASE j < k
    <3>1. j \in 1..(n - 1) /\ qs[j] = ps[j]
      BY <1>3, <1>8, <2>1
    <3> QED
      BY <3>1
  <2>2. CASE j > k
    <3>1. j - 1 \in 1..(n - 1) /\ ~(j - 1 < k) /\ (j - 1) + 1 = j
      BY <1>3, <2>2
    <3>2. qs[j - 1] = ps[j]
      BY <1>8, <3>1
    <3> QED
      BY <3>1, <3>2
  <2> QED
    BY <1>3, <2>1, <2>2
<1>11. Distinct(qs)
  <2> SUFFICES ASSUME NEW i \in 1..(n - 1), NEW j \in 1..(n - 1), i # j
               PROVE  qs[i].symbol # qs[j].symbol
    BY <1>8 DEF Distinct
  <2>1. PICK x \in 1..n : qs[i] = ps[x] /\ x = IF i < k THEN i ELSE i + 1
    BY <1>9
  <2>2. PICK y \in 1..n : qs[j] = ps[y] /\ y = IF j < k THEN j ELSE j + 1
    BY <1>9
  <2>3. x # y
    BY <1>3, <2>1, <2>2
  <2> QED
    BY <1>3, <2>1, <2>2, <2>3 DEF Array, Distinct
<1>12. Array(qs)
  BY <1>8, <1>11 DEF Array
<1>13. ~Holds(qs, ps[k].symbol)
  <2> SUFFICES ASSUME NEW i \in 1..(n - 1), qs[i].symbol = ps[k].symbol
               PROVE  FALSE
    BY <1>8 DEF Holds
  <2>1. PICK j \in 1..n : j # k /\ qs[i] = ps[j]
    BY <1>9
  <2> QED
    BY <1>3, <2>1 DEF Array, Distinct
<1>14. ASSUME NEW s, s # ps[k].symbol
       PROVE  Val(qs, s) = Val(ps, s)
  <2>1. \A i \in DOMAIN ps : ps[i].symbol = s => \E j \in DOMAIN qs : qs[j] = ps[i]
    BY <1>3, <1>8, <1>10, <1>14
  <2>2. \A j \in DOMAIN qs : qs[j].symbol = s => \E i \in DOMAIN ps : ps[i] = qs[j]
    BY <1>3, <1>8, <1>9
  <2> QED
    BY <1>12, <2>1, <2>2, SameVal
<1> QED
  BY <1>1, <1>12, <1>13, <1>14

LEMMA Resized ==
    ASSUME NEW ps, Array(ps), NEW k \in DOMAIN ps, NEW m \in Nat \ {0},
           NEW p \in PositionType, p.symbol = ps[k].symbol,
           p.side = ps[k].side, p.quantity = m,
           NEW qs \in Seq(PositionType), DOMAIN qs = DOMAIN ps, qs[k] = p,
           \A i \in DOMAIN ps : i # k => qs[i] = ps[i]
    PROVE  /\ Array(qs)
           /\ Val(qs, ps[k].symbol) = IF ps[k].side = "long" THEN m ELSE -m
           /\ \A s : s # ps[k].symbol => Val(qs, s) = Val(ps, s)
<1>2. PICK n \in Nat : n = Len(ps)
  BY DEF Array
<1>3. ps \in Seq(PositionType) /\ DOMAIN ps = 1..n /\ k \in 1..n
  BY <1>2 DEF Array
<1>5. p \in PositionType /\ p.symbol = ps[k].symbol /\ p.side = ps[k].side
      /\ p.quantity = m
  OBVIOUS
<1>7. /\ qs \in Seq(PositionType) /\ DOMAIN qs = 1..n /\ qs[k] = p
      /\ \A i \in 1..n : i # k => qs[i] = ps[i]
  BY <1>3
<1>8. \A i \in 1..n : qs[i].symbol = ps[i].symbol
  BY <1>5, <1>7
<1>9. Array(qs)
  BY <1>3, <1>7, <1>8 DEF Array, Distinct
<1>10. Val(qs, ps[k].symbol) = IF ps[k].side = "long" THEN m ELSE -m
  <2>1. Val(qs, ps[k].symbol) = Signed(p)
    BY <1>3, <1>5, <1>7, <1>9, ValOf
  <2>2. ps[k].side \in {"long", "short"}
    BY <1>5 DEF PositionType
  <2> QED
    BY <1>5, <2>1, <2>2 DEF Signed
<1>11. ASSUME NEW s, s # ps[k].symbol
       PROVE  Val(qs, s) = Val(ps, s)
  <2>1. \A i \in DOMAIN ps : ps[i].symbol = s => \E j \in DOMAIN qs : qs[j] = ps[i]
    BY <1>3, <1>7, <1>11
  <2>2. \A j \in DOMAIN qs : qs[j].symbol = s => \E i \in DOMAIN ps : ps[i] = qs[j]
    BY <1>3, <1>7, <1>8, <1>11
  <2> QED
    BY <1>9, <2>1, <2>2, SameVal
<1> QED
  BY <1>9, <1>10, <1>11

(* What an order may be for. *)
OrderLike(o) == /\ o.symbol \in Symbols /\ o.side \in {"buy", "sell"}
                /\ o.quantity \in Nat \ {0}

(* An order moves the position of its symbol by what it is for, and no      *)
(* other; the array stays one position per symbol, none of them empty.      *)
LEMMA UpdatePositionAdds ==
    ASSUME NEW ps, Array(ps), NEW o, OrderLike(o)
    PROVE  /\ Array(UpdatePosition(ps, o))
           /\ Signed(o) \in Int
           /\ Val(UpdatePosition(ps, o), o.symbol) = Val(ps, o.symbol) + Signed(o)
           /\ \A s : s # o.symbol => Val(UpdatePosition(ps, o), s) = Val(ps, s)
<1>1. PICK qs : qs = UpdatePosition(ps, o)
  OBVIOUS
<1>2. PICK x, q : x = o.symbol /\ q = o.quantity
  OBVIOUS
<1>3. q \in Nat \ {0} /\ Signed(o) = IF SideOf(o) = "long" THEN q ELSE -q
  BY <1>2 DEF OrderLike, Signed, SideOf
<1>4. ASSUME NEW m \in Nat \ {0}
      PROVE  /\ Opening(o, m) \in PositionType /\ Opening(o, m).symbol = x
             /\ Signed(Opening(o, m)) = IF SideOf(o) = "long" THEN m ELSE -m
  BY <1>2 DEF OrderLike, Opening, PositionType, SideOf, Signed
<1>5. CASE ~Holds(ps, x)
  <2>1. qs = Append(ps, Opening(o, q))
    BY <1>1, <1>2, <1>5 DEF UpdatePosition
  <2>2. Val(ps, x) = 0
    BY <1>5, ValNone
  <2>3. /\ Array(qs) /\ Val(qs, x) = Signed(Opening(o, q))
        /\ \A s : s # x => Val(qs, s) = Val(ps, s)
    BY <1>3, <1>4, <1>5, <2>1, Appended
  <2> QED
    BY <1>1, <1>2, <1>3, <1>4, <2>2, <2>3
<1>6. CASE Holds(ps, x)
  <2>1. PICK i \in DOMAIN ps : ps[i].symbol = x
    BY <1>6 DEF Holds
  <2>2. IndexOf(ps, x) = i /\ Val(ps, x) = Signed(ps[i])
    BY <2>1, ValOf
  <2>3. ps[i] \in PositionType
    BY <2>1 DEF Array
  <2>4. PICK m \in Nat \ {0} : m = ps[i].quantity
    BY <2>3 DEF PositionType
  <2>5. Val(ps, x) = IF ps[i].side = "long" THEN m ELSE -m
    BY <2>2, <2>3, <2>4 DEF PositionType, Signed
  <2>6. ps[i].side \in {"long", "short"} /\ SideOf(o) \in {"long", "short"}
    BY <2>3 DEF PositionType, SideOf
  <2>7. CASE ps[i].side = SideOf(o)
    <3>1. PICK r \in Nat \ {0} : r = m + q
      BY <1>3
    <3>2. qs = [ps EXCEPT ![i].quantity = r]
      BY <1>1, <1>2, <1>6, <2>2, <2>4, <2>7, <3>1 DEF UpdatePosition
    <3>3. /\ Array(qs)
          /\ Val(qs, x) = IF ps[i].side = "long" THEN r ELSE -r
          /\ \A s : s # x => Val(qs, s) = Val(ps, s)
      <4>1. PICK p : p = [ps[i] EXCEPT !.quantity = r]
        OBVIOUS
      <4>2. p \in PositionType /\ p.symbol = ps[i].symbol
            /\ p.side = ps[i].side /\ p.quantity = r
        BY <2>3, <4>1 DEF PositionType
      <4>3. qs = [ps EXCEPT ![i] = p]
        BY <3>2, <4>1
      <4>4. /\ qs \in Seq(PositionType) /\ DOMAIN qs = DOMAIN ps /\ qs[i] = p
            /\ \A j \in DOMAIN ps : j # i => qs[j] = ps[j]
        BY <2>1, <4>2, <4>3 DEF Array
      <4> QED
        BY <2>1, <4>2, <4>4, Resized
    <3>4. Val(qs, x) = Val(ps, x) + Signed(o)
      BY <1>3, <2>5, <2>7, <3>1, <3>3
    <3> QED
      BY <1>1, <1>2, <1>3, <3>3, <3>4
  <2>8. CASE ps[i].side # SideOf(o) /\ m > q
    <3>1. PICK r \in Nat \ {0} : r = m - q
      BY <1>3, <2>8
    <3>2. qs = [ps EXCEPT ![i].quantity = r]
      BY <1>1, <1>2, <1>6, <2>2, <2>4, <2>8, <3>1 DEF UpdatePosition
    <3>3. /\ Array(qs)
          /\ Val(qs, x) = IF ps[i].side = "long" THEN r ELSE -r
          /\ \A s : s # x => Val(qs, s) = Val(ps, s)
      <4>1. PICK p : p = [ps[i] EXCEPT !.quantity = r]
        OBVIOUS
      <4>2. p \in PositionType /\ p.symbol = ps[i].symbol
            /\ p.side = ps[i].side /\ p.quantity = r
        BY <2>3, <4>1 DEF PositionType
      <4>3. qs = [ps EXCEPT ![i] = p]
        BY <3>2, <4>1
      <4>4. /\ qs \in Seq(PositionType) /\ DOMAIN qs = DOMAIN ps /\ qs[i] = p
            /\ \A j \in DOMAIN ps : j # i => qs[j] = ps[j]
        BY <2>1, <4>2, <4>3 DEF Array
      <4> QED
        BY <2>1, <4>2, <4>4, Resized
    <3>4. Val(qs, x) = Val(ps, x) + Signed(o)
      BY <1>3, <2>5, <2>6, <2>8, <3>1, <3>3
    <3> QED
      BY <1>1, <1>2, <1>3, <3>3, <3>4
  <2>9. CASE ps[i].side # SideOf(o) /\ m = q
    <3>1. m - q = 0
      BY <2>9
    <3>2. qs = RemoveAt(ps, i)
      BY <1>1, <1>2, <1>6, <2>2, <2>4, <2>9, <3>1 DEF UpdatePosition
    <3>3. /\ Array(qs) /\ ~Holds(qs, x)
          /\ \A s : s # x => Val(qs, s) = Val(ps, s)
      BY <2>1, <3>2, Removed
    <3>4. Val(qs, x) = 0
      BY <3>3, ValNone
    <3>5. Val(qs, x) = Val(ps, x) + Signed(o)
      BY <1>3, <2>5, <2>6, <2>9, <3>4
    <3> QED
      BY <1>1, <1>2, <1>3, <3>3, <3>5
  <2>10. CASE ps[i].side # SideOf(o) /\ m < q
    <3>1. PICK rs : rs = RemoveAt(ps, i)
      OBVIOUS
    <3>2. PICK r \in Nat \ {0} : r = q - m
      BY <1>3, <2>10
    <3>3. /\ ~(m - q > 0) /\ m - q # 0 /\ -(m - q) = r
      BY <1>3, <2>10, <3>2
    <3>4. qs = Append(rs, Opening(o, r))
      <4>1. qs = Append(rs, Opening(o, -(m - q)))
        BY <1>1, <1>2, <1>6, <2>2, <2>4, <2>10, <3>1, <3>3 DEF UpdatePosition
      <4> QED
        BY <3>3, <4>1
    <3>5. /\ Array(rs) /\ ~Holds(rs, x)
          /\ \A s : s # x => Val(rs, s) = Val(ps, s)
      BY <2>1, <3>1, Removed
    <3>6. PICK p \in PositionType : p = Opening(o, r)
      BY <1>4
    <3>7. p.symbol = x /\ Signed(p) = IF SideOf(o) = "long" THEN r ELSE -r
      BY <1>4, <3>6
    <3>8. /\ Array(qs) /\ Val(qs, x) = Signed(p)
          /\ \A s : s # x => Val(qs, s) = Val(rs, s)
      BY <3>4, <3>5, <3>6, <3>7, Appended
    <3>9. \A s : s # x => Val(qs, s) = Val(ps, s)
      BY <3>5, <3>8
    <3>10. Val(qs, x) = Val(ps, x) + Signed(o)
      BY <1>3, <2>5, <2>6, <2>10, <3>2, <3>7, <3>8
    <3> QED
      BY <1>1, <1>2, <1>3, <3>8, <3>9, <3>10
  <2> QED
    BY <1>3, <2>7, <2>8, <2>9, <2>10
<1> QED
  BY <1>5, <1>6

-----------------------------------------------------------------------------
(* The loop of flattenAll.  Its array and its orders together are what the  *)
(* array was; a position it has closed is gone, and none is new.            *)

After(b, i) ==
    IF i > Len(b.array) THEN b
    ELSE [array  |-> UpdatePosition(b.array, ClosingOrder(b.array[i])),
          placed |-> Append(b.placed, ClosingOrder(b.array[i]))]

Loop(f, ps, n) ==
    f = [i \in 0..n |-> IF i = 0 THEN [array |-> ps, placed |-> <<>>]
                        ELSE After(f[i - 1], i)]

LEMMA LoopIsChosen ==
    ASSUME NEW ps
    PROVE  ClosingOrders(ps) = (CHOOSE f : Loop(f, ps, Len(ps)))[Len(ps)].placed
BY DEF ClosingOrders, Loop, After

LEMMA LoopExists ==
    ASSUME NEW ps, NEW m \in Nat
    PROVE  \E f : Loop(f, ps, m)
<1>1. PICK T : T = {n \in Nat : \E f : Loop(f, ps, n)}
  OBVIOUS
<1>2. 0 \in T
  <2>1. PICK f : f = [i \in 0..0 |-> [array |-> ps, placed |-> <<>>]]
    OBVIOUS
  <2>2. Loop(f, ps, 0)
    <3>1. \A i \in 0..0 : i = 0
      OBVIOUS
    <3> QED
      BY <2>1, <3>1 DEF Loop
  <2> QED
    BY <1>1, <2>2
<1>3. ASSUME NEW n \in Nat, n \in T
      PROVE  n + 1 \in T
  <2>1. PICK f : Loop(f, ps, n)
    BY <1>1, <1>3
  <2>2. PICK b : b = After(f[n], n + 1)
    OBVIOUS
  <2>3. PICK h : h = [i \in 0..(n + 1) |-> IF i = n + 1 THEN b ELSE f[i]]
    OBVIOUS
  <2>4. ASSUME NEW i \in 0..(n + 1)
        PROVE  h[i] = IF i = 0 THEN [array |-> ps, placed |-> <<>>]
                      ELSE After(h[i - 1], i)
    <3>1. CASE i = n + 1
      <4>1. n \in 0..(n + 1) /\ n # n + 1 /\ (n + 1) - 1 = n /\ n + 1 # 0
        OBVIOUS
      <4>2. h[n] = f[n]
        BY <2>3, <4>1
      <4> QED
        BY <2>2, <2>3, <3>1, <4>1, <4>2
    <3>2. CASE i # n + 1
      <4>1. i \in 0..n /\ h[i] = f[i]
        BY <2>3, <3>2
      <4>2. f[i] = IF i = 0 THEN [array |-> ps, placed |-> <<>>]
                   ELSE After(f[i - 1], i)
        BY <2>1, <4>1 DEF Loop
      <4>3. CASE i = 0
        BY <4>1, <4>2, <4>3
      <4>4. CASE i # 0
        <5>1. i - 1 \in 0..(n + 1) /\ i - 1 # n + 1
          BY <4>1, <4>4
        <5>2. h[i - 1] = f[i - 1]
          BY <2>3, <5>1
        <5> QED
          BY <4>1, <4>2, <4>4, <5>2
      <4> QED
        BY <4>3, <4>4
    <3> QED
      BY <3>1, <3>2
  <2>5. Loop(h, ps, n + 1)
    BY <2>3, <2>4 DEF Loop
  <2> QED
    BY <1>1, <2>5
<1>4. \A n \in Nat : n \in T
  BY <1>2, <1>3, Induction
<1> QED
  BY <1>1, <1>4

Closing(b, ps) ==
    /\ Array(b.array) /\ b.placed \in Seq(OrderType)
    /\ \A s \in Symbols :
          /\ Val(b.array, s) = Val(ps, s) + FilledNet(b.placed, s)
          /\ Val(ps, s) = 0 => Val(b.array, s) = 0
    /\ \A j \in 1..Len(b.placed) : Val(b.array, b.placed[j].symbol) = 0

LEMMA ClosingStep ==
    ASSUME NEW ps, Array(ps), NEW b, Closing(b, ps), NEW i \in Nat \ {0}
    PROVE  Closing(After(b, i), ps)
<1>1. CASE i > Len(b.array)
  BY <1>1 DEF After
<1>2. CASE ~(i > Len(b.array))
  <2>1. PICK array, placed : array = b.array /\ placed = b.placed
    OBVIOUS
  <2>2. Array(array) /\ array \in Seq(PositionType) /\ placed \in Seq(OrderType)
    BY <2>1 DEF Closing, Array
  <2>3. i \in 1..Len(array) /\ DOMAIN array = 1..Len(array)
    BY <1>2, <2>1, <2>2
  <2>4. PICK p \in PositionType : p = array[i]
    BY <2>2, <2>3
  <2>5. PICK o : o = ClosingOrder(p)
    OBVIOUS
  <2>6. /\ o \in OrderType /\ o.symbol = p.symbol /\ o.status = "filled"
        /\ OrderLike(o) /\ Signed(o) = -Signed(p) /\ Signed(p) \in Int \ {0}
    BY <2>5 DEF ClosingOrder, PositionType, OrderType, OrderLike, Signed
  <2>7. Val(array, o.symbol) = Signed(p)
    BY <2>2, <2>3, <2>4, <2>6, ValOf
  <2>8. PICK array2, placed2 : /\ array2 = UpdatePosition(array, o)
                               /\ placed2 = Append(placed, o)
    OBVIOUS
  <2>9. After(b, i) = [array |-> array2, placed |-> placed2]
    <3>1. ~(i > Len(array)) /\ ClosingOrder(array[i]) = o
      BY <1>2, <2>1, <2>4, <2>5
    <3>2. After(b, i) =
             [array  |-> UpdatePosition(array, ClosingOrder(array[i])),
              placed |-> Append(placed, ClosingOrder(array[i]))]
      BY <1>2, <2>1 DEF After
    <3>3. After(b, i) = [array  |-> UpdatePosition(array, o),
                         placed |-> Append(placed, o)]
      BY <3>1, <3>2, Zenon
    <3> QED
      BY <2>8, <3>3, Zenon
  <2>10. /\ Array(array2) /\ Val(array2, o.symbol) = 0
         /\ \A s : s # o.symbol => Val(array2, s) = Val(array, s)
    <3>1. /\ Array(UpdatePosition(array, o))
          /\ Val(UpdatePosition(array, o), o.symbol)
                = Val(array, o.symbol) + Signed(o)
          /\ \A s : s # o.symbol => Val(UpdatePosition(array, o), s) = Val(array, s)
      BY <2>2, <2>6, UpdatePositionAdds, Zenon
    <3>2. /\ Array(array2)
          /\ Val(array2, o.symbol) = Val(array, o.symbol) + Signed(o)
          /\ \A s : s # o.symbol => Val(array2, s) = Val(array, s)
      BY <2>8, <3>1, Zenon
    <3>3. Val(array, o.symbol) + Signed(o) = 0
      BY <2>6, <2>7
    <3> QED
      BY <3>2, <3>3
  <2>11. /\ placed2 \in Seq(OrderType) /\ Len(placed2) = Len(placed) + 1
         /\ placed2[Len(placed) + 1] = o
         /\ \A j \in 1..Len(placed) : placed2[j] = placed[j]
    BY <2>2, <2>6, <2>8
  <2>12. ASSUME NEW s \in Symbols
         PROVE  /\ Val(array2, s) = Val(ps, s) + FilledNet(placed2, s)
                /\ Val(ps, s) = 0 => Val(array2, s) = 0
    <3>1. /\ Val(array, s) = Val(ps, s) + FilledNet(placed, s)
          /\ Val(ps, s) = 0 => Val(array, s) = 0
      BY <2>1 DEF Closing
    <3>2. FilledNet(placed2, s) = FilledNet(placed, s) + Delta(o, s)
      BY <2>2, <2>6, <2>8, FilledNetAppend
    <3>3. Val(ps, s) \in Int /\ FilledNet(placed, s) \in Int
      BY <2>2, ValType, FilledNetType
    <3>4. CASE s = o.symbol
      <4>1. Delta(o, s) = -Signed(p)
        BY <2>6, <3>4 DEF Delta
      <4> QED
        BY <2>6, <2>7, <2>10, <3>1, <3>2, <3>3, <3>4, <4>1
    <3>5. CASE s # o.symbol
      <4>1. Delta(o, s) = 0
        BY <3>5 DEF Delta
      <4> QED
        BY <2>10, <3>1, <3>2, <3>3, <3>5, <4>1
    <3> QED
      BY <3>4, <3>5
  <2>13. ASSUME NEW j \in 1..Len(placed2)
         PROVE  Val(array2, placed2[j].symbol) = 0
    <3>1. CASE j = Len(placed) + 1
      BY <2>10, <2>11, <3>1
    <3>2. CASE j # Len(placed) + 1
      <4>1. j \in 1..Len(placed) /\ placed2[j] = placed[j]
        BY <2>2, <2>11, <3>2
      <4>2. Val(array, placed[j].symbol) = 0
        BY <2>1, <4>1 DEF Closing
      <4>3. CASE placed[j].symbol = o.symbol
        BY <2>10, <4>1, <4>3
      <4>4. CASE placed[j].symbol # o.symbol
        BY <2>10, <4>1, <4>2, <4>4
      <4> QED
        BY <4>3, <4>4
    <3> QED
      BY <3>1, <3>2
  <2> QED
    BY <2>9, <2>10, <2>11, <2>12, <2>13 DEF Closing
<1> QED
  BY <1>1, <1>2

LEMMA ClosingOrdersClose ==
    ASSUME NEW ps, Array(ps)
    PROVE  \E b : ClosingOrders(ps) = b.placed /\ Closing(b, ps)
<1>1. PICK n \in Nat : n = Len(ps)
  BY DEF Array
<1>2. PICK f : f = CHOOSE g : Loop(g, ps, n)
  OBVIOUS
<1>3. Loop(f, ps, n)
  BY <1>2, LoopExists
<1>4. ClosingOrders(ps) = f[n].placed
  BY <1>1, <1>2, LoopIsChosen
<1>5. PICK T : T = {m \in Nat : m <= n => Closing(f[m], ps)}
  OBVIOUS
<1>6. 0 \in T
  <2>1. PICK b : b = [array |-> ps, placed |-> <<>>]
    OBVIOUS
  <2>2. b.array = ps /\ b.placed = <<>>
    BY <2>1
  <2>3. f[0] = b
    <3>1. 0 \in 0..n
      OBVIOUS
    <3> QED
      BY <1>3, <2>1, <3>1 DEF Loop
  <2>4. <<>> \in Seq(OrderType) /\ Len(<<>>) = 0
    BY EmptySeq
  <2>5. \A s \in Symbols : Val(ps, s) \in Int /\ FilledNet(<<>>, s) = 0
    BY ValType, FilledNetEmpty
  <2>6. Closing(b, ps)
    BY <2>2, <2>4, <2>5 DEF Closing
  <2> QED
    BY <1>5, <2>3, <2>6
<1>7. ASSUME NEW m \in Nat, m \in T
      PROVE  m + 1 \in T
  <2> SUFFICES ASSUME m + 1 <= n PROVE Closing(f[m + 1], ps)
    BY <1>5
  <2>1. Closing(f[m], ps)
    BY <1>5, <1>7
  <2>2. m + 1 \in 0..n /\ m + 1 # 0 /\ (m + 1) - 1 = m /\ m + 1 \in Nat \ {0}
    OBVIOUS
  <2>3. f[m + 1] = After(f[m], m + 1)
    BY <1>3, <2>2 DEF Loop
  <2> QED
    BY <2>1, <2>2, <2>3, ClosingStep
<1>8. \A m \in Nat : m \in T
  BY <1>6, <1>7, Induction
<1>9. Closing(f[n], ps)
  BY <1>5, <1>8
<1> QED
  BY <1>4, <1>9

(* A symbol that is not held, or that a closing order was placed for, has   *)
(* closing orders that add up to its position, reversed.                    *)
LEMMA FlattenCloses ==
    ASSUME NEW ps, Array(ps), NEW s \in Symbols,
           \/ ~Holds(ps, s)
           \/ \E j \in DOMAIN ClosingOrders(ps) : ClosingOrders(ps)[j].symbol = s
    PROVE  FilledNet(ClosingOrders(ps), s) = -Val(ps, s)
<1>1. PICK b : ClosingOrders(ps) = b.placed /\ Closing(b, ps)
  BY ClosingOrdersClose
<1>2. PICK placed \in Seq(OrderType) : placed = b.placed
  BY <1>1 DEF Closing
<1>3. Val(b.array, s) = 0
  <2>1. CASE ~Holds(ps, s)
    BY <1>1, <2>1, ValNone DEF Closing
  <2>2. CASE \E j \in DOMAIN placed : placed[j].symbol = s
    <3>1. PICK j \in 1..Len(placed) : placed[j].symbol = s
      BY <1>2, <2>2
    <3> QED
      BY <1>1, <1>2, <3>1 DEF Closing
  <2> QED
    BY <1>1, <1>2, <2>1, <2>2
<1>4. /\ Val(b.array, s) = Val(ps, s) + FilledNet(placed, s)
      /\ Val(ps, s) \in Int /\ FilledNet(placed, s) \in Int
  BY <1>1, <1>2, ValType, FilledNetType DEF Closing
<1> QED
  BY <1>1, <1>2, <1>3, <1>4

-----------------------------------------------------------------------------
(* Types.  The array stays Distinct, and the budgets only shrink.           *)

WithinBudget == budget.faults <= MaxFaults /\ budget.flattens <= MaxFlattens

IInv == TypeOK /\ Distinct(positions) /\ WithinBudget

Statuses == {"open", "placed", "filled", "rejected"}

LEMMA OrderOf ==
    ASSUME NEW os \in Seq(OrderType), NEW k \in DOMAIN os
    PROVE  os[k] \in OrderType /\ OrderLike(os[k])
<1>1. os[k] \in OrderType
  OBVIOUS
<1> QED
  BY <1>1 DEF OrderType, OrderLike

LEMMA StatusSet ==
    ASSUME NEW os \in Seq(OrderType), NEW k \in DOMAIN os, NEW st \in Statuses,
           NEW qs, qs = [os EXCEPT ![k].status = st]
    PROVE  /\ qs \in Seq(OrderType) /\ Len(qs) = Len(os) /\ DOMAIN qs = DOMAIN os
           /\ qs[k].symbol = os[k].symbol /\ Signed(qs[k]) = Signed(os[k])
           /\ qs[k].status = st
           /\ qs[k] = [os[k] EXCEPT !.status = st]
           /\ \A i \in DOMAIN os : i # k => qs[i] = os[i]
<1>1. os[k] \in OrderType
  OBVIOUS
<1>2. PICK o : o = [os[k] EXCEPT !.status = st]
  OBVIOUS
<1>3. /\ o \in OrderType /\ o.symbol = os[k].symbol /\ o.status = st
      /\ Signed(o) = Signed(os[k])
  BY <1>1, <1>2 DEF OrderType, Statuses, Signed
<1>4. qs = [os EXCEPT ![k] = o]
  BY <1>2
<1>5. PICK n \in Nat : n = Len(os) /\ DOMAIN os = 1..n
  OBVIOUS
<1>6. /\ qs \in Seq(OrderType) /\ Len(qs) = n
      /\ \A i \in 1..n : qs[i] = IF i = k THEN o ELSE os[i]
  BY <1>3, <1>4, <1>5, ExceptSeq
<1>7. DOMAIN qs = 1..n
  BY <1>6
<1>8. qs[k] = o /\ \A i \in DOMAIN os : i # k => qs[i] = os[i]
  BY <1>5, <1>6
<1> QED
  BY <1>2, <1>3, <1>5, <1>6, <1>7, <1>8

LEMMA StartupTyped == Startup \in ReconType /\ Serving \in ReconType
<1>1. <<>> \in [{} -> Actions]
  OBVIOUS
<1>2. <<>> \in UNION {[S -> Actions] : S \in SUBSET Symbols}
  BY <1>1
<1>3. NoPositions \in [Symbols -> Int]
  BY DEF NoPositions
<1> QED
  BY <1>2, <1>3 DEF Startup, Serving, ReconType, Steps

LEMMA EmptyArray == Array(<<>>) /\ \A s : Val(<<>>, s) = 0
<1>1. <<>> \in Seq(PositionType) /\ DOMAIN <<>> = {}
  OBVIOUS
<1>2. \A s : ~Holds(<<>>, s)
  BY <1>1 DEF Holds
<1> QED
  BY <1>1, <1>2, ValNone DEF Array, Distinct

LEMMA SpendShrinks ==
    ASSUME TypeOK, WithinBudget, NEW what \in {"flattens", "faults"}, Spend(what)
    PROVE  /\ budget' \in [flattens: Nat, faults: Nat]
           /\ WithinBudget'
           /\ budget'[what] = budget[what] - 1
           /\ what = "faults" => budget'.flattens = budget.flattens
<1>1. budget \in [flattens: Nat, faults: Nat] /\ MaxFaults \in Nat /\ MaxFlattens \in Nat
  BY PositionBooksAssumption DEF TypeOK
<1>2. CASE what = "flattens"
  BY <1>1, <1>2 DEF Spend, WithinBudget
<1>3. CASE what = "faults"
  BY <1>1, <1>3 DEF Spend, WithinBudget
<1> QED
  BY <1>2, <1>3

LEMMA InitInv == Init => IInv
<1> SUFFICES ASSUME Init PROVE IInv
  OBVIOUS
<1>1. Array(positions) /\ orders \in Seq(OrderType)
  BY EmptyArray DEF Init
<1>2. NoPositions \in [Symbols -> Int]
  BY DEF NoPositions
<1>3. /\ budget \in [flattens: Nat, faults: Nat] /\ budget.faults = MaxFaults
      /\ budget.flattens = MaxFlattens /\ MaxFaults \in Nat /\ MaxFlattens \in Nat
  BY PositionBooksAssumption DEF Init
<1>4. positions \in Seq(PositionType) /\ Distinct(positions)
  BY <1>1 DEF Array
<1>5. WithinBudget
  BY <1>3 DEF WithinBudget
<1> QED
  BY <1>1, <1>2, <1>3, <1>4, <1>5, StartupTyped DEF Init, IInv, TypeOK

LEMMA NewOrderInv ==
    ASSUME IInv, NEW trade \in Trades, NewOrder(trade)
    PROVE  IInv'
<1>1. trade \in [symbol: Symbols, side: {"buy", "sell"}, quantity: Nat \ {0}]
  BY PositionBooksAssumption
<1>2. PICK o : o = [symbol |-> trade.symbol, side |-> trade.side,
                    quantity |-> trade.quantity, status |-> "open"]
  OBVIOUS
<1>3. o \in OrderType
  BY <1>1, <1>2 DEF OrderType
<1>4. orders' \in Seq(OrderType)
  BY <1>2, <1>3 DEF NewOrder, IInv, TypeOK
<1> QED
  BY <1>4 DEF NewOrder, adapter, IInv, TypeOK, WithinBudget

LEMMA PlaceOrderInv ==
    ASSUME IInv, NEW k \in DOMAIN orders, PlaceOrder(k)
    PROVE  IInv'
<1>1. orders \in Seq(OrderType) /\ Array(positions) /\ net \in [Symbols -> Int]
  BY DEF IInv, TypeOK, Array
<1>2. PICK o \in OrderType : o = orders[k] /\ OrderLike(o)
  BY <1>1, OrderOf
<1>3. Array(positions') /\ Signed(o) \in Int
  BY <1>1, <1>2, UpdatePositionAdds DEF PlaceOrder
<1>4. net' \in [Symbols -> Int]
  <2>1. net' = [net EXCEPT ![o.symbol] = @ + Signed(o)] /\ o.symbol \in Symbols
    BY <1>2 DEF PlaceOrder, AddTo, OrderLike
  <2>2. net[o.symbol] + Signed(o) \in Int
    BY <1>1, <1>3, <2>1
  <2> QED
    BY <1>1, <2>1, <2>2
<1>5. orders' \in Seq(OrderType)
  <2>1. "placed" \in Statuses
    BY DEF Statuses
  <2> QED
    BY <1>1, <2>1, StatusSet DEF PlaceOrder
<1> QED
  BY <1>3, <1>4, <1>5 DEF PlaceOrder, IInv, TypeOK, Array, WithinBudget

LEMMA RecordFillInv ==
    ASSUME IInv, NEW k \in DOMAIN orders, RecordFill(k)
    PROVE  IInv'
<1>1. orders' \in Seq(OrderType)
  <2>1. "filled" \in Statuses /\ orders \in Seq(OrderType)
    BY DEF Statuses, IInv, TypeOK
  <2> QED
    BY <2>1, StatusSet DEF RecordFill
<1> QED
  BY <1>1 DEF RecordFill, adapter, IInv, TypeOK, WithinBudget

LEMMA RecordFaultInv ==
    ASSUME IInv, NEW k \in DOMAIN orders, RecordFault(k)
    PROVE  IInv'
<1>1. PICK st \in {"open", "rejected"} : orders' = [orders EXCEPT ![k].status = st]
  BY DEF RecordFault
<1>2. orders' \in Seq(OrderType)
  <2>1. st \in Statuses /\ orders \in Seq(OrderType)
    BY DEF Statuses, IInv, TypeOK
  <2> QED
    BY <1>1, <2>1, StatusSet
<1>3. budget' \in [flattens: Nat, faults: Nat] /\ WithinBudget'
  BY SpendShrinks DEF RecordFault, IInv
<1> QED
  BY <1>2, <1>3 DEF RecordFault, adapter, IInv, TypeOK

LEMMA FlattenInv ==
    ASSUME IInv, Flatten
    PROVE  IInv'
<1>1. PICK os : os = ClosingOrders(positions)
  OBVIOUS
<1>2. os \in Seq(OrderType)
  BY <1>1, ClosingOrdersClose DEF IInv, TypeOK, Array, Closing
<1>3. \A s \in Symbols : FilledNet(os, s) \in Int /\ net[s] \in Int
  BY <1>2, FilledNetType DEF IInv, TypeOK
<1>4. net' = [s \in Symbols |-> net[s] + FilledNet(os, s)]
  BY <1>1 DEF Flatten
<1>5. net' \in [Symbols -> Int]
  BY <1>3, <1>4
<1>6. budget' \in [flattens: Nat, faults: Nat] /\ WithinBudget'
  BY SpendShrinks DEF Flatten, IInv
<1>7. Array(positions')
  BY EmptyArray DEF Flatten
<1> QED
  BY <1>5, <1>6, <1>7 DEF Flatten, IInv, TypeOK, Array

LEMMA RebootInv ==
    ASSUME IInv, Reboot, Spend("faults"), UNCHANGED refused
    PROVE  IInv'
<1>1. orders' \in Seq(OrderType)
  <2>1. PICK n \in Nat : n = Len(orders) /\ DOMAIN orders = 1..n
    BY DEF IInv, TypeOK
  <2>2. ASSUME NEW k \in 1..n
        PROVE  (IF orders[k].status = "placed"
                  THEN [orders[k] EXCEPT !.status = "open"] ELSE orders[k])
                     \in OrderType
    <3>1. orders[k] \in OrderType
      BY <2>1 DEF IInv, TypeOK
    <3> QED
      BY <3>1 DEF OrderType
  <2>3. orders' \in [1..n -> OrderType]
    BY <2>1, <2>2 DEF Reboot
  <2> QED
    BY <2>3
<1>2. Array(positions')
  BY EmptyArray DEF Reboot
<1>3. net' \in [Symbols -> Int]
  BY DEF Reboot, NoPositions
<1>4. budget' \in [flattens: Nat, faults: Nat] /\ WithinBudget'
  BY SpendShrinks DEF IInv
<1> QED
  BY <1>1, <1>2, <1>3, <1>4, StartupTyped DEF Reboot, IInv, TypeOK, Array

LEMMA GoToTyped ==
    ASSUME IInv, NEW step \in Steps
    PROVE  [recon EXCEPT !.at = step] \in ReconType
BY DEF IInv, TypeOK, ReconType

LEMMA ReconInv ==
    ASSUME IInv, UNCHANGED Others, recon' \in ReconType,
           UNCHANGED budget \/ Spend("faults")
    PROVE  IInv'
<1>1. budget' \in [flattens: Nat, faults: Nat] /\ WithinBudget'
  <2>1. CASE UNCHANGED budget
    BY <2>1 DEF IInv, TypeOK, WithinBudget
  <2>2. CASE Spend("faults")
    BY <2>2, SpendShrinks DEF IInv
  <2> QED
    BY <2>1, <2>2
<1> QED
  BY <1>1 DEF Others, adapter, IInv, TypeOK

LEMMA CompareTyped ==
    ASSUME IInv, Compare
    PROVE  recon' \in ReconType
<1>1. PICK D : D = FindDiscrepancies
  OBVIOUS
<1>2. D \subseteq Symbols
  BY <1>1 DEF FindDiscrepancies
<1>3. PICK F : F = [s \in D |-> DetermineResolutionAction(BrokerPosition(s),
                                                          recon.system[s])]
  OBVIOUS
<1>4. \A b, n : DetermineResolutionAction(b, n) \in Actions
  BY DEF DetermineResolutionAction, Actions
<1>5. F \in [D -> Actions]
  BY <1>3, <1>4
<1>6. F \in UNION {[S -> Actions] : S \in SUBSET Symbols}
  BY <1>2, <1>5
<1>7. recon' = [recon EXCEPT !.at = "resolve", !.left = D, !.found = F]
  BY <1>1, <1>3 DEF Compare
<1> QED
  BY <1>2, <1>6, <1>7 DEF IInv, TypeOK, ReconType, Steps

LEMMA StartupStepTyped ==
    ASSUME IInv, StartupStep
    PROVE  recon' \in ReconType /\ UNCHANGED <<Others, budget>>
<1>1. CASE LoadAccounts
  <2>1. "broker" \in Steps
    BY DEF Steps
  <2> QED
    BY <1>1, <2>1, GoToTyped, StartupTyped DEF LoadAccounts
<1>2. CASE LoadBrokerPositions
  <2>1. {"system", "recordFailed"} \subseteq Steps
    BY DEF Steps
  <2> QED
    BY <1>2, <2>1, GoToTyped DEF LoadBrokerPositions, GoTo
<1>3. CASE LoadSystemPositions
  <2>1. \A s \in Symbols : SystemPositions(s) \in Int
    BY FilledNetType DEF SystemPositions, IInv, TypeOK
  <2>2. PICK N : N = [s \in Symbols |-> SystemPositions(s)]
    OBVIOUS
  <2>3. N \in [Symbols -> Int]
    BY <2>1, <2>2
  <2>4. recon' = [recon EXCEPT !.at = "compare", !.system = N]
    BY <1>3, <2>2 DEF LoadSystemPositions
  <2>5. recon' \in ReconType
    BY <2>3, <2>4 DEF IInv, TypeOK, ReconType, Steps
  <2> QED
    BY <1>3, <2>5 DEF LoadSystemPositions
<1>4. CASE Compare
  BY <1>4, CompareTyped DEF Compare
<1>5. CASE \E s \in Symbols : Resolve(s)
  <2>1. PICK s \in Symbols : Resolve(s)
    BY <1>5
  <2> QED
    BY <2>1 DEF Resolve, IInv, TypeOK, ReconType
<1>6. CASE AllResolved
  <2>1. "record" \in Steps
    BY DEF Steps
  <2> QED
    BY <1>6, <2>1, GoToTyped DEF AllResolved, GoTo
<1>7. CASE Record
  <2>1. {"snapshot", "recordFailed"} \subseteq Steps
    BY DEF Steps
  <2> QED
    BY <1>7, <2>1, GoToTyped DEF Record, GoTo
<1>8. CASE StorePositionSnapshot
  BY <1>8, StartupTyped DEF StorePositionSnapshot
<1>9. CASE RecordFailed
  BY <1>9, StartupTyped DEF RecordFailed
<1> QED
  BY <1>1, <1>2, <1>3, <1>4, <1>5, <1>6, <1>7, <1>8, <1>9 DEF StartupStep

LEMMA FaultTyped ==
    ASSUME IInv, (\E s \in Symbols : ResolveFault(s)) \/ ReconcileFault
    PROVE  recon' \in ReconType /\ Spend("faults") /\ UNCHANGED Others
<1>1. CASE \E s \in Symbols : ResolveFault(s)
  BY <1>1 DEF ResolveFault, IInv, TypeOK, ReconType
<1>2. CASE ReconcileFault
  <2>1. "recordFailed" \in Steps
    BY DEF Steps
  <2> QED
    BY <1>2, <2>1, GoToTyped DEF ReconcileFault, GoTo
<1> QED
  BY <1>1, <1>2

LEMMA NextInv == IInv /\ [Next]_vars => IInv'
<1> SUFFICES ASSUME IInv, [Next]_vars PROVE IInv'
  OBVIOUS
<1>1. CASE \E trade \in Trades : NewOrder(trade)
  BY <1>1, NewOrderInv
<1>2. CASE \E k \in DOMAIN orders : PlaceOrder(k) \/ RecordFill(k) \/ RecordFault(k)
  BY <1>2, PlaceOrderInv, RecordFillInv, RecordFaultInv
<1>3. CASE Flatten
  BY <1>3, FlattenInv
<1>4. CASE Restart \/ StartupFault
  BY <1>4, RebootInv DEF Restart, StartupFault
<1>5. CASE StartupStep
  BY <1>5, StartupStepTyped, ReconInv
<1>6. CASE (\E s \in Symbols : ResolveFault(s)) \/ ReconcileFault
  BY <1>6, FaultTyped, ReconInv
<1>7. CASE UNCHANGED vars
  BY <1>7 DEF vars, IInv, TypeOK, WithinBudget
<1> QED
  BY <1>1, <1>2, <1>3, <1>4, <1>5, <1>6, <1>7 DEF Next

LEMMA InvInductive == Spec => []IInv
BY InitInv, NextInv, PTL DEF Spec

(* The array, the books, the orders and the report keep their types. *)
THEOREM TypeCorrect == Spec => []TypeOK
<1>1. IInv => TypeOK
  BY DEF IInv
<1> QED
  BY <1>1, InvInductive, PTL

(* However orders open, enlarge, close and reverse positions, and whatever  *)
(* fails, the array never has two positions of a symbol or an empty one     *)
(* (OnePositionPerSymbol).                                                  *)
THEOREM OnePositionPerSymbolHolds == Spec => []OnePositionPerSymbol
<1>1. IInv => OnePositionPerSymbol
  <2> SUFFICES ASSUME IInv PROVE OnePositionPerSymbol
    OBVIOUS
  <2>1. \A i \in DOMAIN positions : positions[i] \in PositionType
    BY DEF IInv, TypeOK
  <2>2. \A i \in DOMAIN positions : positions[i].quantity > 0
    BY <2>1 DEF PositionType
  <2> QED
    BY <2>2 DEF IInv, Distinct, OnePositionPerSymbol
<1> QED
  BY <1>1, InvInductive, PTL

-----------------------------------------------------------------------------
(* The position of a symbol is what the filled orders add up to.            *)

Matches == \A s \in Symbols \ skipped : Val(positions, s) = net[s]

LEMMA BrokerIsVal == \A s : BrokerPosition(s) = Val(positions, s)
BY DEF BrokerPosition, Val

LEMMA Forgets ==
    ASSUME HistoryNext, budget'.flattens = budget.flattens
    PROVE  skipped' = skipped \/ (positions' = <<>> /\ net' = NoPositions)
BY DEF HistoryNext

LEMMA EmptyMatches ==
    ASSUME positions' = <<>>, net' = NoPositions
    PROVE  Matches'
<1>1. \A s : Val(positions', s) = 0
  BY EmptyArray
<1>2. \A s \in Symbols : net'[s] = 0
  BY DEF NoPositions
<1> QED
  BY <1>1, <1>2 DEF Matches

LEMMA StillMatches ==
    ASSUME Matches, HistoryNext, budget'.flattens = budget.flattens,
           UNCHANGED <<positions, net>>
    PROVE  Matches'
<1>1. CASE skipped' = skipped
  BY <1>1 DEF Matches
<1>2. CASE positions' = <<>> /\ net' = NoPositions
  BY <1>2, EmptyMatches
<1> QED
  BY <1>1, <1>2, Forgets

LEMMA PlaceMatches ==
    ASSUME IInv, Matches, HistoryNext, NEW k \in DOMAIN orders, PlaceOrder(k)
    PROVE  Matches'
<1>1. orders \in Seq(OrderType) /\ Array(positions) /\ net \in [Symbols -> Int]
  BY DEF IInv, TypeOK, Array
<1>2. PICK o \in OrderType : o = orders[k] /\ OrderLike(o)
  BY <1>1, OrderOf
<1>3. /\ Val(positions', o.symbol) = Val(positions, o.symbol) + Signed(o)
      /\ \A s : s # o.symbol => Val(positions', s) = Val(positions, s)
      /\ Signed(o) \in Int
  BY <1>1, <1>2, UpdatePositionAdds DEF PlaceOrder
<1>4. /\ o.symbol \in Symbols /\ net'[o.symbol] = net[o.symbol] + Signed(o)
      /\ \A s \in Symbols : s # o.symbol => net'[s] = net[s]
  <2>1. net' = [net EXCEPT ![o.symbol] = @ + Signed(o)] /\ o.symbol \in Symbols
    BY <1>2 DEF PlaceOrder, AddTo, OrderLike
  <2> QED
    BY <1>1, <2>1
<1>5. CASE skipped' = skipped
  <2> SUFFICES ASSUME NEW s \in Symbols, s \notin skipped
               PROVE  Val(positions', s) = net'[s]
    BY <1>5 DEF Matches
  <2>1. Val(positions, s) = net[s]
    BY DEF Matches
  <2> QED
    BY <1>3, <1>4, <2>1
<1>6. CASE positions' = <<>> /\ net' = NoPositions
  BY <1>6, EmptyMatches
<1>7. budget'.flattens = budget.flattens
  BY DEF PlaceOrder
<1> QED
  BY <1>5, <1>6, <1>7, Forgets

LEMMA FlattenMatches ==
    ASSUME IInv, Matches, HistoryNext, Flatten
    PROVE  Matches'
<1>1. Array(positions) /\ net \in [Symbols -> Int]
  BY DEF IInv, TypeOK, Array
<1>2. budget'.flattens # budget.flattens
  <2>1. budget'.flattens = budget.flattens - 1 /\ budget.flattens \in Nat
    BY SpendShrinks DEF Flatten, IInv, TypeOK
  <2> QED
    BY <2>1
<1>3. skipped' = skipped \cup (Held \ Closed)
  BY <1>2 DEF HistoryNext
<1> SUFFICES ASSUME NEW s \in Symbols, s \notin skipped, s \notin Held \ Closed
             PROVE  Val(positions', s) = net'[s]
  BY <1>3 DEF Matches
<1>4. \/ ~Holds(positions, s)
      \/ \E j \in DOMAIN ClosingOrders(positions) :
            ClosingOrders(positions)[j].symbol = s
  <2>1. CASE s \notin Held
    BY <2>1 DEF Held, Holds
  <2>2. CASE s \in Closed
    BY <2>2 DEF Closed
  <2> QED
    BY <2>1, <2>2
<1>5. FilledNet(ClosingOrders(positions), s) = -Val(positions, s)
  BY <1>1, <1>4, FlattenCloses
<1>6. Val(positions, s) = net[s] /\ net[s] \in Int
  BY <1>1 DEF Matches
<1>7. net'[s] = net[s] + FilledNet(ClosingOrders(positions), s)
  BY DEF Flatten
<1>8. Val(positions', s) = 0
  BY EmptyArray DEF Flatten
<1> QED
  BY <1>5, <1>6, <1>7, <1>8

(* What a step does to the array, the books and the flattens. *)
LEMMA StepKinds ==
    ASSUME IInv, Next
    PROVE  \/ \E k \in DOMAIN orders : PlaceOrder(k)
           \/ Flatten
           \/ /\ positions' = <<>> /\ net' = NoPositions
              /\ Reboot /\ Spend("faults")
           \/ /\ UNCHANGED <<positions, net>>
              /\ budget'.flattens = budget.flattens
<1>1. Spend("faults") => budget'.flattens = budget.flattens
  BY SpendShrinks DEF IInv
<1>2. CASE \E trade \in Trades : NewOrder(trade)
  BY <1>2 DEF NewOrder, adapter
<1>3. CASE \E k \in DOMAIN orders : RecordFill(k) \/ RecordFault(k)
  BY <1>1, <1>3 DEF RecordFill, RecordFault, adapter
<1>4. CASE Restart \/ StartupFault
  BY <1>4 DEF Restart, StartupFault, Reboot
<1>5. CASE StartupStep
  BY <1>5, StartupStepTyped DEF Others, adapter
<1>6. CASE (\E s \in Symbols : ResolveFault(s)) \/ ReconcileFault
  BY <1>1, <1>6, FaultTyped DEF Others, adapter
<1>7. CASE UNCHANGED vars
  BY <1>7 DEF vars
<1> QED
  BY <1>2, <1>3, <1>4, <1>5, <1>6, <1>7 DEF Next

LEMMA MatchesStep == IInv /\ Matches /\ [HistoryNext]_hvars => Matches'
<1> SUFFICES ASSUME IInv, Matches, [HistoryNext]_hvars PROVE Matches'
  OBVIOUS
<1>1. CASE UNCHANGED hvars
  BY <1>1 DEF hvars, vars, Matches
<1>2. CASE HistoryNext
  <2>1. Next
    BY <1>2 DEF HistoryNext
  <2> QED
    BY <1>2, <2>1, StepKinds, PlaceMatches, FlattenMatches, EmptyMatches,
       StillMatches
<1> QED
  BY <1>1, <1>2

LEMMA HistorySteps ==
    /\ HistoryInit => Init
    /\ [HistoryNext]_hvars => [Next]_vars
BY DEF HistoryInit, HistoryNext, hvars

LEMMA HistoryInductive == HistorySpec => [](IInv /\ Matches)
<1>1. HistoryInit => IInv /\ Matches
  <2> SUFFICES ASSUME HistoryInit PROVE IInv /\ Matches
    OBVIOUS
  <2>1. \A s \in Symbols : Val(positions, s) = 0 /\ net[s] = 0
    BY EmptyArray DEF HistoryInit, Init, NoPositions
  <2> QED
    BY <2>1, InitInv, HistorySteps DEF Matches
<1>2. IInv /\ Matches /\ [HistoryNext]_hvars => (IInv /\ Matches)'
  BY NextInv, MatchesStep, HistorySteps
<1> QED
  BY <1>1, <1>2, PTL DEF HistorySpec

(* Whatever is placed, fails and restarts, the broker's position of each    *)
(* symbol is what its filled orders add up to, flattened or not, unless the *)
(* symbol was one of those that a flatten skipped (PositionsMatchFills).    *)
THEOREM PositionsMatchFillsHolds == HistorySpec => []PositionsMatchFills
<1>1. Matches => PositionsMatchFills
  BY BrokerIsVal DEF Matches, PositionsMatchFills
<1> QED
  BY <1>1, HistoryInductive, PTL

-----------------------------------------------------------------------------
(* The reconciliation.  While the server starts, what the broker has and    *)
(* the gap are what the rows would add up to if those on their way were     *)
(* recorded (Recorded); for a symbol that has none on its way, that is what *)
(* they do add up to.                                                       *)

AsRecorded(o) ==
    IF o.status = "placed" THEN [o EXCEPT !.status = "filled"] ELSE o

Recorded(os) == [k \in DOMAIN os |-> AsRecorded(os[k])]

Agreed ==
    /\ skipped = {}
    /\ \A s \in Symbols : net[s] + gap[s] = FilledNet(Recorded(orders), s)
    /\ InFlight \subseteq moved
    /\ recon.at = "compare" =>
          \A s \in Symbols \ moved : recon.system[s] = net[s] + gap[s]
    /\ recon.at \in {"resolve", "record"} =>
          \A s \in Symbols \ moved : s \in DOMAIN recon.found <=> gap[s] # 0

GapType == gap \in [Symbols -> Int]

ReconAgrees == GapType /\ (recon.at # "serving" => Agreed)

LEMMA RecordedOf ==
    ASSUME NEW os \in Seq(OrderType)
    PROVE  /\ Recorded(os) \in Seq(OrderType) /\ Len(Recorded(os)) = Len(os)
           /\ \A k \in DOMAIN os : Recorded(os)[k] = AsRecorded(os[k])
<1>1. PICK n \in Nat : n = Len(os) /\ DOMAIN os = 1..n
  OBVIOUS
<1>2. PICK rs : rs = Recorded(os)
  OBVIOUS
<1>3. \A k \in 1..n : rs[k] = AsRecorded(os[k])
  BY <1>1, <1>2 DEF Recorded
<1>4. ASSUME NEW k \in 1..n
      PROVE  rs[k] \in OrderType
  <2>1. os[k] \in OrderType
    BY <1>1
  <2> QED
    BY <1>3, <2>1 DEF OrderType, AsRecorded
<1>5. rs \in [1..n -> OrderType]
  BY <1>1, <1>2, <1>4 DEF Recorded
<1>6. rs \in Seq(OrderType) /\ Len(rs) = n
  BY <1>5
<1> QED
  BY <1>1, <1>2, <1>3, <1>6

(* Orders that count alike add up to the same. *)
LEMMA FilledNetSame ==
    ASSUME NEW os \in Seq(OrderType), NEW qs \in Seq(OrderType), NEW s,
           Len(qs) = Len(os),
           \A k \in 1..Len(os) : Delta(qs[k], s) = Delta(os[k], s)
    PROVE  FilledNet(qs, s) = FilledNet(os, s)
<1>1. PICK P : Sums(P, os, s)
  BY SumsExist
<1>2. Sums(P, qs, s)
  BY <1>1 DEF Sums
<1> QED
  BY <1>1, <1>2, FilledNetSums

LEMMA NoneOfSymbol ==
    ASSUME NEW os \in Seq(OrderType), NEW s,
           \A k \in DOMAIN os : os[k].symbol = s => os[k].status # "placed"
    PROVE  FilledNet(Recorded(os), s) = FilledNet(os, s)
<1>1. PICK rs : rs = Recorded(os)
  OBVIOUS
<1>2. /\ rs \in Seq(OrderType) /\ Len(rs) = Len(os)
      /\ \A k \in DOMAIN os : rs[k] = AsRecorded(os[k])
  BY <1>1, RecordedOf
<1>3. ASSUME NEW k \in 1..Len(os)
      PROVE  Delta(rs[k], s) = Delta(os[k], s)
  <2>1. k \in DOMAIN os /\ os[k] \in OrderType
    OBVIOUS
  <2>2. CASE os[k].status # "placed"
    <3>1. rs[k] = os[k]
      BY <1>2, <2>1, <2>2 DEF AsRecorded
    <3> QED
      BY <3>1
  <2>3. CASE os[k].status = "placed"
    <3>1. os[k].symbol # s
      BY <2>1, <2>3
    <3>2. rs[k].symbol = os[k].symbol
      BY <1>2, <2>1, <2>3 DEF AsRecorded, OrderType
    <3> QED
      BY <3>1, <3>2 DEF Delta
  <2> QED
    BY <2>2, <2>3
<1> QED
  BY <1>1, <1>2, <1>3, FilledNetSame

(* What the server was given to do while it starts, unless it starts anew. *)
Starting == /\ HistoryNext /\ recon'.at # "serving"
            /\ ~(Restart \/ StartupFault)

LEMMA GapKept ==
    ASSUME Starting, Dropped = {}
    PROVE  UNCHANGED gap
BY DEF Starting, HistoryNext, GapStep

LEMMA MovedGrows ==
    ASSUME HistoryNext
    PROVE  /\ InFlight' \subseteq moved'
           /\ recon'.at \in {"compare", "resolve", "record"} => moved \subseteq moved'
BY DEF HistoryNext

LEMMA SkippedNone ==
    ASSUME HistoryNext, Agreed, budget'.flattens = budget.flattens
    PROVE  skipped' = {}
BY DEF HistoryNext, Agreed

(* A step of the orders: only symbols that moved are disturbed. *)
LEMMA OrdersAgree ==
    ASSUME IInv, Agreed, HistoryNext, UNCHANGED recon,
           budget'.flattens = budget.flattens,
           \A s \in Symbols : net'[s] + gap'[s] = FilledNet(Recorded(orders'), s),
           ASSUME recon.at \in {"compare", "resolve", "record"}
           PROVE  \A s \in Symbols \ moved' : net'[s] = net[s] /\ gap'[s] = gap[s]
    PROVE  Agreed'
<1>1. skipped' = {} /\ InFlight' \subseteq moved'
  BY SkippedNone, MovedGrows
<1>2. ASSUME recon'.at = "compare", NEW s \in Symbols \ moved'
      PROVE  recon'.system[s] = net'[s] + gap'[s]
  <2>1. s \notin moved /\ recon.at = "compare"
    BY <1>2, MovedGrows
  <2> QED
    BY <1>2, <2>1 DEF Agreed
<1>3. ASSUME recon'.at \in {"resolve", "record"}, NEW s \in Symbols \ moved'
      PROVE  s \in DOMAIN recon'.found <=> gap'[s] # 0
  <2>1. s \notin moved /\ recon.at \in {"resolve", "record"}
    BY <1>3, MovedGrows
  <2> QED
    BY <1>3, <2>1 DEF Agreed
<1> QED
  BY <1>1, <1>2, <1>3 DEF Agreed

LEMMA NewOrderAgrees ==
    ASSUME IInv, Agreed, GapType, Starting, NEW trade \in Trades, NewOrder(trade)
    PROVE  Agreed'
<1>1. trade \in [symbol: Symbols, side: {"buy", "sell"}, quantity: Nat \ {0}]
  BY PositionBooksAssumption
<1>2. PICK o : o = [symbol |-> trade.symbol, side |-> trade.side,
                    quantity |-> trade.quantity, status |-> "open"]
  OBVIOUS
<1>3. o \in OrderType /\ o.status = "open"
  BY <1>1, <1>2 DEF OrderType
<1>4. PICK os \in Seq(OrderType) : os = orders
  BY DEF IInv, TypeOK
<1>5. PICK n \in Nat : n = Len(os) /\ DOMAIN os = 1..n
  OBVIOUS
<1>6. PICK qs : qs = Append(os, o) /\ orders' = qs
  BY <1>2, <1>4 DEF NewOrder
<1>7. /\ qs \in Seq(OrderType) /\ Len(qs) = n + 1 /\ DOMAIN qs = 1..(n + 1)
      /\ qs[n + 1] = o /\ \A k \in 1..n : qs[k] = os[k]
  BY <1>3, <1>5, <1>6
<1>8. Recorded(qs) = Append(Recorded(os), o)
  <2>1. PICK rs, ts : rs = Recorded(os) /\ ts = Recorded(qs)
    OBVIOUS
  <2>2. /\ rs \in Seq(OrderType) /\ Len(rs) = n
        /\ \A k \in 1..n : rs[k] = AsRecorded(os[k])
    BY <1>5, <2>1, RecordedOf
  <2>3. /\ ts \in Seq(OrderType) /\ Len(ts) = n + 1
        /\ \A k \in 1..(n + 1) : ts[k] = AsRecorded(qs[k])
    BY <1>7, <2>1, RecordedOf
  <2>4. PICK us : us = Append(rs, o)
    OBVIOUS
  <2>5. /\ us \in Seq(OrderType) /\ Len(us) = n + 1 /\ us[n + 1] = o
        /\ \A k \in 1..n : us[k] = rs[k]
    BY <1>3, <2>2, <2>4
  <2>6. ASSUME NEW k \in 1..(n + 1) PROVE ts[k] = us[k]
    <3>1. CASE k = n + 1
      <4>1. ts[n + 1] = o
        BY <1>3, <1>7, <2>3, <3>1 DEF AsRecorded
      <4> QED
        BY <2>5, <3>1, <4>1
    <3>2. CASE k # n + 1
      <4>1. k \in 1..n
        BY <3>2
      <4> QED
        BY <1>7, <2>2, <2>3, <2>5, <3>2, <4>1
    <3> QED
      BY <3>1, <3>2
  <2>7. ts = us
    BY <2>3, <2>5, <2>6, SeqEqual
  <2> QED
    BY <2>1, <2>4, <2>7
<1>9. UNCHANGED <<net, gap, recon, budget>>
  <2>1. Dropped = {}
    BY <1>4, <1>5, <1>6, <1>7 DEF Dropped
  <2> QED
    BY <2>1, GapKept DEF NewOrder, adapter
<1>10. ASSUME NEW s \in Symbols
       PROVE  net'[s] + gap'[s] = FilledNet(Recorded(orders'), s)
  <2>1. FilledNet(Recorded(qs), s) = FilledNet(Recorded(os), s) + Delta(o, s)
    BY <1>3, <1>8, RecordedOf, FilledNetAppend
  <2>2. Delta(o, s) = 0 /\ FilledNet(Recorded(os), s) \in Int
    BY <1>3, RecordedOf, FilledNetType DEF Delta
  <2>3. net'[s] + gap'[s] = FilledNet(Recorded(os), s)
    BY <1>4, <1>9 DEF Agreed
  <2> QED
    BY <1>6, <2>1, <2>2, <2>3
<1> QED
  BY <1>9, <1>10, OrdersAgree DEF Starting

LEMMA PlaceOrderAgrees ==
    ASSUME IInv, Agreed, GapType, Starting, NEW k \in DOMAIN orders, PlaceOrder(k)
    PROVE  Agreed'
<1>1. PICK os \in Seq(OrderType) : os = orders
  BY DEF IInv, TypeOK
<1>2. PICK o \in OrderType : o = os[k] /\ OrderLike(o) /\ o.status = "open"
  BY <1>1, OrderOf DEF PlaceOrder
<1>3. PICK qs : qs = [os EXCEPT ![k].status = "placed"] /\ orders' = qs
  BY <1>1 DEF PlaceOrder
<1>4. /\ qs \in Seq(OrderType) /\ Len(qs) = Len(os) /\ DOMAIN qs = DOMAIN os
      /\ qs[k].symbol = o.symbol /\ Signed(qs[k]) = Signed(o)
      /\ qs[k].status = "placed" /\ qs[k] \in OrderType
      /\ \A i \in DOMAIN os : i # k => qs[i] = os[i]
  <2>1. "placed" \in Statuses /\ k \in DOMAIN os
    BY <1>1 DEF Statuses
  <2>2. /\ qs \in Seq(OrderType) /\ Len(qs) = Len(os) /\ DOMAIN qs = DOMAIN os
        /\ qs[k].symbol = os[k].symbol /\ Signed(qs[k]) = Signed(os[k])
        /\ qs[k].status = "placed"
        /\ \A i \in DOMAIN os : i # k => qs[i] = os[i]
    BY <1>3, <2>1, StatusSet
  <2>3. qs[k] \in OrderType
    BY <2>1, <2>2, OrderOf
  <2> QED
    BY <1>2, <2>2, <2>3
<1>5. PICK rs, ts : rs = Recorded(os) /\ ts = Recorded(qs)
  OBVIOUS
<1>6. /\ rs \in Seq(OrderType) /\ ts \in Seq(OrderType) /\ Len(ts) = Len(rs)
      /\ k \in 1..Len(rs) /\ rs[k] = o
      /\ ts[k] = [qs[k] EXCEPT !.status = "filled"]
      /\ \A i \in 1..Len(rs) : i # k => ts[i] = rs[i]
  <2>1. /\ rs \in Seq(OrderType) /\ Len(rs) = Len(os)
        /\ \A i \in DOMAIN os : rs[i] = AsRecorded(os[i])
    BY <1>5, RecordedOf
  <2>2. /\ ts \in Seq(OrderType) /\ Len(ts) = Len(qs)
        /\ \A i \in DOMAIN qs : ts[i] = AsRecorded(qs[i])
    BY <1>4, <1>5, RecordedOf
  <2>3. k \in DOMAIN os /\ DOMAIN os = 1..Len(rs)
    BY <1>1, <2>1
  <2>4. rs[k] = o
    BY <1>2, <2>1, <2>3 DEF AsRecorded
  <2>5. ts[k] = [qs[k] EXCEPT !.status = "filled"]
    BY <1>4, <2>2, <2>3 DEF AsRecorded
  <2>6. \A i \in 1..Len(rs) : i # k => ts[i] = rs[i]
    BY <1>4, <2>1, <2>2, <2>3
  <2> QED
    BY <1>4, <2>1, <2>2, <2>3, <2>4, <2>5, <2>6
<1>7. /\ ts[k].symbol = o.symbol /\ ts[k].status = "filled"
      /\ Signed(ts[k]) = Signed(o)
  BY <1>4, <1>6 DEF OrderType, Signed
<1>8. net \in [Symbols -> Int] /\ Signed(o) \in Int
  BY <1>2 DEF IInv, TypeOK, OrderLike, Signed
<1>9. /\ o.symbol \in Symbols /\ net'[o.symbol] = net[o.symbol] + Signed(o)
      /\ \A s \in Symbols : s # o.symbol => net'[s] = net[s]
  <2>1. net' = [net EXCEPT ![o.symbol] = @ + Signed(o)] /\ o.symbol \in Symbols
    BY <1>1, <1>2 DEF PlaceOrder, AddTo, OrderLike
  <2> QED
    BY <1>8, <2>1
<1>10. UNCHANGED <<gap, recon, budget>> /\ gap \in [Symbols -> Int]
  <2>1. Dropped = {}
    BY <1>1, <1>2, <1>3, <1>4 DEF Dropped
  <2> QED
    BY <2>1, GapKept DEF PlaceOrder, GapType
<1>11. ASSUME NEW s \in Symbols
       PROVE  net'[s] + gap'[s] = FilledNet(Recorded(orders'), s)
  <2>1. FilledNet(ts, s) = FilledNet(rs, s) - Delta(rs[k], s) + Delta(ts[k], s)
    BY <1>6, FilledNetReplace
  <2>2. /\ net[s] + gap[s] = FilledNet(rs, s) /\ net[s] \in Int /\ gap[s] \in Int
        /\ FilledNet(rs, s) \in Int
    BY <1>1, <1>5, <1>6, <1>8, <1>10, FilledNetType DEF Agreed
  <2>3. Delta(rs[k], s) = 0
    BY <1>2, <1>6 DEF Delta
  <2>4. Delta(ts[k], s) = IF s = o.symbol THEN Signed(o) ELSE 0
    BY <1>7 DEF Delta
  <2>5. net'[s] = net[s] + Delta(ts[k], s)
    BY <1>8, <1>9, <2>2, <2>4
  <2>6. Delta(ts[k], s) \in Int
    BY <1>8, <2>4
  <2>7. net'[s] + gap[s] = FilledNet(ts, s)
    BY <2>1, <2>2, <2>3, <2>5, <2>6
  <2> QED
    BY <1>3, <1>5, <1>10, <2>7
<1>12. o.symbol \in InFlight'
  BY <1>1, <1>3, <1>4 DEF InFlight
<1>13. ASSUME NEW s \in Symbols \ moved' PROVE net'[s] = net[s] /\ gap'[s] = gap[s]
  BY <1>9, <1>10, <1>12, MovedGrows DEF Starting
<1> QED
  BY <1>10, <1>11, <1>13, OrdersAgree DEF Starting

LEMMA RecordFillAgrees ==
    ASSUME IInv, Agreed, GapType, Starting, NEW k \in DOMAIN orders, RecordFill(k)
    PROVE  Agreed'
<1>1. PICK os \in Seq(OrderType) : os = orders
  BY DEF IInv, TypeOK
<1>2. PICK qs : qs = [os EXCEPT ![k].status = "filled"] /\ orders' = qs
  BY <1>1 DEF RecordFill
<1>3. /\ qs \in Seq(OrderType) /\ Len(qs) = Len(os) /\ DOMAIN qs = DOMAIN os
      /\ qs[k].status = "filled" /\ qs[k] = [os[k] EXCEPT !.status = "filled"]
      /\ \A i \in DOMAIN os : i # k => qs[i] = os[i]
  <2>1. "filled" \in Statuses /\ k \in DOMAIN os
    BY <1>1 DEF Statuses
  <2> QED
    BY <1>2, <2>1, StatusSet
<1>4. os[k].status = "placed"
  BY <1>1 DEF RecordFill
<1>5. PICK rs, ts : rs = Recorded(os) /\ ts = Recorded(qs)
  OBVIOUS
<1>6. /\ rs \in Seq(OrderType) /\ ts \in Seq(OrderType) /\ Len(ts) = Len(rs)
      /\ rs[k] = qs[k] /\ ts[k] = qs[k]
      /\ \A i \in DOMAIN os : i # k => ts[i] = rs[i]
      /\ DOMAIN os = 1..Len(rs)
  <2>1. /\ rs \in Seq(OrderType) /\ Len(rs) = Len(os)
        /\ \A i \in DOMAIN os : rs[i] = AsRecorded(os[i])
    BY <1>5, RecordedOf
  <2>2. /\ ts \in Seq(OrderType) /\ Len(ts) = Len(qs)
        /\ \A i \in DOMAIN qs : ts[i] = AsRecorded(qs[i])
    BY <1>3, <1>5, RecordedOf
  <2>3. k \in DOMAIN os /\ DOMAIN os = 1..Len(rs)
    BY <1>1, <2>1
  <2>4. rs[k] = qs[k]
    BY <1>3, <1>4, <2>1, <2>3 DEF AsRecorded
  <2>5. ts[k] = qs[k]
    BY <1>3, <2>2, <2>3 DEF AsRecorded
  <2>6. \A i \in DOMAIN os : i # k => ts[i] = rs[i]
    BY <1>3, <2>1, <2>2
  <2> QED
    BY <1>3, <2>1, <2>2, <2>3, <2>4, <2>5, <2>6
<1>7. ts = rs
  BY <1>6, SeqEqual
<1>8. UNCHANGED <<net, gap, recon, budget>>
  <2>1. Dropped = {}
    BY <1>1, <1>2, <1>3 DEF Dropped
  <2> QED
    BY <2>1, GapKept DEF RecordFill, adapter
<1>9. \A s \in Symbols : net'[s] + gap'[s] = FilledNet(Recorded(orders'), s)
  BY <1>1, <1>2, <1>5, <1>7, <1>8 DEF Agreed
<1> QED
  BY <1>8, <1>9, OrdersAgree DEF Starting

(* A fill that is not recorded leaves the broker ahead of the books. *)
LEMMA RecordFaultAgrees ==
    ASSUME IInv, Agreed, GapType, Starting, NEW k \in DOMAIN orders, RecordFault(k)
    PROVE  Agreed'
<1>1. PICK os \in Seq(OrderType) : os = orders
  BY DEF IInv, TypeOK
<1>2. PICK o \in OrderType : o = os[k] /\ OrderLike(o) /\ o.status = "placed"
  BY <1>1, OrderOf DEF RecordFault
<1>3. PICK st \in {"open", "rejected"} : orders' = [os EXCEPT ![k].status = st]
  BY <1>1 DEF RecordFault
<1>4. PICK qs : qs = [os EXCEPT ![k].status = st] /\ orders' = qs
  BY <1>3
<1>5. /\ qs \in Seq(OrderType) /\ Len(qs) = Len(os) /\ DOMAIN qs = DOMAIN os
      /\ qs[k].status = st
      /\ \A i \in DOMAIN os : i # k => qs[i] = os[i]
  <2>1. st \in Statuses /\ k \in DOMAIN os
    BY <1>1 DEF Statuses
  <2> QED
    BY <1>4, <2>1, StatusSet
<1>6. PICK rs, ts : rs = Recorded(os) /\ ts = Recorded(qs)
  OBVIOUS
<1>7. /\ rs \in Seq(OrderType) /\ ts \in Seq(OrderType) /\ Len(ts) = Len(rs)
      /\ k \in 1..Len(rs) /\ ts[k] = qs[k]
      /\ rs[k] = [o EXCEPT !.status = "filled"]
      /\ \A i \in 1..Len(rs) : i # k => ts[i] = rs[i]
  <2>1. /\ rs \in Seq(OrderType) /\ Len(rs) = Len(os)
        /\ \A i \in DOMAIN os : rs[i] = AsRecorded(os[i])
    BY <1>6, RecordedOf
  <2>2. /\ ts \in Seq(OrderType) /\ Len(ts) = Len(qs)
        /\ \A i \in DOMAIN qs : ts[i] = AsRecorded(qs[i])
    BY <1>5, <1>6, RecordedOf
  <2>3. k \in DOMAIN os /\ DOMAIN os = 1..Len(rs)
    BY <1>1, <2>1
  <2>4. rs[k] = [o EXCEPT !.status = "filled"]
    BY <1>2, <2>1, <2>3 DEF AsRecorded
  <2>5. ts[k] = qs[k]
    BY <1>3, <1>5, <2>2, <2>3 DEF AsRecorded
  <2>6. \A i \in 1..Len(rs) : i # k => ts[i] = rs[i]
    BY <1>5, <2>1, <2>2, <2>3
  <2> QED
    BY <1>5, <2>1, <2>2, <2>3, <2>4, <2>5, <2>6
<1>8. /\ rs[k].symbol = o.symbol /\ rs[k].status = "filled"
      /\ Signed(rs[k]) = Signed(o) /\ Signed(o) \in Int
  BY <1>2, <1>7 DEF OrderType, OrderLike, Signed
<1>9. Dropped = {k}
  BY <1>1, <1>2, <1>3, <1>4, <1>5 DEF Dropped
<1>10. gap' = [gap EXCEPT ![o.symbol] = @ - Signed(o)]
  BY <1>1, <1>2, <1>9 DEF Starting, HistoryNext, GapStep
<1>11. /\ gap \in [Symbols -> Int] /\ net \in [Symbols -> Int]
       /\ UNCHANGED <<net, recon>> /\ budget'.flattens = budget.flattens
  BY SpendShrinks DEF GapType, IInv, TypeOK, RecordFault, adapter
<1>12. /\ o.symbol \in Symbols /\ gap'[o.symbol] = gap[o.symbol] - Signed(o)
       /\ \A s \in Symbols : s # o.symbol => gap'[s] = gap[s]
  BY <1>2, <1>8, <1>10, <1>11 DEF OrderLike
<1>13. ASSUME NEW s \in Symbols
       PROVE  net'[s] + gap'[s] = FilledNet(Recorded(orders'), s)
  <2>1. FilledNet(ts, s) = FilledNet(rs, s) - Delta(rs[k], s) + Delta(ts[k], s)
    BY <1>7, FilledNetReplace
  <2>2. /\ net[s] + gap[s] = FilledNet(rs, s) /\ net[s] \in Int /\ gap[s] \in Int
        /\ FilledNet(rs, s) \in Int
    BY <1>1, <1>6, <1>7, <1>11, FilledNetType DEF Agreed
  <2>3. Delta(ts[k], s) = 0
    BY <1>3, <1>5, <1>7 DEF Delta
  <2>4. Delta(rs[k], s) = IF s = o.symbol THEN Signed(o) ELSE 0
    BY <1>8 DEF Delta
  <2>5. gap'[s] = gap[s] - Delta(rs[k], s) /\ Delta(rs[k], s) \in Int
    BY <1>8, <1>12, <2>2, <2>4
  <2>6. net[s] + gap'[s] = FilledNet(ts, s)
    BY <2>1, <2>2, <2>3, <2>5
  <2> QED
    BY <1>4, <1>6, <1>11, <2>6
<1>14. ASSUME recon.at \in {"compare", "resolve", "record"},
              NEW s \in Symbols \ moved'
       PROVE  net'[s] = net[s] /\ gap'[s] = gap[s]
  <2>1. o.symbol \in InFlight
    BY <1>1, <1>2 DEF InFlight
  <2>2. o.symbol \in moved'
    BY <1>11, <1>14, <2>1, MovedGrows DEF Agreed, Starting
  <2> QED
    BY <1>11, <1>12, <2>2
<1> QED
  BY <1>11, <1>13, <1>14, OrdersAgree DEF Starting

(* A step of the startup, whose effect on recon is given. *)
LEMMA StartupAgrees ==
    ASSUME IInv, Agreed, Starting, UNCHANGED Others,
           budget'.flattens = budget.flattens,
           ASSUME recon'.at = "compare"
           PROVE  \A s \in Symbols \ (moved' \cup InFlight) :
                     recon'.system[s] = net[s] + gap[s],
           ASSUME recon'.at \in {"resolve", "record"}
           PROVE  \A s \in Symbols \ moved :
                     s \in DOMAIN recon'.found <=> gap[s] # 0
    PROVE  Agreed'
<1>1. UNCHANGED <<net, orders>>
  BY DEF Others, adapter
<1>2. UNCHANGED gap
  <2>1. Dropped = {}
    BY <1>1 DEF Dropped
  <2> QED
    BY <2>1, GapKept
<1>3. InFlight' = InFlight
  BY <1>1 DEF InFlight
<1>4. skipped' = {} /\ InFlight' \subseteq moved'
  BY SkippedNone, MovedGrows DEF Starting
<1>5. \A s \in Symbols : net'[s] + gap'[s] = FilledNet(Recorded(orders'), s)
  BY <1>1, <1>2 DEF Agreed
<1>6. recon'.at = "compare" =>
         \A s \in Symbols \ moved' : recon'.system[s] = net'[s] + gap'[s]
  BY <1>1, <1>2, <1>3, <1>4
<1>7. recon'.at \in {"resolve", "record"} =>
         \A s \in Symbols \ moved' : s \in DOMAIN recon'.found <=> gap'[s] # 0
  BY <1>2, MovedGrows DEF Starting
<1> QED
  BY <1>4, <1>5, <1>6, <1>7 DEF Agreed

LEMMA LoadSystemAgrees ==
    ASSUME IInv, Agreed, Starting, LoadSystemPositions
    PROVE  Agreed'
<1>1. PICK N : N = [s \in Symbols |-> SystemPositions(s)]
  OBVIOUS
<1>2. recon' = [recon EXCEPT !.at = "compare", !.system = N]
  BY <1>1 DEF LoadSystemPositions
<1>3. recon'.at = "compare" /\ recon'.system = N
  BY <1>2 DEF IInv, TypeOK, ReconType
<1>4. ASSUME NEW s \in Symbols \ InFlight
      PROVE  recon'.system[s] = net[s] + gap[s]
  <2>1. FilledNet(Recorded(orders), s) = FilledNet(orders, s)
    BY NoneOfSymbol DEF InFlight, IInv, TypeOK
  <2> QED
    BY <1>1, <1>3, <2>1 DEF SystemPositions, Agreed
<1>5. UNCHANGED <<Others, budget>>
  BY DEF LoadSystemPositions
<1>6. recon'.at \notin {"resolve", "record"}
  BY <1>3
<1> QED
  BY <1>4, <1>5, <1>6, StartupAgrees

LEMMA CompareAgrees ==
    ASSUME IInv, Agreed, GapType, Matches, Starting, Compare
    PROVE  Agreed'
<1>1. PICK D : D = FindDiscrepancies
  OBVIOUS
<1>2. PICK F : F = [s \in D |-> DetermineResolutionAction(BrokerPosition(s),
                                                          recon.system[s])]
  OBVIOUS
<1>3. recon' = [recon EXCEPT !.at = "resolve", !.left = D, !.found = F]
  BY <1>1, <1>2 DEF Compare
<1>4. recon'.at = "resolve" /\ DOMAIN recon'.found = D
  BY <1>2, <1>3 DEF IInv, TypeOK, ReconType
<1>5. ASSUME NEW s \in Symbols \ moved
      PROVE  s \in D <=> gap[s] # 0
  <2>1. recon.system[s] = net[s] + gap[s]
    BY <1>5 DEF Compare, Agreed
  <2>2. BrokerPosition(s) = net[s]
    BY BrokerIsVal DEF Matches, Agreed
  <2>3. net[s] \in Int /\ gap[s] \in Int
    BY DEF IInv, TypeOK, GapType
  <2> QED
    BY <1>1, <2>1, <2>2, <2>3 DEF FindDiscrepancies
<1>6. UNCHANGED <<Others, budget>> /\ recon'.at # "compare"
  BY <1>4 DEF Compare
<1> QED
  BY <1>4, <1>5, <1>6, StartupAgrees

(* The other steps take over what was found, or end the comparison. *)
LEMMA OtherStepsAgree ==
    ASSUME IInv, Agreed, Starting,
           \/ StartupStep /\ ~LoadSystemPositions /\ ~Compare
           \/ \E s \in Symbols : ResolveFault(s)
           \/ ReconcileFault
    PROVE  Agreed'
<1>1. UNCHANGED Others /\ budget'.flattens = budget.flattens
  <2>1. CASE StartupStep
    BY <2>1, StartupStepTyped
  <2>2. CASE (\E s \in Symbols : ResolveFault(s)) \/ ReconcileFault
    BY <2>2, FaultTyped, SpendShrinks DEF IInv
  <2> QED
    BY <2>1, <2>2
<1>2. \/ recon'.at \in Steps \ {"compare", "resolve", "record"}
      \/ /\ recon.at = "resolve" /\ recon'.at \in {"resolve", "record"}
         /\ recon'.found = recon.found
  <2>1. recon \in ReconType
    BY DEF IInv, TypeOK
  <2>2. Serving.at = "serving"
    BY DEF Serving, Startup
  <2>3. CASE LoadAccounts
    <3>1. \/ recon' = [recon EXCEPT !.at = "broker"]
          \/ recon' = Serving
      BY <2>3 DEF LoadAccounts
    <3> QED
      BY <2>1, <2>2, <3>1 DEF ReconType, Steps
  <2>4. CASE LoadBrokerPositions
    BY <2>1, <2>4 DEF LoadBrokerPositions, GoTo, ReconType, Steps
  <2>5. CASE \E s \in Symbols : Resolve(s) \/ ResolveFault(s)
    BY <2>1, <2>5 DEF Resolve, ResolveFault, ReconType
  <2>6. CASE AllResolved
    BY <2>1, <2>6 DEF AllResolved, GoTo, ReconType
  <2>7. CASE Record
    BY <2>1, <2>7 DEF Record, GoTo, ReconType, Steps
  <2>8. CASE StorePositionSnapshot
    BY <2>2, <2>8 DEF StorePositionSnapshot, Steps
  <2>9. CASE RecordFailed
    BY <2>2, <2>9 DEF RecordFailed, Steps
  <2>10. CASE ReconcileFault
    BY <2>1, <2>10 DEF ReconcileFault, GoTo, ReconType, Steps
  <2> QED
    BY <2>3, <2>4, <2>5, <2>6, <2>7, <2>8, <2>9, <2>10 DEF StartupStep
<1>3. recon'.at # "compare"
  BY <1>2
<1>4. recon'.at \in {"resolve", "record"} =>
         \A s \in Symbols \ moved : s \in DOMAIN recon'.found <=> gap[s] # 0
  BY <1>2 DEF Agreed
<1> QED
  BY <1>1, <1>3, <1>4, StartupAgrees

(* A server that starts: the broker has nothing, nothing is on its way. *)
LEMMA RebootAgrees ==
    ASSUME IInv, IInv', HistoryNext, Restart \/ StartupFault
    PROVE  Agreed'
<1>1. Reboot /\ Spend("faults")
  BY DEF Restart, StartupFault
<1>2. recon'.at = "accounts"
  BY <1>1 DEF Reboot, Startup
<1>3. skipped' = {}
  <2>1. budget'.flattens = budget.flattens
    BY <1>1, SpendShrinks DEF IInv
  <2>2. positions' = <<>> /\ net' = NoPositions
    BY <1>1 DEF Reboot
  <2> QED
    BY <2>1, <2>2 DEF HistoryNext
<1>4. PICK os \in Seq(OrderType) : os = orders
  BY DEF IInv, TypeOK
<1>5. PICK qs \in Seq(OrderType) : qs = orders'
  BY DEF IInv, TypeOK
<1>6. \A k \in DOMAIN qs : qs[k].status # "placed"
  <2> SUFFICES ASSUME NEW k \in DOMAIN qs PROVE qs[k].status # "placed"
    OBVIOUS
  <2>1. qs = [i \in DOMAIN os |->
                IF os[i].status = "placed"
                  THEN [os[i] EXCEPT !.status = "open"] ELSE os[i]]
    BY <1>1, <1>4, <1>5 DEF Reboot
  <2>2. k \in DOMAIN os /\ os[k] \in OrderType
    BY <1>4, <2>1
  <2>3. qs[k] = IF os[k].status = "placed"
                  THEN [os[k] EXCEPT !.status = "open"] ELSE os[k]
    BY <2>1, <2>2
  <2> QED
    BY <2>2, <2>3 DEF OrderType
<1>7. \A s \in Symbols : gap'[s] = FilledNet(qs, s) /\ net'[s] = 0
  BY <1>1, <1>2, <1>5 DEF HistoryNext, GapStep, Reboot, NoPositions
<1>8. ASSUME NEW s \in Symbols
      PROVE  net'[s] + gap'[s] = FilledNet(Recorded(orders'), s)
  <2>1. FilledNet(qs, s) \in Int
    BY FilledNetType
  <2>2. FilledNet(Recorded(qs), s) = FilledNet(qs, s)
    BY <1>6, NoneOfSymbol
  <2> QED
    BY <1>5, <1>7, <2>1, <2>2
<1>9. InFlight' = {}
  BY <1>5, <1>6 DEF InFlight
<1> QED
  BY <1>2, <1>3, <1>8, <1>9 DEF Agreed

LEMMA GapTyped ==
    ASSUME IInv, IInv', GapType, HistoryNext
    PROVE  GapType'
<1>1. CASE recon'.at = "serving"
  BY <1>1 DEF HistoryNext, GapStep, GapType, NoPositions
<1>2. CASE recon'.at # "serving" /\ (Restart \/ StartupFault)
  <2>1. gap' = [s \in Symbols |-> FilledNet(orders', s)]
    BY <1>2 DEF HistoryNext, GapStep
  <2>2. \A s \in Symbols : FilledNet(orders', s) \in Int
    BY FilledNetType DEF IInv, TypeOK
  <2> QED
    BY <2>1, <2>2 DEF GapType
<1>3. CASE Starting
  <2>1. CASE Dropped = {}
    BY <1>3, <2>1, GapKept DEF GapType
  <2>2. CASE Dropped # {}
    <3>1. PICK k \in Dropped :
             gap' = [gap EXCEPT ![orders[k].symbol] = @ - Signed(orders[k])]
      BY <1>3, <2>2 DEF Starting, HistoryNext, GapStep
    <3>2. OrderLike(orders[k])
      BY OrderOf DEF Dropped, IInv, TypeOK
    <3>3. Signed(orders[k]) \in Int /\ orders[k].symbol \in Symbols
      BY <3>2 DEF OrderLike, Signed
    <3> QED
      BY <3>1, <3>3 DEF GapType
  <2> QED
    BY <2>1, <2>2
<1> QED
  BY <1>1, <1>2, <1>3 DEF Starting

(* Only a restart ends the serving. *)
LEMMA ServingEnds ==
    ASSUME IInv, Next, recon.at = "serving", recon'.at # "serving"
    PROVE  Restart
<1>1. ~(\E trade \in Trades : NewOrder(trade)) /\ ~Flatten
  BY DEF NewOrder, Flatten
<1>2. ~(\E k \in DOMAIN orders : PlaceOrder(k) \/ RecordFill(k) \/ RecordFault(k))
  BY DEF PlaceOrder, RecordFill, RecordFault
<1>3. ~(Quiet /\ UNCHANGED vars)
  BY DEF vars
<1>4. ~StartupStep
  BY DEF StartupStep, LoadAccounts, LoadBrokerPositions, LoadSystemPositions,
     Compare, Resolve, AllResolved, Record, StorePositionSnapshot, RecordFailed
<1>5. ~(\E s \in Symbols : ResolveFault(s)) /\ ~ReconcileFault /\ ~StartupFault
  BY DEF ResolveFault, ReconcileFault, StartupFault
<1> QED
  BY <1>1, <1>2, <1>3, <1>4, <1>5 DEF Next

LEMMA AgreesStep ==
    IInv /\ Matches /\ ReconAgrees /\ [HistoryNext]_hvars => ReconAgrees'
<1> SUFFICES ASSUME IInv, Matches, ReconAgrees, [HistoryNext]_hvars
             PROVE  ReconAgrees'
  OBVIOUS
<1>1. CASE UNCHANGED hvars
  BY <1>1 DEF hvars, vars, ReconAgrees, GapType, Agreed, InFlight
<1>2. CASE HistoryNext
  <2>1. Next /\ IInv'
    BY <1>2, NextInv DEF HistoryNext
  <2>2. GapType /\ GapType'
    BY <1>2, <2>1, GapTyped DEF ReconAgrees
  <2> SUFFICES ASSUME recon'.at # "serving" PROVE Agreed'
    BY <2>2 DEF ReconAgrees
  <2>3. CASE Restart \/ StartupFault
    BY <1>2, <2>1, <2>3, RebootAgrees
  <2>4. CASE ~(Restart \/ StartupFault)
    <3>1. Agreed /\ recon.at # "serving"
      BY <2>1, <2>4, ServingEnds DEF ReconAgrees
    <3>2. Starting
      BY <1>2, <2>4 DEF Starting
    <3>3. CASE \E trade \in Trades : NewOrder(trade)
      BY <2>2, <3>1, <3>2, <3>3, NewOrderAgrees
    <3>4. CASE \E k \in DOMAIN orders :
                  PlaceOrder(k) \/ RecordFill(k) \/ RecordFault(k)
      BY <2>2, <3>1, <3>2, <3>4, PlaceOrderAgrees, RecordFillAgrees,
         RecordFaultAgrees
    <3>5. CASE Flatten
      BY <3>1, <3>5 DEF Flatten
    <3>6. CASE StartupStep \/ (\E s \in Symbols : ResolveFault(s)) \/ ReconcileFault
      BY <2>2, <3>1, <3>2, <3>6, LoadSystemAgrees, CompareAgrees, OtherStepsAgree
    <3>7. CASE Quiet /\ UNCHANGED vars
      <4>1. UNCHANGED <<net, orders, recon, budget>>
        BY <3>7 DEF vars
      <4>2. UNCHANGED gap
        <5>1. Dropped = {}
          BY <4>1 DEF Dropped
        <5> QED
          BY <3>2, <5>1, GapKept
      <4> QED
        BY <1>2, <3>1, <4>1, <4>2, OrdersAgree DEF Agreed
    <3> QED
      BY <2>1, <2>4, <3>3, <3>4, <3>5, <3>6, <3>7 DEF Next
  <2> QED
    BY <2>3, <2>4
<1> QED
  BY <1>1, <1>2

LEMMA AgreesInit == HistoryInit => ReconAgrees
<1> SUFFICES ASSUME HistoryInit PROVE ReconAgrees
  OBVIOUS
<1>1. orders = <<>> /\ <<>> \in Seq(OrderType) /\ DOMAIN <<>> = {}
  BY DEF HistoryInit, Init
<1>2. gap = NoPositions /\ net = NoPositions /\ recon.at = "accounts"
  BY DEF HistoryInit, Init, Startup
<1>3. ASSUME NEW s \in Symbols
      PROVE  net[s] + gap[s] = FilledNet(Recorded(orders), s)
  <2>1. FilledNet(Recorded(orders), s) = 0
    BY <1>1, NoneOfSymbol, FilledNetEmpty
  <2> QED
    BY <1>2, <2>1 DEF NoPositions
<1>4. InFlight = {}
  BY <1>1 DEF InFlight
<1>5. GapType
  BY <1>2 DEF GapType, NoPositions
<1> QED
  BY <1>2, <1>3, <1>4, <1>5 DEF ReconAgrees, Agreed, HistoryInit

(* Whatever failed, was flattened and restarted before, and whatever is     *)
(* placed and recorded meanwhile, a reconciliation finds a discrepancy of a *)
(* symbol that had no order on its way exactly when the lost and the        *)
(* unrecorded fills of it do not cancel out (AlarmsExplained).              *)
THEOREM AlarmsExplainedHolds == HistorySpec => []AlarmsExplained
<1>1. ReconAgrees => AlarmsExplained
  BY DEF ReconAgrees, Agreed, AlarmsExplained
<1>2. IInv /\ Matches /\ ReconAgrees /\ [HistoryNext]_hvars => ReconAgrees'
  BY AgreesStep
<1> QED
  BY <1>1, <1>2, AgreesInit, HistoryInductive, PTL DEF HistorySpec
=============================================================================
