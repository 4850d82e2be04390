----------------------------- MODULE LibraryProofs -----------------------------
(***************************************************************************)
(* Lemmas about the operators the models are built from:  a least number,  *)
(* induction along an interval, sums over finite sets, sequences whose     *)
(* members come once, and what a fold over a sequence passes through.      *)
(* The provers cannot instantiate a fact about every operator, so a fold   *)
(* is described for a function of its steps (Walks), and each model says   *)
(* what its own folds do.                                                  *)
(***************************************************************************)
EXTENDS Integers, Sequences, SequencesExt, FiniteSets, FiniteSetTheorems, SequenceTheorems,
        WellFoundedInduction, TLAPS

-----------------------------------------------------------------------------
(* Least numbers and smallest sets. *)

\* A set of numbers has a least one.
LEMMA LeastNat ==
  ASSUME NEW T, T \subseteq Nat, T # {}
  PROVE  \E x \in T : \A y \in T : x <= y
<1> DEFINE R == StrictSubsetOrdering(Nat)
           U == {0 .. x - 1 : x \in T}
<1>1. IsWellFoundedOn(R, FiniteSubsetsOf(Nat))
  BY FS_StrictSubsetOrderingWellFounded
<1>2. U \subseteq FiniteSubsetsOf(Nat) /\ U # {}
  <2>1. \A x \in T : IsFiniteSet(0 .. x - 1) /\ 0 .. x - 1 \subseteq Nat
    BY FS_Interval
  <2> QED BY <2>1 DEF FiniteSubsetsOf
<1> HIDE DEF R
<1>3. PICK u \in U : \A v \in U : ~(<<v, u>> \in R)
  BY <1>1, <1>2, WFMin
<1>4. PICK x \in T : u = 0 .. x - 1
  BY <1>3
<1>5. ASSUME NEW y \in T, ~(x <= y)
      PROVE FALSE
  <2>1. 0 .. y - 1 \in U BY <1>5
  <2>2. <<0 .. y - 1, u>> \notin R BY <1>3, <2>1
  <2>3. 0 .. y - 1 \subseteq u /\ 0 .. y - 1 # u /\ u \subseteq Nat
    <3>1. y \in Nat /\ x \in Nat /\ y < x BY <1>5
    <3>2. y \in u /\ y \notin 0 .. y - 1 BY <3>1, <1>4
    <3> QED BY <3>1, <3>2, <1>4
  <2> QED BY <2>2, <2>3 DEF R, StrictSubsetOrdering
<1> QED
  BY <1>5

\* A set of finite sets has a smallest one.
LEMMA Smallest ==
  ASSUME NEW Odd, Odd # {}, \A u \in Odd : IsFiniteSet(u)
  PROVE  \E u \in Odd : \A v \in Odd : Cardinality(u) <= Cardinality(v)
<1> DEFINE C == {Cardinality(u) : u \in Odd}
<1>1. C \subseteq Nat /\ C # {}
  BY FS_CardinalityType
<1>2. PICK n \in C : \A m \in C : n <= m
  <2> HIDE DEF C
  <2> QED
    BY <1>1, LeastNat
<1> QED
  BY <1>2

\* What holds at the start of an interval and from each number to the next holds along it.
LEMMA Along ==
  ASSUME NEW n \in Nat, NEW S, 0 \in S, \A i \in 1 .. n : i - 1 \in S => i \in S
  PROVE  \A i \in 0 .. n : i \in S
<1> DEFINE Bad == {i \in 0 .. n : i \notin S}
<1>1. SUFFICES ASSUME Bad # {} PROVE FALSE
  OBVIOUS
<1>2. PICK i \in Bad : \A j \in Bad : i <= j
  <2>1. Bad \subseteq Nat
    OBVIOUS
  <2> HIDE DEF Bad
  <2> QED
    BY <1>1, <2>1, LeastNat
<1>3. i \in 1 .. n /\ i - 1 \in 0 .. n /\ i - 1 \notin Bad
  BY <1>2
<1> QED
  BY <1>2, <1>3

-----------------------------------------------------------------------------
(* Sums over finite sets. *)

\* The sum over a set as the fold of the community modules computes it: member by member.
Pick(s) == CHOOSE x \in s : TRUE
Sums(w, g, S) == g = [s \in SUBSET S |-> IF s = {} THEN 0 ELSE w[Pick(s)] + g[s \ {Pick(s)}]]
Total(w, S) == (CHOOSE g : Sums(w, g, S))[S]
Weighed(w, S) == IsFiniteSet(S) /\ \A x \in S : w[x] \in Nat

\* What is left of a set without the member picked.
LEMMA Unpicked ==
  ASSUME NEW u, IsFiniteSet(u), u # {}
  PROVE  /\ Pick(u) \in u /\ IsFiniteSet(u \ {Pick(u)})
         /\ Cardinality(u \ {Pick(u)}) = Cardinality(u) - 1 /\ Cardinality(u) \in Nat /\ Cardinality(u) > 0
<1>1. Pick(u) \in u
  BY DEF Pick
<1> QED
  BY <1>1, FS_RemoveElement, FS_CardinalityType, FS_EmptySet

\* Two such functions agree where both say something: else there were a smallest set on which they do not.
LEMMA SumsAgree ==
  ASSUME NEW w, NEW S, NEW T, NEW g, NEW h, Sums(w, g, S), Sums(w, h, T)
  PROVE  \A u \in SUBSET (S \cap T) : IsFiniteSet(u) => g[u] = h[u]
<1> DEFINE Odd == {u \in SUBSET (S \cap T) : IsFiniteSet(u) /\ g[u] # h[u]}
<1>1. SUFFICES ASSUME Odd # {} PROVE FALSE
  OBVIOUS
<1>3. PICK u \in Odd : \A v \in Odd : Cardinality(u) <= Cardinality(v)
  <2> HIDE DEF Odd
  <2>1. \A u \in Odd : IsFiniteSet(u)
    BY DEF Odd
  <2> QED
    BY <1>1, <2>1, Smallest
<1>4. g[{}] = 0 /\ h[{}] = 0
  BY DEF Sums
<1>5. u # {} /\ IsFiniteSet(u) /\ u \in SUBSET S /\ u \in SUBSET T
  BY <1>3, <1>4
<1>6. g[u] = w[Pick(u)] + g[u \ {Pick(u)}] /\ h[u] = w[Pick(u)] + h[u \ {Pick(u)}]
  BY <1>5 DEF Sums
<1>7. u \ {Pick(u)} \in Odd
  BY <1>3, <1>5, <1>6, Unpicked
<1> QED
  BY <1>3, <1>5, <1>7, Unpicked

\* There is such a function on every finite set: else there were a smallest set without one.
LEMMA SumsExist ==
  ASSUME NEW w, NEW S, IsFiniteSet(S)
  PROVE  \E g : Sums(w, g, S)
<1> DEFINE Odd == {u \in SUBSET S : ~\E g : Sums(w, g, u)}
<1>1. SUFFICES ASSUME Odd # {} PROVE FALSE
  OBVIOUS
<1>2. \A u \in Odd : IsFiniteSet(u)
  BY FS_Subset
<1>3. PICK u \in Odd : \A v \in Odd : Cardinality(u) <= Cardinality(v)
  <2> HIDE DEF Odd
  <2> QED
    BY <1>1, <1>2, Smallest
<1> DEFINE Of(s) == CHOOSE g : Sums(w, g, s)
           g == [s \in SUBSET u |-> IF s = {} THEN 0 ELSE w[Pick(s)] + Of(s \ {Pick(s)})[s \ {Pick(s)}]]
<1>4. \A s \in SUBSET u : s # u => Sums(w, Of(s), s) /\ IsFiniteSet(s)
  <2> SUFFICES ASSUME NEW s \in SUBSET u, s # u PROVE Sums(w, Of(s), s) /\ IsFiniteSet(s)
    OBVIOUS
  <2>1. IsFiniteSet(s) /\ Cardinality(s) < Cardinality(u)
    BY <1>2, <1>3, FS_Subset, FS_CardinalityType
  <2>2. s \notin Odd
    BY <1>3, <2>1, <1>2, FS_CardinalityType
  <2>3. \E k : Sums(w, k, s)
    BY <2>2
  <2> QED
    BY <2>1, <2>3
<1>5. \A s \in SUBSET u : s # {} => s \ {Pick(s)} \in SUBSET u /\ s \ {Pick(s)} # u /\ Pick(s) \in s
  BY DEF Pick
<1> HIDE DEF Of
<1>6. \A s \in SUBSET u : s # u => g[s] = Of(s)[s]
  <2> SUFFICES ASSUME NEW s \in SUBSET u, s # u PROVE g[s] = Of(s)[s]
    OBVIOUS
  <2>1. Sums(w, Of(s), s) /\ IsFiniteSet(s)
    BY <1>4
  <2>2. CASE s = {}
    BY <2>1, <2>2 DEF Sums
  <2>3. CASE s # {}
    <3> DEFINE t == s \ {Pick(s)}
    <3>1. Sums(w, Of(t), t) /\ IsFiniteSet(t) /\ t \subseteq s
      BY <1>4, <1>5, <2>3
    <3>2. Of(s)[s] = w[Pick(s)] + Of(s)[t]
      BY <2>1, <2>3 DEF Sums
    <3>3. Of(s)[t] = Of(t)[t]
      BY <2>1, <3>1, SumsAgree
    <3> QED
      BY <2>3, <3>2, <3>3
  <2> QED
    BY <2>2, <2>3
<1>7. Sums(w, g, u)
  <2>1. \A s \in SUBSET u : s # {} => g[s \ {Pick(s)}] = Of(s \ {Pick(s)})[s \ {Pick(s)}]
    BY <1>5, <1>6
  <2> QED
    BY <2>1 DEF Sums
<1> QED
  BY <1>3, <1>7

\* The sum, by the member picked.
LEMMA TotalOf ==
  ASSUME NEW w
  PROVE  /\ Total(w, {}) = 0
         /\ \A S : IsFiniteSet(S) /\ S # {} => Total(w, S) = w[Pick(S)] + Total(w, S \ {Pick(S)})
<1> DEFINE Of(s) == CHOOSE g : Sums(w, g, s)
<1>1. \A S : IsFiniteSet(S) => Sums(w, Of(S), S)
  BY SumsExist
<1>2. \A S : Total(w, S) = Of(S)[S]
  BY DEF Total
<1> HIDE DEF Of
<1>3. Total(w, {}) = 0
  BY <1>1, <1>2, FS_EmptySet DEF Sums
<1>4. ASSUME NEW S, IsFiniteSet(S), S # {}
      PROVE  Total(w, S) = w[Pick(S)] + Total(w, S \ {Pick(S)})
  <2> DEFINE t == S \ {Pick(S)}
  <2>1. Sums(w, Of(S), S) /\ Sums(w, Of(t), t) /\ IsFiniteSet(t)
    BY <1>1, <1>4, Unpicked
  <2>2. Of(S)[S] = w[Pick(S)] + Of(S)[t]
    BY <1>4, <2>1 DEF Sums
  <2>3. Of(S)[t] = Of(t)[t]
    BY <2>1, SumsAgree
  <2> QED
    BY <1>2, <2>2, <2>3
<1> QED
  BY <1>3, <1>4

\* The sum of numbers is a number.
LEMMA TotalNat ==
  ASSUME NEW w, NEW S, Weighed(w, S)
  PROVE  Total(w, S) \in Nat
<1> DEFINE Odd == {u \in SUBSET S : Total(w, u) \notin Nat}
<1>1. SUFFICES ASSUME Odd # {} PROVE FALSE
  OBVIOUS
<1>2. \A u \in Odd : IsFiniteSet(u)
  BY FS_Subset DEF Weighed
<1>3. PICK u \in Odd : \A v \in Odd : Cardinality(u) <= Cardinality(v)
  <2> HIDE DEF Odd
  <2> QED
    BY <1>1, <1>2, Smallest
<1>4. u # {} /\ IsFiniteSet(u)
  <2>1. Total(w, u) \notin Nat
    BY <1>3
  <2>2. Total(w, {}) = 0
    BY TotalOf
  <2> QED
    BY <1>2, <1>3, <2>1, <2>2
<1>5. Total(w, u) = w[Pick(u)] + Total(w, u \ {Pick(u)}) /\ Pick(u) \in S
  BY <1>3, <1>4, TotalOf, Unpicked
<1>6. u \ {Pick(u)} \in Odd
  BY <1>3, <1>5 DEF Weighed
<1>7. Cardinality(u) <= Cardinality(u \ {Pick(u)})
  BY <1>3, <1>6
<1> QED
  BY <1>4, <1>7, Unpicked

\* The sum of a set is what one of its members adds to the sum of the others.
LEMMA TotalWithout ==
  ASSUME NEW w, NEW S, Weighed(w, S)
  PROVE  \A x \in S : Total(w, S) = w[x] + Total(w, S \ {x})
<1> DEFINE Odd == {u \in SUBSET S : \E x \in u : Total(w, u) # w[x] + Total(w, u \ {x})}
<1>1. SUFFICES ASSUME Odd # {} PROVE FALSE
  OBVIOUS
<1>2. \A u \in Odd : IsFiniteSet(u)
  BY FS_Subset DEF Weighed
<1>3. PICK u \in Odd : \A v \in Odd : Cardinality(u) <= Cardinality(v)
  <2> HIDE DEF Odd
  <2> QED
    BY <1>1, <1>2, Smallest
<1>4. PICK x \in u : Total(w, u) # w[x] + Total(w, u \ {x})
  BY <1>3
<1> DEFINE c == Pick(u)
<1>5. c \in u /\ IsFiniteSet(u) /\ Total(w, u) = w[c] + Total(w, u \ {c}) /\ x # c
  BY <1>2, <1>3, <1>4, TotalOf, Unpicked
<1>6. \A y \in u : u \ {y} \in SUBSET S /\ u \ {y} \notin Odd
  <2> SUFFICES ASSUME NEW y \in u PROVE u \ {y} \in SUBSET S /\ u \ {y} \notin Odd
    OBVIOUS
  <2>1. Cardinality(u \ {y}) < Cardinality(u)
    <3>1. Cardinality(u \ {y}) = Cardinality(u) - 1 /\ Cardinality(u) \in Nat
      BY <1>5, FS_RemoveElement, FS_CardinalityType
    <3> QED
      BY <3>1
  <2>2. ~(Cardinality(u) <= Cardinality(u \ {y}))
    BY <2>1, <1>5, FS_CardinalityType, FS_RemoveElement
  <2> QED
    BY <1>3, <2>2
<1> HIDE DEF c
<1>7. Total(w, u \ {c}) = w[x] + Total(w, (u \ {c}) \ {x}) /\ Total(w, u \ {x}) = w[c] + Total(w, (u \ {x}) \ {c})
  BY <1>5, <1>6
<1>8. (u \ {c}) \ {x} = (u \ {x}) \ {c}
  OBVIOUS
<1>9. Weighed(w, (u \ {x}) \ {c}) /\ w[x] \in Nat /\ w[c] \in Nat
  BY <1>3, <1>5, FS_Subset DEF Weighed
<1>10. Total(w, (u \ {x}) \ {c}) \in Nat
  BY <1>9, TotalNat
<1>11. Total(w, u) = w[c] + (w[x] + Total(w, (u \ {x}) \ {c})) /\ Total(w, u \ {x}) = w[c] + Total(w, (u \ {x}) \ {c})
  BY <1>5, <1>7, <1>8
<1> DEFINE r == Total(w, (u \ {x}) \ {c})
<1>12. Total(w, u) = w[x] + Total(w, u \ {x})
  <2> HIDE DEF r
  <2>1. r \in Nat /\ w[x] \in Nat /\ w[c] \in Nat
    BY <1>9, <1>10 DEF r
  <2>2. w[c] + (w[x] + r) = w[x] + (w[c] + r)
    BY <2>1
  <2> QED
    BY <1>11, <2>2 DEF r
<1> QED
  BY <1>4, <1>12

\* A member more adds what it weighs.
LEMMA TotalWith ==
  ASSUME NEW w, NEW S, NEW x, Weighed(w, S \cup {x}), x \notin S
  PROVE  Total(w, S \cup {x}) = w[x] + Total(w, S)
<1>1. (S \cup {x}) \ {x} = S
  OBVIOUS
<1> QED
  BY <1>1, TotalWithout

\* A subset weighs no more.
LEMMA TotalGrows ==
  ASSUME NEW w, NEW S, Weighed(w, S), NEW T, T \subseteq S
  PROVE  Weighed(w, T) /\ Total(w, T) <= Total(w, S)
<1> DEFINE Odd == {u \in SUBSET S : T \subseteq u /\ ~(Total(w, T) <= Total(w, u))}
<1>1. Weighed(w, T) /\ Total(w, T) \in Nat
  BY FS_Subset, TotalNat DEF Weighed
<1>2. SUFFICES ASSUME Odd # {} PROVE FALSE
  BY <1>1
<1>3. PICK u \in Odd : \A v \in Odd : Cardinality(u) <= Cardinality(v)
  <2>1. \A u \in Odd : IsFiniteSet(u)
    BY FS_Subset DEF Weighed
  <2> HIDE DEF Odd
  <2> QED
    BY <1>2, <2>1, Smallest
<1>4. PICK x \in u : x \notin T
  BY <1>1, <1>3
<1>5. Weighed(w, u) /\ Weighed(w, u \ {x}) /\ w[x] \in Nat /\ IsFiniteSet(u)
  BY <1>3, <1>4, FS_Subset DEF Weighed
<1>6. Total(w, u) = w[x] + Total(w, u \ {x}) /\ Total(w, u \ {x}) \in Nat
  BY <1>4, <1>5, TotalWithout, TotalNat
<1>7. Total(w, T) <= Total(w, u \ {x})
  <2>1. Cardinality(u \ {x}) = Cardinality(u) - 1 /\ Cardinality(u) \in Nat
    BY <1>4, <1>5, FS_RemoveElement, FS_CardinalityType
  <2>2. u \ {x} \notin Odd
    BY <1>3, <2>1
  <2>3. T \subseteq u \ {x} /\ u \ {x} \in SUBSET S
    BY <1>3, <1>4
  <2> QED
    BY <2>2, <2>3
<1>8. ~(Total(w, T) <= Total(w, u))
  BY <1>3
<1> QED
  BY <1>1, <1>5, <1>6, <1>7, <1>8

-----------------------------------------------------------------------------
(* Folds over sequences. *)

\* The largest of the first numbers, which a fold from the left takes last.
LEMMA Topmost ==
  ASSUME NEW k \in Nat \ {0}
  PROVE  Max(1 .. k) = k /\ (1 .. k) \ {k} = 1 .. k - 1
<1>1. \E x \in 1 .. k : \A y \in 1 .. k : x >= y
  BY k \in 1 .. k
<1>2. Max(1 .. k) \in 1 .. k /\ \A y \in 1 .. k : Max(1 .. k) >= y
  BY <1>1 DEF Max
<1> QED
  BY <1>2

LEMMA MaxIn ==
  ASSUME NEW n \in Nat, NEW s \in SUBSET (1 .. n), s # {}
  PROVE  Max(s) \in s
<1> DEFINE T == {n - x : x \in s}
<1>1. T \subseteq Nat /\ T # {}
  <2>1. \A x \in s : x \in Int /\ x <= n
    OBVIOUS
  <2>2. \A x \in s : n - x \in Nat
    BY <2>1
  <2> QED
    BY <2>2
<1>2. PICK t \in T : \A u \in T : t <= u
  <2> HIDE DEF T
  <2> QED
    BY <1>1, LeastNat
<1>3. PICK x \in s : t = n - x
  BY <1>2
<1>4. \A y \in s : x >= y
  <2> SUFFICES ASSUME NEW y \in s PROVE x >= y
    OBVIOUS
  <2>1. x \in Int /\ y \in Int /\ n - y \in T
    OBVIOUS
  <2>2. n - x <= n - y
    BY <1>2, <1>3, <2>1
  <2> QED
    BY <2>1, <2>2
<1> QED
  BY <1>4 DEF Max

\* The equation a fold from the left over n places obeys, for the function F of its steps.
Walks(g, F, base, n) ==
  /\ g[{}] = base
  /\ \A s \in SUBSET (1 .. n) : s # {} => g[s] = F[<<g[s \ {Max(s)}], Max(s)>>]

\* It has a solution: built for the sets of at most m numbers, for one m after the other.
LEMMA WalkExists ==
  ASSUME NEW n \in Nat, NEW X, NEW base \in X, NEW F \in [X \X (1 .. n) -> X]
  PROVE  \E g \in [SUBSET (1 .. n) -> X] : Walks(g, F, base, n)
<1> DEFINE Few(m) == {s \in SUBSET (1 .. n) : Cardinality(s) <= m}
           Done(g, m) == /\ g[{}] = base
                         /\ \A s \in Few(m) : s # {} => g[s] = F[<<g[s \ {Max(s)}], Max(s)>>]
           Good == {m \in 0 .. n : \E g \in [Few(m) -> X] : Done(g, m)}
<1>1. \A s \in SUBSET (1 .. n) : IsFiniteSet(s) /\ Cardinality(s) \in 0 .. n
  <2>1. IsFiniteSet(1 .. n) /\ Cardinality(1 .. n) = n
    BY FS_Interval
  <2>2. ASSUME NEW s \in SUBSET (1 .. n)
        PROVE  IsFiniteSet(s) /\ Cardinality(s) \in Nat /\ Cardinality(s) <= n
    <3>1. IsFiniteSet(s) /\ Cardinality(s) <= Cardinality(1 .. n)
      BY <2>1, FS_Subset
    <3> QED
      BY <2>1, <3>1, FS_CardinalityType
  <2> QED
    BY <2>2
<1>2. Cardinality({}) = 0 /\ \A s \in SUBSET (1 .. n) : Cardinality(s) = 0 => s = {}
  BY <1>1, FS_EmptySet
<1>3. 0 \in Good
  <2> DEFINE g == [s \in Few(0) |-> base]
  <2>1. \A s \in Few(0) : s = {}
    BY <1>1, <1>2
  <2>2. {} \in Few(0)
    BY <1>2
  <2>3. g \in [Few(0) -> X] /\ Done(g, 0)
    BY <2>1, <2>2
  <2> HIDE DEF g, Few, Done
  <2> QED
    BY <2>3
<1>4. ASSUME NEW m \in 1 .. n, m - 1 \in Good
      PROVE  m \in Good
  <2>1. PICK g \in [Few(m - 1) -> X] : Done(g, m - 1)
    BY <1>4
  <2> DEFINE h == [s \in Few(m) |-> IF s = {} THEN base ELSE F[<<g[s \ {Max(s)}], Max(s)>>]]
  <2>2. \A s \in Few(m) : s # {} => s \ {Max(s)} \in Few(m - 1) /\ Max(s) \in 1 .. n
    <3> SUFFICES ASSUME NEW s \in Few(m), s # {} PROVE s \ {Max(s)} \in Few(m - 1) /\ Max(s) \in 1 .. n
      OBVIOUS
    <3>1. Max(s) \in s /\ IsFiniteSet(s)
      BY <1>1, MaxIn
    <3>2. Cardinality(s \ {Max(s)}) = Cardinality(s) - 1 /\ Cardinality(s) \in Nat
      BY <3>1, FS_RemoveElement, FS_CardinalityType
    <3>3. Cardinality(s \ {Max(s)}) <= m - 1
      BY <3>2
    <3> QED
      BY <3>1, <3>3
  <2>3. {} \in Few(m) /\ {} \in Few(m - 1) /\ Few(m - 1) \subseteq Few(m)
    BY <1>1, <1>2
  <2>4. h \in [Few(m) -> X]
    <3>1. \A s \in Few(m) : s # {} => g[s \ {Max(s)}] \in X
      BY <2>1, <2>2
    <3> QED
      BY <2>2, <3>1
  <2>5. h[{}] = base /\ \A s \in Few(m) : s # {} => h[s] = F[<<g[s \ {Max(s)}], Max(s)>>]
    BY <2>3
  <2> HIDE DEF h, Few
  <2>6. \A s \in Few(m - 1) : h[s] = g[s]
    BY <2>1, <2>3, <2>5
  <2>7. Done(h, m)
    BY <2>2, <2>5, <2>6
  <2> QED
    BY <2>4, <2>7
<1> HIDE DEF Good
<1>5. n \in Good
  BY <1>3, <1>4, Along
<1>6. Few(n) = SUBSET (1 .. n)
  BY <1>1
<1> HIDE DEF Few
<1>7. PICK g \in [Few(n) -> X] : Done(g, n)
  BY <1>5 DEF Good
<1> QED
  BY <1>6, <1>7 DEF Walks

\* Functions that begin alike and go on alike are alike.
GoAlike(g, h, n) ==
  g[{}] = h[{}] /\ \A s \in SUBSET (1 .. n) : s # {} /\ g[s \ {Max(s)}] = h[s \ {Max(s)}] => g[s] = h[s]

LEMMA WalksAgree ==
  ASSUME NEW n \in Nat, NEW g, NEW h, GoAlike(g, h, n)
  PROVE  \A s \in SUBSET (1 .. n) : g[s] = h[s]
<1> DEFINE Odd == {s \in SUBSET (1 .. n) : g[s] # h[s]}
<1>1. SUFFICES ASSUME Odd # {} PROVE FALSE
  OBVIOUS
<1>2. \A s \in Odd : IsFiniteSet(s)
  <2>1. IsFiniteSet(1 .. n)
    BY FS_Interval
  <2> QED
    BY <2>1, FS_Subset
<1>3. PICK s \in Odd : \A v \in Odd : Cardinality(s) <= Cardinality(v)
  <2> HIDE DEF Odd
  <2> QED
    BY <1>1, <1>2, Smallest
<1>4. s # {} /\ Max(s) \in s /\ IsFiniteSet(s)
  BY <1>2, <1>3, MaxIn DEF GoAlike
<1>5. s \ {Max(s)} \in Odd
  BY <1>3, <1>4 DEF GoAlike
<1>6. Cardinality(s \ {Max(s)}) = Cardinality(s) - 1 /\ Cardinality(s) \in Nat
  BY <1>4, FS_RemoveElement, FS_CardinalityType
<1> QED
  BY <1>3, <1>5, <1>6

\* What a fold passes through, place by place.
Passes(h, F, base, n) == h[0] = base /\ \A i \in 1 .. n : h[i] = F[<<h[i - 1], i>>]

LEMMA WalkPasses ==
  ASSUME NEW n \in Nat, NEW X, NEW F, NEW base, NEW g \in [SUBSET (1 .. n) -> X], Walks(g, F, base, n)
  PROVE  LET h == [i \in 0 .. n |-> g[1 .. i]] IN h \in [0 .. n -> X] /\ Passes(h, F, base, n) /\ h[n] = g[1 .. n]
<1> DEFINE h == [i \in 0 .. n |-> g[1 .. i]]
<1>1. \A i \in 0 .. n : 1 .. i \in SUBSET (1 .. n)
  OBVIOUS
<1>2. h \in [0 .. n -> X]
  BY <1>1
<1>3. h[0] = base
  <2>1. 1 .. 0 = {}
    OBVIOUS
  <2> QED
    BY <2>1 DEF Walks
<1>4. ASSUME NEW i \in 1 .. n PROVE h[i] = F[<<h[i - 1], i>>]
  <2>1. Max(1 .. i) = i /\ (1 .. i) \ {i} = 1 .. i - 1 /\ 1 .. i # {} /\ 1 .. i \in SUBSET (1 .. n)
    BY Topmost
  <2> DEFINE s == 1 .. i
  <2>2. g[s] = F[<<g[s \ {Max(s)}], Max(s)>>]
    <3>1. s \in SUBSET (1 .. n) /\ s # {}
      BY <2>1
    <3> HIDE DEF s
    <3> QED
      BY <3>1 DEF Walks
  <2>3. i - 1 \in 0 .. n /\ i \in 0 .. n
    OBVIOUS
  <2>4. h[i - 1] = g[1 .. i - 1] /\ h[i] = g[1 .. i]
    BY <2>3
  <2>5. g[1 .. i] = F[<<g[1 .. i - 1], i>>]
    BY <2>1, <2>2
  <2> QED
    BY <2>4, <2>5
<1>5. h[n] = g[1 .. n]
  OBVIOUS
<1> QED
  BY <1>2, <1>3, <1>4, <1>5 DEF Passes

-----------------------------------------------------------------------------
(* The sum along a sequence. *)

SumSeq(w, s) == FoldLeft(LAMBDA total, b : total + w[b], 0, s)

\* The sum grows by what each place weighs.
LEMMA SumPasses ==
  ASSUME NEW w, NEW X, NEW s \in Seq(X), \A x \in X : w[x] \in Nat
  PROVE  \E h \in [0 .. Len(s) -> Nat] :
           h[0] = 0 /\ SumSeq(w, s) = h[Len(s)] /\ \A i \in 1 .. Len(s) : h[i] = h[i - 1] + w[s[i]]
<1> DEFINE n == Len(s)
           F == [p \in Nat \X (1 .. n) |-> p[1] + w[s[p[2]]]]
           Is(g) == g = [u \in SUBSET (1 .. n) |-> IF u = {} THEN 0 ELSE g[u \ {Max(u)}] + w[s[Max(u)]]]
           c == CHOOSE g : Is(g)
<1>1. n \in Nat /\ DOMAIN s = 1 .. n /\ \A i \in 1 .. n : w[s[i]] \in Nat
  OBVIOUS
<1>2. F \in [Nat \X (1 .. n) -> Nat] /\ 0 \in Nat
  BY <1>1
<1>3. SumSeq(w, s) = c[1 .. n]
  BY <1>1 DEF SumSeq, FoldLeft, MapThenFoldSet
<1>4. \A t \in Nat : \A i \in 1 .. n : F[<<t, i>>] = t + w[s[i]]
  OBVIOUS
<1> HIDE DEF F
<1>5. PICK g \in [SUBSET (1 .. n) -> Nat] : Walks(g, F, 0, n)
  BY <1>1, <1>2, WalkExists
<1>6. \A u \in SUBSET (1 .. n) : u # {} => Max(u) \in 1 .. n /\ u \ {Max(u)} \in SUBSET (1 .. n)
  BY <1>1, MaxIn
<1>7. \A u \in SUBSET (1 .. n) : u # {} => g[u] = g[u \ {Max(u)}] + w[s[Max(u)]]
  BY <1>4, <1>5, <1>6 DEF Walks
<1>8. Is(g)
  BY <1>5, <1>7 DEF Walks
<1>9. Is(c)
  BY <1>8
<1>10. \A u \in SUBSET (1 .. n) : g[u] = c[u]
  <2>1. c[{}] = 0 /\ \A u \in SUBSET (1 .. n) : u # {} => c[u] = c[u \ {Max(u)}] + w[s[Max(u)]]
    BY <1>9
  <2>2. g[{}] = 0
    BY <1>5 DEF Walks
  <2> HIDE DEF c, n
  <2>3. \A u \in SUBSET (1 .. n) : u # {} /\ g[u \ {Max(u)}] = c[u \ {Max(u)}] => g[u] = c[u]
    BY <1>7, <2>1
  <2>4. GoAlike(g, c, n)
    BY <2>1, <2>2, <2>3 DEF GoAlike
  <2>5. n \in Nat
    BY <1>1
  <2> QED
    BY ONLY <2>4, <2>5, WalksAgree
<1>11. SumSeq(w, s) = g[1 .. n]
  BY <1>3, <1>10
<1> DEFINE h == [i \in 0 .. n |-> g[1 .. i]]
<1>12. h \in [0 .. n -> Nat] /\ Passes(h, F, 0, n) /\ h[n] = g[1 .. n]
  BY <1>1, <1>5, WalkPasses
<1>13. \A i \in 1 .. n : h[i] = h[i - 1] + w[s[i]]
  <2> HIDE DEF h
  <2>1. \A i \in 1 .. n : i - 1 \in 0 .. n
    BY <1>1
  <2> QED
    BY <1>4, <1>12, <2>1 DEF Passes
<1>14. h[0] = 0
  BY <1>12 DEF Passes
<1> HIDE DEF h
<1> QED
  BY <1>11, <1>12, <1>13, <1>14

\* Where nothing comes twice, it is the sum of the members.
LEMMA SumSeqIs ==
  ASSUME NEW w, NEW X, NEW s \in Seq(X), \A x \in X : w[x] \in Nat, IsInjective(s)
  PROVE  Weighed(w, ToSet(s)) /\ SumSeq(w, s) = Total(w, ToSet(s))
<1> DEFINE n == Len(s)
           To(i) == {s[j] : j \in 1 .. i}
<1>1. n \in Nat /\ DOMAIN s = 1 .. n /\ \A i \in 1 .. n : s[i] \in X /\ w[s[i]] \in Nat
  OBVIOUS
<1>3. PICK h \in [0 .. n -> Nat] :
           h[0] = 0 /\ SumSeq(w, s) = h[n] /\ \A i \in 1 .. n : h[i] = h[i - 1] + w[s[i]]
  BY SumPasses
<1> DEFINE Same == {i \in 0 .. n : Weighed(w, To(i)) /\ h[i] = Total(w, To(i))}
<1>4. 0 \in Same
  <2>1. To(0) = {}
    OBVIOUS
  <2>2. Total(w, To(0)) = 0
    BY <2>1, TotalOf
  <2>3. h[0] = 0 /\ 0 \in 0 .. n
    BY <1>1, <1>3
  <2>4. Weighed(w, To(0))
    BY <2>1, FS_EmptySet DEF Weighed
  <2> HIDE DEF To, n
  <2> QED
    BY <2>2, <2>3, <2>4
<1>5. ASSUME NEW i \in 1 .. n, i - 1 \in Same PROVE i \in Same
  <2>1. To(i) = To(i - 1) \cup {s[i]} /\ i \in 0 .. n
    BY <1>1
  <2>2. s[i] \notin To(i - 1)
    BY <1>1 DEF IsInjective
  <2> DEFINE b == To(i - 1)
  <2>3. Weighed(w, b \cup {s[i]})
    <3>1. Weighed(w, b) /\ w[s[i]] \in Nat
      BY <1>1, <1>5
    <3> HIDE DEF b
    <3> QED
      BY <3>1, FS_AddElement DEF Weighed
  <2>4. Total(w, b \cup {s[i]}) = w[s[i]] + Total(w, b)
    <3> HIDE DEF b
    <3> QED
      BY <2>2, <2>3, TotalWith DEF b
  <2>5. h[i - 1] = Total(w, b) /\ h[i - 1] \in Nat /\ h[i] = h[i - 1] + w[s[i]] /\ w[s[i]] \in Nat
    BY <1>1, <1>3, <1>5
  <2>6. Total(w, To(i)) = w[s[i]] + Total(w, To(i - 1)) /\ Weighed(w, To(i))
    BY <2>1, <2>3, <2>4
  <2>7. h[i] = Total(w, To(i))
    <3> HIDE DEF To
    <3> QED
      BY <2>5, <2>6
  <2> HIDE DEF To, n
  <2> QED
    BY <2>1, <2>6, <2>7
<1> HIDE DEF Same
<1>6. n \in Same
  <2>1. \A i \in 1 .. n : i - 1 \in Same => i \in Same
    BY <1>5
  <2>2. n \in 0 .. n
    BY <1>1
  <2> HIDE DEF n
  <2> QED
    BY <1>1, <1>4, <2>1, <2>2, Along
<1>7. To(n) = ToSet(s)
  BY <1>1 DEF ToSet
<1> QED
  BY <1>1, <1>3, <1>6, <1>7 DEF Same

-----------------------------------------------------------------------------
(* Sequences whose members come once, and their ends. *)

Once(S) == {s \in Seq(S) : IsInjective(s)}

\* s is the end of r.
IsEnd(s, r) == Len(s) <= Len(r) /\ \A i \in 1 .. Len(s) : s[i] = r[Len(r) - Len(s) + i]

LEMMA SuffixIs ==
  ASSUME NEW S, NEW s \in Seq(S), NEW r \in Seq(S), IsEnd(s, r)
  PROVE  IsSuffix(s, r)
<1>1. Len(s) \in Nat /\ Len(r) \in Nat /\ Len(s) <= Len(r)
  BY DEF IsEnd
<1>2. /\ Reverse(s) \in Seq(S) /\ Len(Reverse(s)) = Len(s) /\ \A i \in 1 .. Len(s) : Reverse(s)[i] = s[Len(s) - i + 1]
      /\ Reverse(r) \in Seq(S) /\ Len(Reverse(r)) = Len(r) /\ \A i \in 1 .. Len(r) : Reverse(r)[i] = r[Len(r) - i + 1]
  BY <1>1 DEF Reverse
<1>3. \A i \in 1 .. Len(s) : Reverse(s)[i] = Reverse(r)[i]
  <2> SUFFICES ASSUME NEW i \in 1 .. Len(s) PROVE Reverse(s)[i] = Reverse(r)[i]
    OBVIOUS
  <2>1. /\ Len(s) - i + 1 \in 1 .. Len(s) /\ Len(r) - Len(s) + (Len(s) - i + 1) = Len(r) - i + 1
        /\ i \in 1 .. Len(r)
    BY <1>1
  <2>2. s[Len(s) - i + 1] = r[Len(r) - Len(s) + (Len(s) - i + 1)]
    BY <2>1 DEF IsEnd
  <2>3. Reverse(s)[i] = s[Len(s) - i + 1] /\ Reverse(r)[i] = r[Len(r) - i + 1]
    BY <1>2, <2>1
  <2> QED
    BY <2>1, <2>2, <2>3
<1> DEFINE a == Reverse(s)
           b == Reverse(r)
<1>4. a \in Seq(S) /\ b \in Seq(S) /\ Len(a) <= Len(b) /\ \A i \in 1 .. Len(a) : a[i] = b[i]
  BY <1>1, <1>2, <1>3
<1> HIDE DEF a, b
<1>5. SubSeq(a, 1, Len(a)) = SubSeq(b, 1, Len(a))
  BY <1>4
<1> QED
  BY <1>4, <1>5 DEF IsSuffix, IsPrefix, a, b

LEMMA EndsOn ==
  ASSUME NEW S, NEW s \in Seq(S), NEW r \in Seq(S), NEW q \in Seq(S), IsEnd(s, r), IsEnd(r, q)
  PROVE  IsEnd(s, q)
<1>1. Len(s) \in Nat /\ Len(r) \in Nat /\ Len(q) \in Nat /\ Len(s) <= Len(r) /\ Len(r) <= Len(q)
  BY DEF IsEnd
<1> SUFFICES ASSUME NEW i \in 1 .. Len(s) PROVE s[i] = q[Len(q) - Len(s) + i]
  BY <1>1 DEF IsEnd
<1>2. Len(r) - Len(s) + i \in 1 .. Len(r) /\ Len(q) - Len(r) + (Len(r) - Len(s) + i) = Len(q) - Len(s) + i
  BY <1>1
<1>3. s[i] = r[Len(r) - Len(s) + i]
  BY DEF IsEnd
<1>4. r[Len(r) - Len(s) + i] = q[Len(q) - Len(r) + (Len(r) - Len(s) + i)]
  BY <1>2 DEF IsEnd
<1> QED
  BY <1>2, <1>3, <1>4

\* The end of a sequence from one of its places on.
LEMMA EndFrom ==
  ASSUME NEW S, NEW s \in Once(S), NEW k \in 1 .. Len(s) + 1
  PROVE  LET e == SubSeq(s, k, Len(s))
         IN  e \in Once(S) /\ Len(e) = Len(s) + 1 - k /\ IsEnd(e, s)
<1> DEFINE e == SubSeq(s, k, Len(s))
<1>1. s \in Seq(S) /\ Len(s) \in Nat /\ IsInjective(s) /\ DOMAIN s = 1 .. Len(s)
  BY DEF Once
<1>2. e \in Seq(S) /\ Len(e) = Len(s) + 1 - k /\ DOMAIN e = 1 .. Len(e) /\ \A i \in 1 .. Len(e) : e[i] = s[k - 1 + i]
  BY <1>1
<1> HIDE DEF e
<1>3. IsEnd(e, s)
  <2>1. \A i \in 1 .. Len(e) : Len(s) - Len(e) + i = k - 1 + i
    BY <1>1, <1>2
  <2> QED
    BY <1>1, <1>2, <2>1 DEF IsEnd
<1>4. IsInjective(e)
  <2> SUFFICES ASSUME NEW i \in 1 .. Len(e), NEW j \in 1 .. Len(e), e[i] = e[j] PROVE i = j
    BY <1>2 DEF IsInjective
  <2>1. k - 1 + i \in 1 .. Len(s) /\ k - 1 + j \in 1 .. Len(s) /\ s[k - 1 + i] = s[k - 1 + j]
    BY <1>1, <1>2
  <2>2. k - 1 + i = k - 1 + j
    BY <1>1, <2>1 DEF IsInjective
  <2> QED
    BY <2>2
<1> QED
  BY <1>2, <1>3, <1>4 DEF Once, e

LEMMA EndIs ==
  ASSUME NEW S, NEW s \in Once(S), NEW u \in Once(S), IsEnd(u, s)
  PROVE  Len(s) - Len(u) + 1 \in 1 .. Len(s) + 1 /\ u = SubSeq(s, Len(s) - Len(u) + 1, Len(s)) /\ ToSet(u) \subseteq ToSet(s)
<1> DEFINE k == Len(s) - Len(u) + 1
<1>1. u \in Seq(S) /\ s \in Seq(S) /\ Len(u) \in Nat /\ Len(s) \in Nat /\ Len(u) <= Len(s)
      /\ DOMAIN u = 1 .. Len(u) /\ DOMAIN s = 1 .. Len(s)
  BY DEF Once, IsEnd
<1>2. k \in 1 .. Len(s) + 1
  BY <1>1
<1> DEFINE e == SubSeq(s, k, Len(s))
<1>3. e \in Seq(S) /\ Len(e) = Len(u) /\ \A i \in 1 .. Len(u) : e[i] = s[k - 1 + i]
  BY <1>1, <1>2
<1>4. \A i \in 1 .. Len(u) : u[i] = s[k - 1 + i] /\ k - 1 + i \in 1 .. Len(s)
  <2>1. \A i \in 1 .. Len(u) : Len(s) - Len(u) + i = k - 1 + i /\ k - 1 + i \in 1 .. Len(s)
    BY <1>1
  <2> QED
    BY <2>1 DEF IsEnd
<1> HIDE DEF e
<1>5. u = e
  BY <1>1, <1>3, <1>4, SeqEqual
<1>6. ToSet(u) \subseteq ToSet(s)
  BY <1>1, <1>4 DEF ToSet
<1> QED
  BY <1>2, <1>5, <1>6 DEF e

\* A sequence with one of its members, or another, moved to its end.
Moved(s, b) == Append(RemoveFirst(s, b), b)

LEMMA MovedNew ==
  ASSUME NEW S, NEW s \in Once(S), NEW b \in S, ~Contains(s, b)
  PROVE  /\ Moved(s, b) = Append(s, b) /\ Moved(s, b) \in Once(S)
         /\ ToSet(Moved(s, b)) = ToSet(s) \cup {b}
<1>1. s \in Seq(S) /\ Len(s) \in Nat /\ DOMAIN s = 1 .. Len(s) /\ IsInjective(s)
  BY DEF Once
<1>2. Moved(s, b) = Append(s, b)
  BY DEF Moved, RemoveFirst, Contains
<1>3. \A i \in 1 .. Len(s) : s[i] # b
  BY DEF Contains
<1> DEFINE l == Append(s, b)
<1>4. l \in Seq(S) /\ Len(l) = Len(s) + 1 /\ l[Len(s) + 1] = b /\ DOMAIN l = 1 .. Len(s) + 1
      /\ \A i \in 1 .. Len(s) : l[i] = s[i]
  BY <1>1
<1> HIDE DEF l
<1>5. IsInjective(l)
  BY <1>1, <1>3, <1>4 DEF IsInjective
<1>6. ToSet(l) = ToSet(s) \cup {b}
  BY <1>1, <1>4 DEF ToSet
<1> QED
  BY <1>2, <1>4, <1>5, <1>6 DEF Once, l

LEMMA MovedAgain ==
  ASSUME NEW S, NEW s \in Once(S), NEW b \in S, NEW p \in 1 .. Len(s), s[p] = b
  PROVE  LET l == Moved(s, b)
         IN  /\ l \in Once(S) /\ Len(l) = Len(s) /\ l[Len(s)] = b /\ ToSet(l) = ToSet(s)
             /\ \A i \in 1 .. Len(s) - 1 : l[i] = IF i < p THEN s[i] ELSE s[i + 1]
<1>1. s \in Seq(S) /\ Len(s) \in Nat /\ DOMAIN s = 1 .. Len(s) /\ IsInjective(s) /\ p \in Nat
  BY DEF Once
<1>2. SelectInSeq(s, LAMBDA v : v = b) = p
  <2>1. {i \in 1 .. Len(s) : s[i] = b} = {p}
    BY <1>1 DEF IsInjective
  <2>2. Min({p}) = p
    BY <1>1 DEF Min
  <2> QED
    BY <2>1, <2>2 DEF SelectInSeq
<1> DEFINE front == SubSeq(s, 1, p - 1)
           rest == SubSeq(s, p + 1, Len(s))
           l == Append(front \o rest, b)
<1>3. Moved(s, b) = l
  BY <1>2 DEF Moved, RemoveFirst, RemoveAt
<1>4. front \in Seq(S) /\ Len(front) = p - 1 /\ \A i \in 1 .. p - 1 : front[i] = s[i]
  BY <1>1
<1>5. rest \in Seq(S) /\ Len(rest) = Len(s) - p /\ \A i \in 1 .. Len(s) - p : rest[i] = s[p + i]
  <2>1. p + 1 \in 1 .. Len(s) + 1
    BY <1>1
  <2>2. rest \in Seq(S) /\ Len(rest) = Len(s) + 1 - (p + 1)
        /\ \A i \in 1 .. Len(rest) : rest[i] = s[(p + 1) + i - 1]
    BY <1>1, <2>1
  <2> HIDE DEF rest
  <2>3. Len(rest) = Len(s) - p
    <3>1. Len(rest) = Len(s) + 1 - (p + 1) /\ Len(s) \in Nat /\ p \in Nat
      BY <1>1, <2>2
    <3> QED
      BY ONLY <3>1
  <2>4. ASSUME NEW i \in 1 .. Len(s) - p PROVE rest[i] = s[p + i]
    <3>1. (p + 1) + i - 1 = p + i /\ i \in 1 .. Len(rest)
      BY <1>1, <2>3
    <3> QED
      BY <2>2, <3>1
  <2> QED
    BY <2>2, <2>3, <2>4
<1> HIDE DEF front, rest
<1>6. l \in Seq(S) /\ Len(l) = Len(s) /\ l[Len(s)] = b /\ DOMAIN l = 1 .. Len(s)
  <2> DEFINE both == front \o rest
  <2>1. both \in Seq(S) /\ Len(both) = Len(front) + Len(rest)
    <3>1. front \in Seq(S) /\ rest \in Seq(S)
      BY <1>4, <1>5
    <3> QED
      BY <3>1
  <2>2. Len(both) + 1 = Len(s)
    BY <1>1, <1>4, <1>5, <2>1
  <2> HIDE DEF both
  <2>3. Append(both, b) \in Seq(S) /\ Len(Append(both, b)) = Len(s) /\ Append(both, b)[Len(s)] = b
    BY <2>1, <2>2
  <2>4. l = Append(both, b)
    BY DEF both
  <2> HIDE DEF l
  <2>5. l \in Seq(S) /\ Len(l) = Len(s) /\ l[Len(s)] = b
    BY <2>3, <2>4
  <2>6. DOMAIN l = 1 .. Len(l)
    BY <2>5
  <2> QED
    BY <2>5, <2>6
<1>7. ASSUME NEW i \in 1 .. Len(s) - 1 PROVE l[i] = IF i < p THEN s[i] ELSE s[i + 1]
  <2>1. l[i] = (front \o rest)[i]
    BY <1>1, <1>4, <1>5
  <2>2. CASE i < p
    <3>1. (front \o rest)[i] = front[i] /\ i \in 1 .. p - 1
      BY <1>1, <1>4, <1>5, <2>2
    <3> QED
      BY <1>4, <2>1, <2>2, <3>1
  <2>3. CASE ~(i < p)
    <3>1. (front \o rest)[i] = rest[i - (p - 1)] /\ i - (p - 1) \in 1 .. Len(s) - p /\ p + (i - (p - 1)) = i + 1
      BY <1>1, <1>4, <1>5, <2>3
    <3>2. rest[i - (p - 1)] = s[p + (i - (p - 1))]
      BY <1>5, <3>1
    <3> QED
      BY <2>1, <2>3, <3>1, <3>2
  <2> QED
    BY <2>2, <2>3
<1> HIDE DEF l
<1>8. IsInjective(l)
  <2> SUFFICES ASSUME NEW i \in 1 .. Len(s), NEW j \in 1 .. Len(s), l[i] = l[j], i < j PROVE FALSE
    BY <1>6 DEF IsInjective
  <2>1. i \in 1 .. Len(s) - 1
    BY <1>1
  <2> DEFINE k == IF i < p THEN i ELSE i + 1
  <2>2. l[i] = s[k] /\ k \in 1 .. Len(s) /\ k # p
    BY <1>1, <1>7, <2>1
  <2>3. CASE j = Len(s)
    BY <1>1, <1>6, <2>2, <2>3 DEF IsInjective
  <2>4. CASE j # Len(s)
    <3> DEFINE m == IF j < p THEN j ELSE j + 1
    <3>1. j \in 1 .. Len(s) - 1
      BY <1>1, <2>4
    <3>2. l[j] = s[m]
      BY <1>7, <3>1
    <3>3. m \in 1 .. Len(s) /\ m # k
      BY <1>1, <3>1
    <3> HIDE DEF m, k
    <3> QED
      BY <1>1, <2>2, <3>2, <3>3 DEF IsInjective
  <2> QED
    BY <2>3, <2>4
<1>9. ToSet(l) = ToSet(s)
  <2>1. ASSUME NEW i \in 1 .. Len(s) PROVE l[i] \in ToSet(s)
    <3>1. CASE i = Len(s)
      BY <1>1, <1>6, <3>1 DEF ToSet
    <3>2. CASE i # Len(s)
      <4>1. i \in 1 .. Len(s) - 1 /\ i + 1 \in 1 .. Len(s)
        <5>1. Len(s) \in Nat
          BY <1>1
        <5> QED
          BY <3>2, <5>1
      <4>2. l[i] = s[i] \/ l[i] = s[i + 1]
        BY <1>7, <4>1
      <4> QED
        BY <1>1, <4>1, <4>2 DEF ToSet
    <3> QED
      BY <3>1, <3>2
  <2>2. ASSUME NEW i \in 1 .. Len(s) PROVE s[i] \in ToSet(l)
    <3>1. CASE i = p
      BY <1>1, <1>6, <3>1 DEF ToSet
    <3>2. CASE i < p
      <4>1. i \in 1 .. Len(s) - 1 /\ l[i] = s[i]
        BY <1>1, <1>7, <3>2
      <4> QED
        BY <1>6, <4>1 DEF ToSet
    <3>3. CASE p < i
      <4>1. i - 1 \in 1 .. Len(s) - 1 /\ l[i - 1] = s[i]
        <5>1. i - 1 \in 1 .. Len(s) - 1 /\ ~(i - 1 < p) /\ (i - 1) + 1 = i
          BY <1>1, <3>3
        <5>2. l[i - 1] = IF i - 1 < p THEN s[i - 1] ELSE s[(i - 1) + 1]
          BY <1>7, <5>1
        <5> QED
          BY <5>1, <5>2
      <4> QED
        BY <1>6, <4>1 DEF ToSet
    <3> QED
      BY <1>1, <3>1, <3>2, <3>3
  <2> QED
    BY <1>1, <1>6, <2>1, <2>2 DEF ToSet
<1> QED
  BY <1>3, <1>6, <1>7, <1>8, <1>9 DEF Once

\* Moving a member keeps one sequence the end of another.
LEMMA MovedEnds ==
  ASSUME NEW S, NEW s \in Once(S), NEW r \in Once(S), IsEnd(s, r), NEW b \in S
  PROVE  IsEnd(Moved(s, b), Moved(r, b))
<1> DEFINE d == Len(r) - Len(s)
<1>1. /\ s \in Seq(S) /\ Len(s) \in Nat /\ DOMAIN s = 1 .. Len(s) /\ IsInjective(s)
      /\ r \in Seq(S) /\ Len(r) \in Nat /\ DOMAIN r = 1 .. Len(r) /\ IsInjective(r)
  BY DEF Once
<1>2. Len(s) <= Len(r) /\ d \in Nat /\ Len(r) = d + Len(s)
  BY <1>1 DEF IsEnd
<1>3. \A i \in 1 .. Len(s) : s[i] = r[d + i]
  BY DEF IsEnd
<1> HIDE DEF d
<1>4. CASE Contains(s, b)
  <2>1. PICK p \in 1 .. Len(s) : s[p] = b
    BY <1>4 DEF Contains
  <2>2. d + p \in 1 .. Len(r) /\ r[d + p] = b
    BY <1>1, <1>2, <1>3, <2>1
  <2> DEFINE u == Moved(s, b)
             v == Moved(r, b)
  <2>3. Len(u) = Len(s) /\ u[Len(s)] = b /\ \A i \in 1 .. Len(s) - 1 : u[i] = IF i < p THEN s[i] ELSE s[i + 1]
    BY <2>1, MovedAgain
  <2>4. Len(v) = Len(r) /\ v[Len(r)] = b /\ \A i \in 1 .. Len(r) - 1 : v[i] = IF i < d + p THEN r[i] ELSE r[i + 1]
    BY <2>2, MovedAgain
  <2> HIDE DEF u, v
  <2>5. ASSUME NEW i \in 1 .. Len(s) PROVE u[i] = v[d + i]
    <3>1. CASE i = Len(s)
      BY <1>1, <1>2, <2>3, <2>4, <3>1
    <3>2. CASE i # Len(s)
      <4>1. i \in 1 .. Len(s) - 1 /\ d + i \in 1 .. Len(r) - 1 /\ i + 1 \in 1 .. Len(s) /\ (d + i) + 1 = d + (i + 1)
            /\ (i < p <=> d + i < d + p)
        <5>1. Len(s) \in Nat /\ Len(r) \in Nat /\ d \in Nat /\ Len(r) = d + Len(s) /\ i \in Nat /\ p \in Nat
          BY <1>1, <1>2
        <5>2. 1 <= i /\ i < Len(s)
          BY <3>2, <5>1
        <5> QED
          BY <5>1, <5>2
      <4>2. u[i] = (IF i < p THEN s[i] ELSE s[i + 1]) /\ v[d + i] = IF d + i < d + p THEN r[d + i] ELSE r[(d + i) + 1]
        BY <2>3, <2>4, <4>1
      <4>3. s[i] = r[d + i] /\ s[i + 1] = r[d + (i + 1)]
        BY <1>3, <4>1
      <4> QED
        BY <4>1, <4>2, <4>3
    <3> QED
      BY <3>1, <3>2
  <2>6. IsEnd(u, v)
    <3>1. Len(v) - Len(u) = d
      BY <1>1, <1>2, <2>3, <2>4
    <3> QED
      BY <1>2, <2>3, <2>4, <2>5, <3>1 DEF IsEnd
  <2> QED
    BY <2>6 DEF u, v
<1>5. CASE ~Contains(s, b)
  <2> DEFINE u == Moved(s, b)
             v == Moved(r, b)
  <2>1. Len(u) = Len(s) + 1 /\ u[Len(s) + 1] = b /\ \A i \in 1 .. Len(s) : u[i] = s[i]
    BY <1>1, <1>5, MovedNew
  <2>2. \E k \in {d, d - 1} : /\ Len(v) = k + Len(s) + 1 /\ v[Len(v)] = b /\ k \in Nat
                          /\ \A i \in 1 .. Len(s) : v[k + i] = r[d + i]
    <3>1. CASE Contains(r, b)
      <4>1. PICK p \in 1 .. Len(r) : r[p] = b
        BY <3>1 DEF Contains
      <4>2. p <= d
        <5> SUFFICES ASSUME ~(p <= d) PROVE FALSE
          OBVIOUS
        <5>1. p - d \in 1 .. Len(s) /\ d + (p - d) = p
          BY <1>1, <1>2
        <5>2. s[p - d] = r[d + (p - d)]
          BY <1>3, <5>1
        <5> QED
          BY <1>5, <4>1, <5>1, <5>2 DEF Contains
      <4>3. Len(v) = Len(r) /\ v[Len(r)] = b /\ \A i \in 1 .. Len(r) - 1 : v[i] = IF i < p THEN r[i] ELSE r[i + 1]
        BY <4>1, MovedAgain
      <4> HIDE DEF u, v
      <4>4. ASSUME NEW i \in 1 .. Len(s) PROVE v[(d - 1) + i] = r[d + i]
        <5>1. (d - 1) + i \in 1 .. Len(r) - 1 /\ ~((d - 1) + i < p) /\ ((d - 1) + i) + 1 = d + i
          BY <1>1, <1>2, <4>2
        <5>2. v[(d - 1) + i] = IF (d - 1) + i < p THEN r[(d - 1) + i] ELSE r[((d - 1) + i) + 1]
          BY <4>3, <5>1
        <5> QED
          BY <5>1, <5>2
      <4>5. d - 1 \in Nat /\ Len(v) = (d - 1) + Len(s) + 1
        BY <1>1, <1>2, <4>2, <4>3
      <4> QED
        BY <4>3, <4>4, <4>5
    <3>2. CASE ~Contains(r, b)
      <4>1. Len(v) = Len(r) + 1 /\ v[Len(r) + 1] = b /\ \A i \in 1 .. Len(r) : v[i] = r[i]
        BY <1>1, <3>2, MovedNew
      <4> HIDE DEF u, v
      <4>2. \A i \in 1 .. Len(s) : d + i \in 1 .. Len(r)
        BY <1>1, <1>2
      <4>3. Len(v) = d + Len(s) + 1 /\ v[Len(v)] = b
        BY <1>1, <1>2, <4>1
      <4> QED
        BY <1>2, <4>1, <4>2, <4>3
    <3> QED
      BY <3>1, <3>2
  <2> HIDE DEF u, v
  <2>3. PICK k \in {d, d - 1} : /\ Len(v) = k + Len(s) + 1 /\ v[Len(v)] = b /\ k \in Nat
                               /\ \A i \in 1 .. Len(s) : v[k + i] = r[d + i]
    BY <2>2
  <2>4. ASSUME NEW i \in 1 .. Len(s) + 1 PROVE u[i] = v[k + i]
    <3>1. CASE i = Len(s) + 1
      <4>1. k + i = Len(v)
        BY <1>1, <2>3, <3>1
      <4> QED
        BY <2>1, <2>3, <3>1, <4>1
    <3>2. CASE i # Len(s) + 1
      <4>1. i \in 1 .. Len(s)
        BY <1>1, <3>2
      <4> QED
        BY <1>3, <2>1, <2>3, <4>1
    <3> QED
      BY <3>1, <3>2
  <2>5. IsEnd(u, v)
    <3>1. Len(v) - Len(u) = k /\ Len(u) <= Len(v)
      BY <1>1, <2>1, <2>3
    <3> QED
      BY <2>1, <2>4, <3>1 DEF IsEnd
  <2> QED
    BY <2>5 DEF u, v
<1> QED
  BY <1>4, <1>5

\* An end stays one with the same member behind both.
LEMMA EndsAppend ==
  ASSUME NEW S, NEW s \in Seq(S), NEW r \in Seq(S), IsEnd(s, r), NEW b \in S
  PROVE  IsEnd(Append(s, b), Append(r, b))
<1> DEFINE t == Append(s, b)
           u == Append(r, b)
<1>1. Len(s) \in Nat /\ Len(r) \in Nat /\ Len(s) <= Len(r)
  BY DEF IsEnd
<1>2. /\ Len(t) = Len(s) + 1 /\ t[Len(s) + 1] = b /\ \A i \in 1 .. Len(s) : t[i] = s[i]
      /\ Len(u) = Len(r) + 1 /\ u[Len(r) + 1] = b /\ \A i \in 1 .. Len(r) : u[i] = r[i]
  BY <1>1
<1> HIDE DEF t, u
<1>3. ASSUME NEW i \in 1 .. Len(s) + 1 PROVE t[i] = u[Len(r) - Len(s) + i]
  <2>1. CASE i = Len(s) + 1
    BY <1>1, <1>2, <2>1
  <2>2. CASE i # Len(s) + 1
    <3>1. i \in 1 .. Len(s) /\ Len(r) - Len(s) + i \in 1 .. Len(r)
      BY <1>1, <2>2
    <3> QED
      BY <1>2, <3>1 DEF IsEnd
  <2> QED
    BY <2>1, <2>2
<1>4. \A i \in 1 .. Len(t) : t[i] = u[Len(u) - Len(t) + i]
  <2>1. Len(u) - Len(t) = Len(r) - Len(s) /\ Len(t) = Len(s) + 1
    BY <1>1, <1>2
  <2> QED
    BY <1>3, <2>1
<1> QED
  BY <1>1, <1>2, <1>4 DEF IsEnd, t, u

\* Members of a sequence moved to its end one after the other are its end.
MovedAll(s, q) == FoldLeft(LAMBDA all, b : Append(RemoveFirst(all, b), b), s, q)

\* h is what they are moved through.
Rearranged(S, s) == {t \in Once(S) : ToSet(t) = ToSet(s) /\ Len(t) = Len(s)}
MovesAlong(S, s, q, h) ==
  /\ h \in [0 .. Len(q) -> Rearranged(S, s)] /\ h[0] = s /\ MovedAll(s, q) = h[Len(q)]
  /\ \A i \in 1 .. Len(q) : h[i] = Moved(h[i - 1], q[i])

LEMMA MovesPass ==
  ASSUME NEW S, NEW s \in Once(S), NEW q \in Once(S), ToSet(q) \subseteq ToSet(s)
  PROVE  \E h : MovesAlong(S, s, q, h)
<1> DEFINE n == Len(q)
           X == {t \in Once(S) : ToSet(t) = ToSet(s) /\ Len(t) = Len(s)}
           F == [p \in X \X (1 .. n) |-> Moved(p[1], q[p[2]])]
           Is(g) == g = [u \in SUBSET (1 .. n) |-> IF u = {} THEN s ELSE Append(RemoveFirst(g[u \ {Max(u)}], q[Max(u)]), q[Max(u)])]
           c == CHOOSE g : Is(g)
<1>1. n \in Nat /\ DOMAIN q = 1 .. n /\ \A i \in 1 .. n : q[i] \in ToSet(s)
  <2>1. n \in Nat /\ DOMAIN q = 1 .. n
    BY DEF Once
  <2>2. \A i \in 1 .. n : q[i] \in ToSet(q)
    BY <2>1 DEF ToSet
  <2> QED
    BY <2>1, <2>2
<1>2. F \in [X \X (1 .. n) -> X] /\ s \in X
  <2>1. ASSUME NEW t \in X, NEW i \in 1 .. n PROVE Moved(t, q[i]) \in X
    <3>1. t \in Once(S) /\ q[i] \in ToSet(t) /\ t \in Seq(S)
      BY <1>1 DEF Once
    <3>2. PICK p \in 1 .. Len(t) : t[p] = q[i]
      BY <3>1 DEF ToSet
    <3>3. q[i] \in S
      BY <1>1 DEF Once
    <3>4. Moved(t, q[i]) \in Once(S) /\ Len(Moved(t, q[i])) = Len(t) /\ ToSet(Moved(t, q[i])) = ToSet(t)
      BY <3>1, <3>2, <3>3, MovedAgain
    <3> QED
      BY <3>4
  <2> HIDE DEF X
  <2>2. F \in [X \X (1 .. n) -> X]
    BY <2>1
  <2> QED
    BY <2>2 DEF X
<1>3. MovedAll(s, q) = c[1 .. n]
  BY <1>1 DEF MovedAll, FoldLeft, MapThenFoldSet
<1>4. \A t \in X : \A i \in 1 .. n : F[<<t, i>>] = Moved(t, q[i])
  OBVIOUS
<1> HIDE DEF F, X
<1>5. PICK g \in [SUBSET (1 .. n) -> X] : Walks(g, F, s, n)
  BY <1>1, <1>2, WalkExists
<1>6. \A u \in SUBSET (1 .. n) : u # {} => Max(u) \in 1 .. n /\ u \ {Max(u)} \in SUBSET (1 .. n)
  BY <1>1, MaxIn
<1>7. \A u \in SUBSET (1 .. n) : u # {} => g[u] = Moved(g[u \ {Max(u)}], q[Max(u)])
  BY <1>4, <1>5, <1>6 DEF Walks
<1>8. Is(g)
  BY <1>5, <1>7 DEF Walks, Moved
<1>9. Is(c)
  BY <1>8
<1>10. \A u \in SUBSET (1 .. n) : g[u] = c[u]
  <2>1. c[{}] = s /\ \A u \in SUBSET (1 .. n) : u # {} => c[u] = Moved(c[u \ {Max(u)}], q[Max(u)])
    BY <1>9 DEF Moved
  <2>2. g[{}] = s
    BY <1>5 DEF Walks
  <2> HIDE DEF c, n
  <2>3. GoAlike(g, c, n)
    BY <1>7, <2>1, <2>2 DEF GoAlike
  <2>4. n \in Nat
    BY <1>1
  <2> QED
    BY ONLY <2>3, <2>4, WalksAgree
<1> DEFINE h == [i \in 0 .. n |-> g[1 .. i]]
<1>11. h \in [0 .. n -> X] /\ Passes(h, F, s, n) /\ h[n] = g[1 .. n]
  BY <1>1, <1>5, WalkPasses
<1> HIDE DEF h
<1>12. \A i \in 1 .. n : h[i] = Moved(h[i - 1], q[i])
  <2>1. \A i \in 1 .. n : i - 1 \in 0 .. n
    BY <1>1
  <2> QED
    BY <1>4, <1>11, <2>1 DEF Passes
<1> QED
  BY <1>1, <1>3, <1>10, <1>11, <1>12 DEF Passes, X, Rearranged, MovesAlong

LEMMA MovedAllEnds ==
  ASSUME NEW S, NEW s \in Once(S), NEW q \in Once(S), ToSet(q) \subseteq ToSet(s)
  PROVE  MovedAll(s, q) \in Once(S) /\ ToSet(MovedAll(s, q)) = ToSet(s) /\ IsEnd(q, MovedAll(s, q))
<1> DEFINE n == Len(q)
           m == Len(s)
           X == {t \in Once(S) : ToSet(t) = ToSet(s) /\ Len(t) = Len(s)}
<1>1. PICK h \in [0 .. n -> X] : h[0] = s /\ MovedAll(s, q) = h[n] /\ \A i \in 1 .. n : h[i] = Moved(h[i - 1], q[i])
  <2>1. PICK h : MovesAlong(S, s, q, h)
    BY MovesPass
  <2> QED
    BY <2>1 DEF MovesAlong, Rearranged
<1>2. n \in Nat /\ m \in Nat /\ DOMAIN q = 1 .. n /\ IsInjective(q)
      /\ \A i \in 1 .. n : q[i] \in S /\ q[i] \in ToSet(s)
  BY DEF Once, ToSet
<1>3. \A i \in 0 .. n : h[i] \in Seq(S) /\ h[i] \in Once(S) /\ Len(h[i]) = m /\ DOMAIN h[i] = 1 .. m /\ ToSet(h[i]) = ToSet(s)
  BY <1>1 DEF Once
\* After i of them these are the last i.
<1> DEFINE Behind == {i \in 0 .. n : i <= m /\ \A j \in 1 .. i : h[i][m - i + j] = q[j]}
<1>4. 0 \in Behind
  BY <1>2
<1>5. ASSUME NEW i \in 1 .. n, i - 1 \in Behind PROVE i \in Behind
  <2> DEFINE t == h[i - 1]
             b == q[i]
             l == h[i]
  <2>1. i - 1 \in 0 .. n /\ i \in Nat /\ i - 1 <= m /\ \A j \in 1 .. i - 1 : t[m - (i - 1) + j] = q[j]
    BY <1>2, <1>5
  <2>2. t \in Seq(S) /\ t \in Once(S) /\ Len(t) = m /\ DOMAIN t = 1 .. m /\ ToSet(t) = ToSet(s) /\ l = Moved(t, b)
    BY <1>1, <1>3, <2>1
  <2> HIDE DEF t, l
  <2>3. PICK p \in 1 .. m : t[p] = b
    BY <1>2, <2>2 DEF ToSet
  <2>4. p <= m - (i - 1)
    <3> SUFFICES ASSUME p > m - (i - 1) PROVE FALSE
      BY <1>2, <2>1
    <3>1. p - (m - (i - 1)) \in 1 .. i - 1 /\ m - (i - 1) + (p - (m - (i - 1))) = p
      BY <1>2, <2>1
    <3>2. t[p] = q[p - (m - (i - 1))]
      BY <2>1, <3>1
    <3>3. p - (m - (i - 1)) \in 1 .. n /\ p - (m - (i - 1)) # i
      BY <1>2, <2>1, <3>1
    <3> QED
      BY <1>2, <2>3, <3>2, <3>3 DEF IsInjective
  <2>5. l[m] = b /\ \A j \in 1 .. m - 1 : l[j] = IF j < p THEN t[j] ELSE t[j + 1]
    <3>1. b \in S /\ p \in 1 .. Len(t) /\ t[p] = b
      BY <1>2, <2>2, <2>3
    <3>2. l[Len(t)] = b /\ \A j \in 1 .. Len(t) - 1 : l[j] = IF j < p THEN t[j] ELSE t[j + 1]
      BY <2>2, <3>1, MovedAgain
    <3> QED
      BY <2>2, <3>2
  <2>6. i <= m
    BY <1>2, <2>1, <2>3, <2>4
  <2>7. ASSUME NEW j \in 1 .. i PROVE l[m - i + j] = q[j]
    <3>1. CASE j = i
      <4>1. m - i + j = m
        BY <1>2, <2>1, <3>1
      <4> QED
        BY <2>5, <3>1, <4>1
    <3>2. CASE j # i
      <4>1. j \in 1 .. i - 1 /\ m - i + j \in 1 .. m - 1 /\ m - i + j >= p /\ (m - i + j) + 1 = m - (i - 1) + j
        BY <1>2, <2>1, <2>4, <2>6, <3>2
      <4>2. l[m - i + j] = t[(m - i + j) + 1]
        <5> DEFINE k == m - i + j
        <5>1. k \in 1 .. m - 1 /\ ~(k < p)
          BY <4>1
        <5> HIDE DEF k
        <5>2. l[k] = t[k + 1]
          BY <2>5, <5>1
        <5> QED
          BY <5>2 DEF k
      <4> QED
        BY <2>1, <4>1, <4>2
    <3> QED
      BY <3>1, <3>2
  <2>8. i \in 0 .. n
    OBVIOUS
  <2> QED
    BY <2>6, <2>7, <2>8 DEF l
<1>6. n \in Behind
  <2> HIDE DEF Behind
  <2>1. \A i \in 0 .. n : i \in Behind
    BY <1>2, <1>4, <1>5, Along
  <2> QED
    BY <1>2, <2>1
<1>7. n \in 0 .. n
  BY <1>2
<1> DEFINE r == h[n]
<1>8. r \in Once(S) /\ Len(r) = m /\ ToSet(r) = ToSet(s) /\ MovedAll(s, q) = r /\ n <= m
      /\ \A j \in 1 .. n : q[j] = r[m - n + j]
  BY <1>1, <1>3, <1>6, <1>7
<1> HIDE DEF r
<1> QED
  BY <1>8 DEF IsEnd

\* The first of a sequence removed.
LEMMA HeadGone ==
  ASSUME NEW S, NEW s \in Once(S), s # <<>>
  PROVE  LET t == RemoveFirst(s, Head(s))
         IN  /\ t \in Once(S) /\ Len(t) = Len(s) - 1 /\ \A i \in 1 .. Len(t) : t[i] = s[i + 1]
             /\ ToSet(t) = ToSet(s) \ {Head(s)}
<1>1. s \in Seq(S) /\ Len(s) \in Nat \ {0} /\ DOMAIN s = 1 .. Len(s) /\ IsInjective(s) /\ Head(s) = s[1]
  BY DEF Once
<1> DEFINE b == s[1]
           rest == SubSeq(s, 2, Len(s))
<1>2. 1 \in 1 .. Len(s) /\ \A i \in 1 .. Len(s) : s[i] = b => i = 1
  BY <1>1 DEF IsInjective
<1>3. SelectInSeq(s, LAMBDA v : v = b) = 1
  <2>1. {i \in 1 .. Len(s) : s[i] = b} = {1}
    BY <1>2
  <2>2. Min({1}) = 1
    BY DEF Min
  <2> QED
    BY <2>1, <2>2 DEF SelectInSeq
<1>4. rest \in Seq(S) /\ Len(rest) = Len(s) - 1 /\ \A i \in 1 .. Len(s) - 1 : rest[i] = s[i + 1]
  <2>1. 2 \in 1 .. Len(s) + 1 /\ Len(s) \in Nat
    BY <1>1
  <2>2. \A i \in 1 .. Len(s) - 1 : 2 + i - 1 = i + 1
    BY <1>1
  <2> QED
    BY <1>1, <2>1, <2>2
<1>5. RemoveFirst(s, b) = rest
  <2>1. SubSeq(s, 1, 1 - 1) = <<>> /\ 1 + 1 = 2
    BY <1>1
  <2>2. SubSeq(s, 1, 1 - 1) \o rest = rest
    BY <1>4, <2>1
  <2>3. RemoveFirst(s, b) = RemoveAt(s, 1)
    BY <1>2, <1>3 DEF RemoveFirst
  <2>4. RemoveAt(s, 1) = SubSeq(s, 1, 1 - 1) \o rest
    BY <2>1 DEF RemoveAt
  <2> QED
    BY <2>2, <2>3, <2>4
<1> HIDE DEF rest
<1>6. DOMAIN rest = 1 .. Len(s) - 1
  BY <1>4
<1>7. IsInjective(rest)
  <2> SUFFICES ASSUME NEW i \in 1 .. Len(s) - 1, NEW j \in 1 .. Len(s) - 1, rest[i] = rest[j] PROVE i = j
    BY <1>6 DEF IsInjective
  <2>1. i + 1 \in 1 .. Len(s) /\ j + 1 \in 1 .. Len(s) /\ s[i + 1] = s[j + 1]
    BY <1>1, <1>4
  <2>2. i + 1 = j + 1
    BY <1>1, <2>1 DEF IsInjective
  <2> QED
    BY <2>2
<1>8. ToSet(rest) = ToSet(s) \ {b}
  <2>1. \A i \in 1 .. Len(s) - 1 : i + 1 \in 1 .. Len(s) /\ i + 1 # 1
    BY <1>1
  <2>2. \A i \in 1 .. Len(s) : i # 1 => i - 1 \in 1 .. Len(s) - 1 /\ (i - 1) + 1 = i
    BY <1>1
  <2>3. ToSet(rest) \subseteq ToSet(s) \ {b}
    BY <1>1, <1>2, <1>4, <1>6, <2>1 DEF ToSet
  <2>4. ToSet(s) \ {b} \subseteq ToSet(rest)
    <3> SUFFICES ASSUME NEW i \in 1 .. Len(s), s[i] # b PROVE s[i] \in ToSet(rest)
      BY <1>1 DEF ToSet
    <3>1. i - 1 \in 1 .. Len(s) - 1 /\ (i - 1) + 1 = i
      BY <2>2
    <3>2. rest[i - 1] = s[i]
      BY <1>4, <3>1
    <3> QED
      BY <1>6, <3>1, <3>2 DEF ToSet
  <2> QED
    BY <2>3, <2>4
<1>9. rest \in Once(S) /\ Len(rest) = Len(s) - 1
  BY <1>4, <1>7 DEF Once
<1> QED
  BY <1>1, <1>4, <1>5, <1>8, <1>9

\* A finite set, listed.
LEMMA Listed ==
  ASSUME NEW S, IsFiniteSet(S)
  PROVE  SetToSeq(S) \in Once(S) /\ ToSet(SetToSeq(S)) = S
<1> DEFINE n == Cardinality(S)
<1>1. n \in Nat /\ \E f : f \in Bijection(1 .. n, S)
  BY FS_CardinalityType DEF ExistsBijection
<1>2. PICK f \in [1 .. n -> S] : IsInjective(f)
  BY <1>1 DEF Bijection, Injection
<1> DEFINE s == SetToSeq(S)
<1>3. s \in [1 .. n -> S] /\ IsInjective(s)
  BY <1>2 DEF SetToSeq
<1> HIDE DEF s
<1>4. s \in Seq(S) /\ DOMAIN s = 1 .. n
  BY <1>1, <1>3
<1>5. S \subseteq ToSet(s)
  <2>1. IsFiniteSet(1 .. n) /\ Cardinality(1 .. n) = n /\ n = Cardinality(S)
    BY <1>1, FS_Interval
  <2>2. s \in Injection(1 .. n, S)
    BY <1>3 DEF Injection
  <2> DEFINE places == 1 .. n
  <2>3. s \in Surjection(places, S)
    <3>1. s \in Injection(places, S) /\ Cardinality(places) = Cardinality(S)
      BY <2>1, <2>2
    <3> HIDE DEF n, places
    <3> QED
      BY <3>1, FS_Injection
  <2> QED
    BY <1>4, <2>3 DEF Surjection, ToSet
<1>6. ToSet(s) = S
  BY <1>3, <1>4, <1>5 DEF ToSet
<1> QED
  BY <1>3, <1>4, <1>6 DEF Once, s
=============================================================================
