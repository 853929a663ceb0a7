---------------------------- MODULE NumberLemmas ----------------------------
(***************************************************************************)
(* For the proofs: least and greatest elements, and sums over finite sets. *)
(* What a sum is for each subset of a set is shown by the least subset for *)
(* which it were not so.                                                   *)
(***************************************************************************)
EXTENDS Integers, Functions, FiniteSetTheorems, WellFoundedInduction, TLAPS

(* Every non-empty set of naturals has a least element. *)
LEMMA NatLeast ==
  ASSUME NEW T, T \subseteq Nat, T # {}
  PROVE  \E x \in T : \A y \in T : x <= y
<1> DEFINE R == OpToRel(<, Nat)
<1>1. IsWellFoundedOn(R, Nat)  BY NatLessThanWellFounded
<1>2. \A x, y \in Nat : x < y => <<x, y>> \in R  BY DEF OpToRel
<1> HIDE DEF R
<1>3. PICK x \in T : \A y \in T : ~(<<y, x>> \in R)  BY <1>1, WFMin
<1>4. ASSUME NEW y \in T PROVE x <= y
  <2>1. ~ (y < x)  BY <1>2, <1>3
  <2>2. x \in Nat /\ y \in Nat  OBVIOUS
  <2>3. QED  BY <2>1, <2>2
<1>5. QED  BY <1>4

(* Every non-empty bounded set of naturals has a greatest element. *)
LEMMA NatGreatest ==
  ASSUME NEW n \in Nat, NEW T, T \subseteq 0 .. n, T # {}
  PROVE  \E x \in T : \A y \in T : y <= x
<1> DEFINE D == {n - x : x \in T}
<1>1. D \subseteq Nat /\ D # {}
  <2>1. \A x \in T : x \in Nat /\ x <= n /\ n - x \in Nat  OBVIOUS
  <2>2. QED  BY <2>1
<1>2. PICK d \in D : \A e \in D : d <= e
  <2> HIDE DEF D
  <2> QED  BY <1>1, NatLeast
<1>3. PICK x \in T : d = n - x  OBVIOUS
<1>4. ASSUME NEW y \in T PROVE y <= x
  <2>1. n - y \in D  OBVIOUS
  <2>2. d <= n - y  BY <1>2, <2>1
  <2>3. x \in 0 .. n /\ y \in 0 .. n  OBVIOUS
  <2>4. QED  BY <1>3, <2>2, <2>3
<1>5. QED  BY <1>4
(***************************************************************************)
(* Sums.                                                                   *)
(***************************************************************************)
(* The recursion that SumFunctionOnSet chooses a function for. *)
Adds(f, S, g) ==
  g = [s \in SUBSET S |-> IF s = {} THEN 0
                          ELSE f[CHOOSE x \in s : TRUE] + g[s \ {CHOOSE x \in s : TRUE}]]

LEMMA SumUnfold ==
  ASSUME NEW f, NEW S
  PROVE  SumFunctionOnSet(f, S) = (CHOOSE g : Adds(f, S, g))[S]
BY DEF SumFunctionOnSet, FoldFunctionOnSet, MapThenFoldSet, Adds

(* A set smaller than n, or one whose size is the least of some, ... *)
LEMMA LeastSet ==
  ASSUME NEW S, IsFiniteSet(S), NEW Q, Q \subseteq SUBSET S, Q # {}
  PROVE  \E T \in Q : \A U \in Q : Cardinality(T) <= Cardinality(U)
<1> DEFINE N == {Cardinality(T) : T \in Q}
<1>1. \A T \in Q : IsFiniteSet(T)  BY FS_Subset
<1>2. N \subseteq Nat /\ N # {}  BY <1>1, FS_CardinalityType
<1>3. PICK n \in N : \A m \in N : n <= m
  <2> HIDE DEF N
  <2> QED  BY <1>2, NatLeast
<1>4. QED  BY <1>3

LEMMA SumExists ==
  ASSUME NEW f, NEW S, IsFiniteSet(S), \A x \in S : f[x] \in Int
  PROVE  \E g \in [SUBSET S -> Int] : Adds(f, S, g)
<1> DEFINE Rec(g, s) == g[s] = IF s = {} THEN 0
                               ELSE f[CHOOSE x \in s : TRUE] + g[s \ {CHOOSE x \in s : TRUE}]
           Level(n) == {s \in SUBSET S : Cardinality(s) <= n}
           Good(n) == \E g \in [Level(n) -> Int] : \A s \in Level(n) : Rec(g, s)
           Bad == {n \in Nat : ~Good(n)}
<1>1. \A s \in SUBSET S : IsFiniteSet(s) /\ Cardinality(s) \in Nat  BY FS_Subset, FS_CardinalityType
<1>2. \A s \in SUBSET S : s # {} =>
        LET x == CHOOSE x \in s : TRUE
        IN  x \in s /\ s \ {x} \in SUBSET S /\ Cardinality(s \ {x}) = Cardinality(s) - 1
  BY <1>1, FS_RemoveElement
<1>3. Good(0)
  <2>1. \A s \in Level(0) : s = {}  BY <1>1, FS_EmptySet
  <2> DEFINE g == [s \in Level(0) |-> 0]
  <2>2. g \in [Level(0) -> Int]  OBVIOUS
  <2>3. \A s \in Level(0) : Rec(g, s)  BY <2>1
  <2> HIDE DEF g
  <2>4. QED  BY <2>2, <2>3
<1>4. ASSUME NEW n \in Nat, Good(n) PROVE Good(n + 1)
  <2>1. PICK g \in [Level(n) -> Int] : \A s \in Level(n) : Rec(g, s)  BY <1>4
  <2> DEFINE h == [s \in Level(n + 1) |-> IF s = {} THEN 0
                      ELSE f[CHOOSE x \in s : TRUE] + g[s \ {CHOOSE x \in s : TRUE}]]
  <2>2. \A s \in Level(n + 1) : s # {} =>
          LET x == CHOOSE x \in s : TRUE
          IN  x \in S /\ s \ {x} \in Level(n) /\ s \ {x} \in Level(n + 1)
    BY <1>1, <1>2
  <2>3. \A s \in Level(n + 1) : h[s] \in Int  BY <2>2
  <2>4. \A s \in Level(n) : s \in Level(n + 1) /\ h[s] = g[s]
    <3>1. \A s \in Level(n) : s \in Level(n + 1)  BY <1>1
    <3>2. QED  BY <2>1, <3>1
  <2>5. \A s \in Level(n + 1) : Rec(h, s)
    <3> SUFFICES ASSUME NEW s \in Level(n + 1) PROVE Rec(h, s)  OBVIOUS
    <3>1. CASE s = {}  BY <3>1
    <3>2. CASE s # {}
      <4> DEFINE x == CHOOSE x \in s : TRUE
      <4>1. s \ {x} \in Level(n)  BY <2>2, <3>2
      <4>2. h[s] = f[x] + g[s \ {x}]  BY <3>2
      <4>3. h[s \ {x}] = g[s \ {x}]  BY <2>4, <4>1
      <4> HIDE DEF x, h
      <4>4. QED  BY <3>2, <4>2, <4>3 DEF x
    <3>3. QED  BY <3>1, <3>2
  <2>6. h \in [Level(n + 1) -> Int]  BY <2>3
  <2> HIDE DEF h
  <2>7. QED  BY <2>5, <2>6
<1> HIDE DEF Good
<1>5. Bad = {}
  <2> SUFFICES ASSUME Bad # {} PROVE FALSE  OBVIOUS
  <2>1. Bad \subseteq Nat  OBVIOUS
  <2>2. PICK n \in Bad : \A m \in Bad : n <= m
    <3> HIDE DEF Bad
    <3> QED  BY <2>1, NatLeast
  <2>3. n # 0  BY <1>3
  <2>4. n - 1 \in Nat /\ n - 1 \notin Bad  BY <2>2, <2>3
  <2>5. Good(n - 1)  BY <2>4
  <2>6. Good((n - 1) + 1)  BY <1>4, <2>4, <2>5
  <2>7. QED  BY <2>2, <2>6
<1>6. Good(Cardinality(S))  BY <1>1, <1>5
<1>7. Level(Cardinality(S)) = SUBSET S
  <2>1. \A s \in SUBSET S : Cardinality(s) <= Cardinality(S)  BY FS_Subset
  <2>2. QED  BY <2>1
<1>8. PICK g \in [SUBSET S -> Int] : \A s \in SUBSET S : Rec(g, s)  BY <1>6, <1>7 DEF Good
<1>9. Adds(f, S, g)  BY <1>8 DEF Adds
<1>10. QED  BY <1>9
LEMMA SumUnique ==
  ASSUME NEW f, NEW S, IsFiniteSet(S), NEW g, Adds(f, S, g), NEW T, T \subseteq S, NEW h, Adds(f, T, h)
  PROVE  \A s \in SUBSET T : g[s] = h[s]
<1> DEFINE Q == {s \in SUBSET T : g[s] # h[s]}
<1>1. SUFFICES ASSUME Q # {} PROVE FALSE  OBVIOUS
<1>2. PICK s \in Q : \A u \in Q : Cardinality(s) <= Cardinality(u)
  <2>1. Q \subseteq SUBSET S  OBVIOUS
  <2> HIDE DEF Q
  <2>2. QED  BY <1>1, <2>1, LeastSet
<1>3. s \in SUBSET T /\ s \in SUBSET S /\ IsFiniteSet(s)  BY FS_Subset
<1> DEFINE x == CHOOSE x \in s : TRUE
<1>4. g[s] = (IF s = {} THEN 0 ELSE f[x] + g[s \ {x}]) /\ h[s] = (IF s = {} THEN 0 ELSE f[x] + h[s \ {x}])
  BY <1>3 DEF Adds
<1>5. s # {}  BY <1>2, <1>4
<1>6. x \in s  BY <1>5
<1> HIDE DEF x
<1>7. Cardinality(s \ {x}) = Cardinality(s) - 1 /\ Cardinality(s) \in Nat
  BY <1>3, <1>6, FS_RemoveElement, FS_CardinalityType
<1>8. s \ {x} \notin Q
  <2> SUFFICES ASSUME s \ {x} \in Q PROVE FALSE  OBVIOUS
  <2>1. Cardinality(s) <= Cardinality(s \ {x})  BY <1>2
  <2>2. QED  BY <1>7, <2>1
<1>9. g[s \ {x}] = h[s \ {x}]  BY <1>3, <1>8
<1>10. QED  BY <1>2, <1>4, <1>5, <1>9

(* A sum over a finite set: nothing over the empty set, else that of one   *)
(* element and of the others.                                              *)
LEMMA SumChosen ==
  ASSUME NEW f, NEW S, IsFiniteSet(S), \A x \in S : f[x] \in Int
  PROVE  \A T \in SUBSET S :
           /\ SumFunctionOnSet(f, T) \in Int
           /\ T = {} => SumFunctionOnSet(f, T) = 0
           /\ T # {} => SumFunctionOnSet(f, T) =
                          f[CHOOSE x \in T : TRUE] + SumFunctionOnSet(f, T \ {CHOOSE x \in T : TRUE})
<1>1. PICK g \in [SUBSET S -> Int] : Adds(f, S, g)  BY SumExists
<1>2. ASSUME NEW T \in SUBSET S PROVE SumFunctionOnSet(f, T) = g[T]
  <2> DEFINE h == CHOOSE h : Adds(f, T, h)
  <2>1. IsFiniteSet(T) /\ \A x \in T : f[x] \in Int  BY FS_Subset
  <2>2. \E e : Adds(f, T, e)  BY <2>1, SumExists
  <2>3. Adds(f, T, h)  BY <2>2
  <2>4. SumFunctionOnSet(f, T) = h[T]  BY SumUnfold
  <2> HIDE DEF h
  <2>5. g[T] = h[T]  BY <1>1, <2>3, SumUnique
  <2>6. QED  BY <2>4, <2>5
<1>3. ASSUME NEW T \in SUBSET S
      PROVE  g[T] = IF T = {} THEN 0 ELSE f[CHOOSE x \in T : TRUE] + g[T \ {CHOOSE x \in T : TRUE}]
  BY <1>1 DEF Adds
<1>4. \A T \in SUBSET S : g[T] \in Int  BY <1>1
<1>5. \A T \in SUBSET S : T # {} => T \ {CHOOSE x \in T : TRUE} \in SUBSET S  OBVIOUS
<1>6. QED  BY <1>2, <1>3, <1>4, <1>5

(* ... whichever the element.                                              *)
LEMMA SumRemove ==
  ASSUME NEW f, NEW S, IsFiniteSet(S), \A x \in S : f[x] \in Int
  PROVE  /\ SumFunctionOnSet(f, {}) = 0
         /\ \A T \in SUBSET S : SumFunctionOnSet(f, T) \in Int
         /\ \A T \in SUBSET S : \A y \in T :
              SumFunctionOnSet(f, T) = f[y] + SumFunctionOnSet(f, T \ {y})
<1> DEFINE Total(T) == SumFunctionOnSet(f, T)
           Q == {T \in SUBSET S : \E y \in T : Total(T) # f[y] + Total(T \ {y})}
<1>1. \A T \in SUBSET S : Total(T) \in Int /\ (T = {} => Total(T) = 0)  BY SumChosen
<1>2. \A T \in SUBSET S : T # {} =>
        \E x \in T : Total(T) = f[x] + Total(T \ {x})
  <2> SUFFICES ASSUME NEW T \in SUBSET S, T # {} PROVE \E x \in T : Total(T) = f[x] + Total(T \ {x})
    OBVIOUS
  <2> DEFINE x == CHOOSE x \in T : TRUE
  <2>1. Total(T) = f[x] + Total(T \ {x})  BY SumChosen
  <2>2. x \in T  OBVIOUS
  <2> HIDE DEF x, Total
  <2>3. QED  BY <2>1, <2>2
<1> HIDE DEF Total
<1>3. Q = {}
  <2> SUFFICES ASSUME Q # {} PROVE FALSE  OBVIOUS
  <2>1. PICK T \in Q : \A U \in Q : Cardinality(T) <= Cardinality(U)
    <3>1. Q \subseteq SUBSET S  OBVIOUS
    <3> HIDE DEF Q
    <3>2. QED  BY <3>1, LeastSet
  <2>2. PICK y \in T : Total(T) # f[y] + Total(T \ {y})  OBVIOUS
  <2>3. PICK x \in T : Total(T) = f[x] + Total(T \ {x})  BY <1>2
  <2>4. x # y  BY <2>2, <2>3
  <2>5. \A z \in T : T \ {z} \notin Q
    <3> SUFFICES ASSUME NEW z \in T, T \ {z} \in Q PROVE FALSE  OBVIOUS
    <3>1. Cardinality(T) <= Cardinality(T \ {z})  BY <2>1
    <3>2. IsFiniteSet(T)  BY FS_Subset
    <3>3. Cardinality(T \ {z}) = Cardinality(T) - 1 /\ Cardinality(T) \in Nat
      BY <3>2, FS_RemoveElement, FS_CardinalityType
    <3>4. QED  BY <3>1, <3>3
  <2>6. Total(T \ {x}) = f[y] + Total((T \ {x}) \ {y})  BY <2>4, <2>5
  <2>7. Total(T \ {y}) = f[x] + Total((T \ {y}) \ {x})  BY <2>4, <2>5
  <2>8. (T \ {x}) \ {y} = (T \ {y}) \ {x}  OBVIOUS
  <2>9. f[x] \in Int /\ f[y] \in Int /\ Total((T \ {y}) \ {x}) \in Int  BY <1>1
  <2>10. Total(T) = f[x] + (f[y] + Total((T \ {y}) \ {x}))  BY <2>3, <2>6, <2>8
  <2>11. f[y] + Total(T \ {y}) = f[y] + (f[x] + Total((T \ {y}) \ {x}))  BY <2>7
  <2>12. QED  BY <2>2, <2>9, <2>10, <2>11
<1>4. QED  BY <1>1, <1>3 DEF Total

(***************************************************************************)
(* Sums compared.                                                          *)
(***************************************************************************)

(* What is greater for each element is greater in sum; equal, equal.       *)
LEMMA SumMonotone ==
  ASSUME NEW S, IsFiniteSet(S), NEW f, NEW g,
         \A x \in S : f[x] \in Int /\ g[x] \in Int /\ f[x] <= g[x]
  PROVE  SumFunctionOnSet(f, S) <= SumFunctionOnSet(g, S)
<1> DEFINE F(T) == SumFunctionOnSet(f, T)
           G(T) == SumFunctionOnSet(g, T)
           Q == {T \in SUBSET S : ~(F(T) <= G(T))}
<1>1. /\ F({}) = 0 /\ G({}) = 0
      /\ \A T \in SUBSET S : F(T) \in Int /\ G(T) \in Int
      /\ \A T \in SUBSET S : \A y \in T : F(T) = f[y] + F(T \ {y}) /\ G(T) = g[y] + G(T \ {y})
  BY SumRemove
<1> HIDE DEF F, G
<1>2. Q = {}
  <2> SUFFICES ASSUME Q # {} PROVE FALSE  OBVIOUS
  <2>1. PICK T \in Q : \A U \in Q : Cardinality(T) <= Cardinality(U)
    <3>1. Q \subseteq SUBSET S  OBVIOUS
    <3> HIDE DEF Q
    <3>2. QED  BY <3>1, LeastSet
  <2>2. T # {}
    <3> SUFFICES ASSUME T = {} PROVE FALSE  OBVIOUS
    <3>1. F(T) = 0 /\ G(T) = 0  BY <1>1
    <3>2. ~(F(T) <= G(T))  BY <2>1
    <3>3. QED  BY <3>1, <3>2
  <2>3. PICK y \in T : TRUE  BY <2>2
  <2>4. T \ {y} \notin Q
    <3> SUFFICES ASSUME T \ {y} \in Q PROVE FALSE  OBVIOUS
    <3>1. Cardinality(T) <= Cardinality(T \ {y})  BY <2>1
    <3>2. IsFiniteSet(T)  BY FS_Subset
    <3>3. Cardinality(T \ {y}) = Cardinality(T) - 1 /\ Cardinality(T) \in Nat
      BY <3>2, FS_RemoveElement, FS_CardinalityType
    <3>4. QED  BY <3>1, <3>3
  <2>5. F(T \ {y}) <= G(T \ {y}) /\ F(T \ {y}) \in Int /\ G(T \ {y}) \in Int  BY <1>1, <2>4
  <2>6. F(T) = f[y] + F(T \ {y}) /\ G(T) = g[y] + G(T \ {y})  BY <1>1
  <2>7. f[y] \in Int /\ g[y] \in Int /\ f[y] <= g[y]  OBVIOUS
  <2>8. F(T) <= G(T)  BY <2>5, <2>6, <2>7
  <2>9. QED  BY <2>8
<1>3. QED  BY <1>2 DEF F, G

LEMMA SumEqual ==
  ASSUME NEW S, IsFiniteSet(S), NEW f, NEW g, \A x \in S : f[x] \in Int /\ g[x] = f[x]
  PROVE  SumFunctionOnSet(f, S) = SumFunctionOnSet(g, S)
<1>1. \A x \in S : f[x] \in Int /\ g[x] \in Int /\ f[x] <= g[x] /\ g[x] <= f[x]  OBVIOUS
<1>2. SumFunctionOnSet(f, S) <= SumFunctionOnSet(g, S)  BY <1>1, SumMonotone
<1>3. SumFunctionOnSet(g, S) <= SumFunctionOnSet(f, S)  BY <1>1, SumMonotone
<1>4. SumFunctionOnSet(f, S) \in Int /\ SumFunctionOnSet(g, S) \in Int  BY <1>1, SumRemove
<1>5. QED  BY <1>2, <1>3, <1>4

(* The sum over a set is that over a part of it and over the rest.         *)
LEMMA SumSplit ==
  ASSUME NEW S, IsFiniteSet(S), NEW f, \A x \in S : f[x] \in Int, NEW A, A \subseteq S
  PROVE  SumFunctionOnSet(f, S) = SumFunctionOnSet(f, A) + SumFunctionOnSet(f, S \ A)
<1> DEFINE F(T) == SumFunctionOnSet(f, T)
           Q == {T \in SUBSET A : F(S) # F(A \ T) + F(T) + F(S \ A)}
           R == {T \in SUBSET A : F(T \cup (S \ A)) # F(T) + F(S \ A)}
<1>1. /\ F({}) = 0
      /\ \A T \in SUBSET S : F(T) \in Int
      /\ \A T \in SUBSET S : \A y \in T : F(T) = f[y] + F(T \ {y})
  BY SumRemove
<1> HIDE DEF F
<1>2. R = {}
  <2> SUFFICES ASSUME R # {} PROVE FALSE  OBVIOUS
  <2>1. PICK T \in R : \A U \in R : Cardinality(T) <= Cardinality(U)
    <3>1. R \subseteq SUBSET S  OBVIOUS
    <3> HIDE DEF R
    <3>2. QED  BY <3>1, LeastSet
  <2>2. T # {}
    <3> SUFFICES ASSUME T = {} PROVE FALSE  OBVIOUS
    <3>1. T \cup (S \ A) = S \ A /\ F(S \ A) \in Int  BY <1>1
    <3>2. F(T) = 0  BY <1>1
    <3>3. F(T \cup (S \ A)) # F(T) + F(S \ A)  BY <2>1
    <3>4. QED  BY <3>1, <3>2, <3>3
  <2>3. PICK y \in T : TRUE  BY <2>2
  <2>4. T \ {y} \notin R
    <3> SUFFICES ASSUME T \ {y} \in R PROVE FALSE  OBVIOUS
    <3>1. Cardinality(T) <= Cardinality(T \ {y})  BY <2>1
    <3>2. IsFiniteSet(T)  BY FS_Subset
    <3>3. Cardinality(T \ {y}) = Cardinality(T) - 1 /\ Cardinality(T) \in Nat
      BY <3>2, FS_RemoveElement, FS_CardinalityType
    <3>4. QED  BY <3>1, <3>3
  <2>5. F((T \ {y}) \cup (S \ A)) = F(T \ {y}) + F(S \ A)  BY <2>4
  <2>6. (T \cup (S \ A)) \ {y} = (T \ {y}) \cup (S \ A)  OBVIOUS
  <2>7. F(T \cup (S \ A)) = f[y] + F((T \ {y}) \cup (S \ A))  BY <1>1, <2>6
  <2>8. F(T) = f[y] + F(T \ {y})  BY <1>1
  <2>9. f[y] \in Int /\ F(T \ {y}) \in Int /\ F(S \ A) \in Int  BY <1>1
  <2>10. F(T \cup (S \ A)) = F(T) + F(S \ A)  BY <2>5, <2>7, <2>8, <2>9
  <2>11. QED  BY <2>10
<1>3. A \cup (S \ A) = S  OBVIOUS
<1>4. F(S) = F(A) + F(S \ A)  BY <1>2, <1>3
<1>5. QED  BY <1>4 DEF F

(* A sum counted over other names for the same elements.                   *)
LEMMA SumRenamed ==
  ASSUME NEW S, IsFiniteSet(S), NEW h, \A x, y \in S : h[x] = h[y] => x = y,
         NEW f, NEW g, \A x \in S : f[x] \in Int /\ g[h[x]] = f[x]
  PROVE  SumFunctionOnSet(g, {h[x] : x \in S}) = SumFunctionOnSet(f, S)
<1> DEFINE F(T) == SumFunctionOnSet(f, T)
           G(T) == SumFunctionOnSet(g, T)
           Of(T) == {h[x] : x \in T}
           Q == {T \in SUBSET S : G(Of(T)) # F(T)}
<1>1. /\ F({}) = 0
      /\ \A T \in SUBSET S : F(T) \in Int
      /\ \A T \in SUBSET S : \A y \in T : F(T) = f[y] + F(T \ {y})
  BY SumRemove
<1>2. IsFiniteSet(Of(S)) /\ \A x \in Of(S) : g[x] \in Int
  <2> DEFINE m == [x \in S |-> h[x]]
  <2>1. Of(S) = {m[x] : x \in S}  OBVIOUS
  <2>2. m \in Surjection(S, Of(S))  BY DEF Surjection
  <2>3. IsFiniteSet(Of(S))  BY <2>2, FS_Surjection
  <2>4. QED  BY <2>3
<1>3. /\ G({}) = 0
      /\ \A T \in SUBSET Of(S) : G(T) \in Int
      /\ \A T \in SUBSET Of(S) : \A y \in T : G(T) = g[y] + G(T \ {y})
  <2> HIDE DEF Of
  <2>1. QED  BY <1>2, SumRemove
<1> HIDE DEF F, G
<1>4. Q = {}
  <2> SUFFICES ASSUME Q # {} PROVE FALSE  OBVIOUS
  <2>1. PICK T \in Q : \A U \in Q : Cardinality(T) <= Cardinality(U)
    <3>1. Q \subseteq SUBSET S  OBVIOUS
    <3> HIDE DEF Q
    <3>2. QED  BY <3>1, LeastSet
  <2>2. T # {}
    <3>1. Of({}) = {}  OBVIOUS
    <3>2. QED  BY <1>1, <1>3, <2>1, <3>1
  <2>3. PICK y \in T : TRUE  BY <2>2
  <2>4. T \ {y} \notin Q
    <3> SUFFICES ASSUME T \ {y} \in Q PROVE FALSE  OBVIOUS
    <3>1. Cardinality(T) <= Cardinality(T \ {y})  BY <2>1
    <3>2. IsFiniteSet(T)  BY FS_Subset
    <3>3. Cardinality(T \ {y}) = Cardinality(T) - 1 /\ Cardinality(T) \in Nat
      BY <3>2, FS_RemoveElement, FS_CardinalityType
    <3>4. QED  BY <3>1, <3>3
  <2>5. G(Of(T \ {y})) = F(T \ {y})  BY <2>4
  <2>6. Of(T) \in SUBSET Of(S) /\ h[y] \in Of(T)  OBVIOUS
  <2>7. Of(T \ {y}) = Of(T) \ {h[y]}  OBVIOUS
  <2>8. G(Of(T)) = g[h[y]] + G(Of(T) \ {h[y]})  BY <1>3, <2>6
  <2>9. F(T) = f[y] + F(T \ {y})  BY <1>1
  <2>10. g[h[y]] = f[y]  OBVIOUS
  <2>11. G(Of(T)) = F(T)  BY <2>5, <2>7, <2>8, <2>9, <2>10
  <2>12. QED  BY <2>11
<1>5. QED  BY <1>4 DEF F, G

(* Every non-empty finite set of integers has a least element.             *)
LEMMA IntLeast ==
  ASSUME NEW S, IsFiniteSet(S), S \subseteq Int, S # {}
  PROVE  \E x \in S : \A y \in S : x <= y
<1> DEFINE Q == {T \in SUBSET S : T # {} /\ ~\E x \in T : \A y \in T : x <= y}
<1>1. Q = {}
  <2> SUFFICES ASSUME Q # {} PROVE FALSE  OBVIOUS
  <2>1. PICK T \in Q : \A U \in Q : Cardinality(T) <= Cardinality(U)
    <3>1. Q \subseteq SUBSET S  OBVIOUS
    <3> HIDE DEF Q
    <3>2. QED  BY <3>1, LeastSet
  <2>2. PICK z \in T : TRUE  OBVIOUS
  <2>3. T \ {z} \notin Q
    <3> SUFFICES ASSUME T \ {z} \in Q PROVE FALSE  OBVIOUS
    <3>1. Cardinality(T) <= Cardinality(T \ {z})  BY <2>1
    <3>2. IsFiniteSet(T)  BY FS_Subset
    <3>3. Cardinality(T \ {z}) = Cardinality(T) - 1 /\ Cardinality(T) \in Nat
      BY <3>2, FS_RemoveElement, FS_CardinalityType
    <3>4. QED  BY <3>1, <3>3
  <2>4. CASE T \ {z} = {}
    <3>1. \A y \in T : y = z  BY <2>4
    <3>2. \A y \in T : z <= y  BY <3>1
    <3>3. QED  BY <3>2
  <2>5. CASE T \ {z} # {}
    <3>1. PICK x \in T \ {z} : \A y \in T \ {z} : x <= y  BY <2>3, <2>5
    <3>2. CASE x <= z
      <4>1. \A y \in T : x <= y  BY <3>1, <3>2
      <4>2. QED  BY <4>1
    <3>3. CASE ~(x <= z)
      <4>1. x \in Int /\ z \in Int  OBVIOUS
      <4>2. \A y \in T : y \in Int /\ (y = z \/ x <= y)  BY <3>1
      <4>3. \A y \in T : z <= y  BY <3>3, <4>1, <4>2
      <4>4. QED  BY <4>3
    <3>4. QED  BY <3>2, <3>3
  <2>6. QED  BY <2>4, <2>5
<1>2. QED  BY <1>1
(* A sum of what is never negative is not.                                 *)
LEMMA SumNonNegative ==
  ASSUME NEW f, NEW S, IsFiniteSet(S), \A x \in S : f[x] \in Int /\ f[x] >= 0
  PROVE  SumFunctionOnSet(f, S) >= 0
<1> DEFINE F(T) == SumFunctionOnSet(f, T)
           Q == {T \in SUBSET S : ~(F(T) >= 0)}
<1>1. /\ F({}) = 0
      /\ \A T \in SUBSET S : F(T) \in Int
      /\ \A T \in SUBSET S : \A y \in T : F(T) = f[y] + F(T \ {y})
  BY SumRemove
<1> HIDE DEF F
<1>2. Q = {}
  <2> SUFFICES ASSUME Q # {} PROVE FALSE  OBVIOUS
  <2>1. PICK T \in Q : \A U \in Q : Cardinality(T) <= Cardinality(U)
    <3>1. Q \subseteq SUBSET S  OBVIOUS
    <3> HIDE DEF Q
    <3>2. QED  BY <3>1, LeastSet
  <2>2. T # {}  BY <1>1, <2>1
  <2>3. PICK y \in T : TRUE  BY <2>2
  <2>4. T \ {y} \notin Q
    <3> SUFFICES ASSUME T \ {y} \in Q PROVE FALSE  OBVIOUS
    <3>1. Cardinality(T) <= Cardinality(T \ {y})  BY <2>1
    <3>2. IsFiniteSet(T)  BY FS_Subset
    <3>3. Cardinality(T \ {y}) = Cardinality(T) - 1 /\ Cardinality(T) \in Nat
      BY <3>2, FS_RemoveElement, FS_CardinalityType
    <3>4. QED  BY <3>1, <3>3
  <2>5. F(T \ {y}) >= 0 /\ F(T \ {y}) \in Int  BY <1>1, <2>4
  <2>6. F(T) = f[y] + F(T \ {y})  BY <1>1
  <2>7. f[y] \in Int /\ f[y] >= 0  OBVIOUS
  <2>8. F(T) >= 0  BY <2>5, <2>6, <2>7
  <2>9. QED  BY <2>8
<1>3. QED  BY <1>2 DEF F

(* A finite set of integers can be listed in ascending order.              *)
LEMMA Ascending ==
  ASSUME NEW S, IsFiniteSet(S), S \subseteq Int
  PROVE  \E f \in [1 .. Cardinality(S) -> S] : \A i, j \in DOMAIN f : i < j => f[i] < f[j]
<1> DEFINE Lists(T, f) == f \in [1 .. Cardinality(T) -> T] /\ \A i, j \in DOMAIN f : i < j => f[i] < f[j]
           Q == {T \in SUBSET S : ~\E f : Lists(T, f)}
<1>1. Q = {}
  <2> SUFFICES ASSUME Q # {} PROVE FALSE  OBVIOUS
  <2>1. PICK T \in Q : \A U \in Q : Cardinality(T) <= Cardinality(U)
    <3>1. Q \subseteq SUBSET S  OBVIOUS
    <3> HIDE DEF Q
    <3>2. QED  BY <3>1, LeastSet
  <2>2. IsFiniteSet(T) /\ T \subseteq Int  BY FS_Subset
  <2>3. T # {}
    <3> SUFFICES ASSUME T = {} PROVE FALSE  OBVIOUS
    <3> DEFINE f == [i \in 1 .. 0 |-> 0]
    <3>1. Cardinality(T) = 0  BY FS_EmptySet
    <3>2. 1 .. 0 = {}  OBVIOUS
    <3>3. DOMAIN f = {} /\ f \in [1 .. 0 -> T]  BY <3>2
    <3>4. Lists(T, f)  BY <3>1, <3>3
    <3>5. QED  BY <3>4
  <2>4. PICK y \in T : \A z \in T : y <= z  BY <2>2, <2>3, IntLeast
  <2> DEFINE c == Cardinality(T) - 1
  <2>5. IsFiniteSet(T \ {y}) /\ Cardinality(T \ {y}) = c /\ c \in Nat /\ Cardinality(T) = c + 1
    <3>1. Cardinality(T) \in Nat /\ Cardinality(T \ {y}) \in Nat /\ IsFiniteSet(T \ {y})
      BY <2>2, FS_RemoveElement, FS_CardinalityType
    <3>2. Cardinality(T \ {y}) = c  BY <2>2, FS_RemoveElement
    <3>3. QED  BY <3>1, <3>2
  <2>6. T \ {y} \notin Q
    <3> SUFFICES ASSUME T \ {y} \in Q PROVE FALSE  OBVIOUS
    <3>1. Cardinality(T) <= Cardinality(T \ {y})  BY <2>1
    <3>2. QED  BY <2>5, <3>1
  <2>7. PICK f : Lists(T \ {y}, f)  BY <2>6
  <2> HIDE DEF c
  <2>8. f \in [1 .. c -> T \ {y}] /\ \A i, j \in 1 .. c : i < j => f[i] < f[j]  BY <2>5, <2>7
  <2> DEFINE g == [i \in 1 .. c + 1 |-> IF i = 1 THEN y ELSE f[i - 1]]
  <2>9. \A i \in 1 .. c + 1 : i # 1 => i - 1 \in 1 .. c  BY <2>5
  <2>10. g \in [1 .. c + 1 -> T]  BY <2>8, <2>9
  <2>11. \A z \in T \ {y} : y < z  BY <2>2, <2>4
  <2>12. ASSUME NEW i \in 1 .. c + 1, NEW j \in 1 .. c + 1, i < j PROVE g[i] < g[j]
    <3>1. j # 1 /\ j - 1 \in 1 .. c  BY <2>5, <2>12
    <3>2. CASE i = 1  BY <2>8, <2>11, <3>1, <3>2
    <3>3. CASE i # 1
      <4>1. i - 1 \in 1 .. c /\ i - 1 < j - 1  BY <2>5, <2>12, <3>3
      <4>2. f[i - 1] < f[j - 1]  BY <2>8, <3>1, <4>1
      <4>3. QED  BY <3>1, <3>3, <4>2
    <3>4. QED  BY <3>2, <3>3
  <2>13. DOMAIN g = 1 .. c + 1  OBVIOUS
  <2> HIDE DEF g
  <2>14. Lists(T, g)  BY <2>5, <2>10, <2>12, <2>13
  <2>15. QED  BY <2>14
<1>2. PICK f : Lists(S, f)  BY <1>1
<1>3. QED  BY <1>2
=============================================================================
