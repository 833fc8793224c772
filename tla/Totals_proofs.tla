---------------------------- MODULE Totals_proofs ----------------------------
(***************************************************************************)
(* What the sums of shares, fills and carried results in the models obey:  *)
(* SumFunctionOnSet(f, S) of a function with integer values over a finite  *)
(* set.  The library defines it by a recursive function over the subsets   *)
(* of S; its existence, and every fact below, is proved by looking at a    *)
(* least subset for which it would fail.  The last part is the same for    *)
(* any fold over a set, in an order that a choice gives.                   *)
(***************************************************************************)
EXTENDS FiniteSetTheorems, TLAPS

Chosen(s) == CHOOSE x \in s : TRUE

\* g is the recursive function that sums f over the subsets of S.
SumsUp(g, f, S) ==
  g = [s \in SUBSET S |-> IF s = {} THEN 0 ELSE f[Chosen(s)] + g[s \ {Chosen(s)}]]

\* A set of subsets of a finite set has a least one.
LEMMA LeastSubset ==
  ASSUME NEW S, IsFiniteSet(S), NEW T, T \subseteq SUBSET S, T # {}
  PROVE  \E m \in T : \A t \in T : ~(t \subseteq m /\ t # m)
<1>1. \A t \in SUBSET S : IsFiniteSet(t)
  BY FS_Subset
<1>2. T \subseteq FiniteSubsetsOf(S)
  BY <1>1 DEF FiniteSubsetsOf
<1>3. PICK m \in T : \A t \in T : ~(<<t, m>> \in StrictSubsetOrdering(S))
  BY <1>2, FS_StrictSubsetOrderingWellFounded, WFMin
<1>4. \A t, u \in SUBSET S : t \subseteq u /\ t # u => <<t, u>> \in StrictSubsetOrdering(S)
  BY DEF StrictSubsetOrdering
<1> QED BY <1>3, <1>4

\* Two such functions agree on the subsets they share.
LEMMA SumsAgree ==
  ASSUME NEW S, IsFiniteSet(S), NEW f, NEW g, SumsUp(g, f, S), NEW U, S \subseteq U, NEW h, SumsUp(h, f, U)
  PROVE  \A s \in SUBSET S : g[s] = h[s]
<1> DEFINE Bad == {s \in SUBSET S : g[s] # h[s]}
<1>1. SUFFICES ASSUME Bad # {} PROVE FALSE
  OBVIOUS
<1>2. PICK m \in Bad : \A t \in Bad : ~(t \subseteq m /\ t # m)
  <2>1. Bad \subseteq SUBSET S
    OBVIOUS
  <2> HIDE DEF Bad
  <2> QED BY <1>1, <2>1, LeastSubset
<1>3. g[{}] = 0 /\ h[{}] = 0
  BY DEF SumsUp
<1>4. m # {} /\ m \subseteq S
  BY <1>3
<1> DEFINE c == Chosen(m)
<1>5. c \in m
  BY <1>4 DEF Chosen
<1>6. m \ {c} \notin Bad /\ m \ {c} \in SUBSET S
  BY <1>2, <1>4, <1>5
<1>7. g[m] = f[c] + g[m \ {c}] /\ h[m] = f[c] + h[m \ {c}]
  BY <1>4 DEF SumsUp
<1> QED BY <1>6, <1>7

\* There is one.
LEMMA SumsExist ==
  ASSUME NEW S, IsFiniteSet(S), NEW f
  PROVE  \E g : SumsUp(g, f, S)
<1> DEFINE Bad == {s \in SUBSET S : ~\E g : SumsUp(g, f, s)}
<1>1. SUFFICES ASSUME Bad # {} PROVE FALSE
  OBVIOUS
<1>2. PICK m \in Bad : \A t \in Bad : ~(t \subseteq m /\ t # m)
  <2>1. Bad \subseteq SUBSET S
    OBVIOUS
  <2> HIDE DEF Bad
  <2> QED BY <1>1, <2>1, LeastSubset
<1> DEFINE G(s) == CHOOSE g : SumsUp(g, f, s)
<1>3. \A s \in SUBSET m : s # m => SumsUp(G(s), f, s)
  BY <1>2
<1> DEFINE v == [s \in SUBSET m |-> IF s = {} THEN 0
                                    ELSE f[Chosen(s)] + G(s \ {Chosen(s)})[s \ {Chosen(s)}]]
<1>4. ASSUME NEW s \in SUBSET m, s # {}
      PROVE  v[s] = f[Chosen(s)] + v[s \ {Chosen(s)}]
  <2> DEFINE r == s \ {Chosen(s)}
  <2>1. Chosen(s) \in s
    BY <1>4 DEF Chosen
  <2>2. r \in SUBSET m /\ r # m /\ SumsUp(G(r), f, r)
    BY <1>3, <2>1
  <2>3. v[s] = f[Chosen(s)] + G(r)[r]
    BY <1>4
  <2> HIDE DEF G
  <2>4. G(r)[r] = v[r]
    <3>1. CASE r = {}
      BY <2>2, <3>1 DEF SumsUp
    <3>2. CASE r # {}
      <4> DEFINE q == r \ {Chosen(r)}
      <4>1. q \subseteq r /\ q \in SUBSET m /\ q # m /\ SumsUp(G(q), f, q) /\ IsFiniteSet(q)
        <5>1. Chosen(r) \in r
          BY <3>2 DEF Chosen
        <5>2. IsFiniteSet(q)
          BY <2>2, FS_Subset
        <5> QED BY <1>3, <2>2, <5>1, <5>2
      <4>2. G(r)[r] = f[Chosen(r)] + G(r)[q]
        BY <2>2, <3>2 DEF SumsUp
      <4>3. G(q)[q] = G(r)[q]
        BY <2>2, <4>1, SumsAgree
      <4>4. v[r] = f[Chosen(r)] + G(q)[q]
        BY <2>2, <3>2
      <4> QED BY <4>2, <4>3, <4>4
    <3> QED BY <3>1, <3>2
  <2> QED BY <2>3, <2>4
<1>5. v[{}] = 0
  OBVIOUS
<1>6. v = [s \in SUBSET m |-> IF s = {} THEN 0 ELSE f[Chosen(s)] + v[s \ {Chosen(s)}]]
  <2>1. DOMAIN v = SUBSET m /\ v = [s \in SUBSET m |-> v[s]]
    OBVIOUS
  <2> HIDE DEF v
  <2> QED BY <1>4, <1>5, <2>1
<1>7. SumsUp(v, f, m)
  BY <1>6 DEF SumsUp
<1> QED BY <1>2, <1>7

\* The library's sum is the value of that function at the whole set.
LEMMA SumIsLast ==
  ASSUME NEW S, IsFiniteSet(S), NEW f, NEW g, NEW U, S \subseteq U, SumsUp(g, f, U)
  PROVE  SumFunctionOnSet(f, S) = g[S]
<1> DEFINE iter == CHOOSE h : SumsUp(h, f, S)
<1>1. SumFunctionOnSet(f, S) = iter[S]
  BY DEF SumFunctionOnSet, FoldFunctionOnSet, MapThenFoldSet, SumsUp, Chosen
<1>2. SumsUp(iter, f, S)
  BY SumsExist
<1> HIDE DEF iter
<1> QED BY <1>1, <1>2, SumsAgree

\* Nothing sums to 0.
LEMMA SumEmpty ==
  ASSUME NEW f
  PROVE  SumFunctionOnSet(f, {}) = 0
<1>1. PICK g : SumsUp(g, f, {})
  BY FS_EmptySet, SumsExist
<1>2. SumFunctionOnSet(f, {}) = g[{}]
  BY <1>1, FS_EmptySet, SumIsLast
<1> QED BY <1>1, <1>2 DEF SumsUp

\* The recursion: some element and the rest.
LEMMA SumChosen ==
  ASSUME NEW S, IsFiniteSet(S), S # {}, NEW f
  PROVE  SumFunctionOnSet(f, S) = f[Chosen(S)] + SumFunctionOnSet(f, S \ {Chosen(S)})
<1> DEFINE r == S \ {Chosen(S)}
<1>1. PICK g : SumsUp(g, f, S)
  BY SumsExist
<1>2. SumFunctionOnSet(f, S) = g[S]
  BY <1>1, SumIsLast
<1>3. r \subseteq S /\ IsFiniteSet(r)
  BY FS_Subset
<1> HIDE DEF r
<1>4. SumFunctionOnSet(f, r) = g[r]
  BY <1>1, <1>3, SumIsLast
<1> QED BY <1>1, <1>2, <1>4 DEF SumsUp, r

\* A sum of integers is one.
LEMMA SumIsInt ==
  ASSUME NEW S, IsFiniteSet(S), NEW f, \A x \in S : f[x] \in Int
  PROVE  SumFunctionOnSet(f, S) \in Int
<1> DEFINE Bad == {s \in SUBSET S : SumFunctionOnSet(f, s) \notin Int}
<1>1. SUFFICES ASSUME Bad # {} PROVE FALSE
  OBVIOUS
<1>2. PICK m \in Bad : \A t \in Bad : ~(t \subseteq m /\ t # m)
  <2>1. Bad \subseteq SUBSET S
    OBVIOUS
  <2> HIDE DEF Bad
  <2> QED BY <1>1, <2>1, LeastSubset
<1>3. m # {} /\ m \subseteq S /\ IsFiniteSet(m)
  <2>1. m \in SUBSET S /\ SumFunctionOnSet(f, m) \notin Int
    OBVIOUS
  <2>2. SumFunctionOnSet(f, {}) \in Int
    BY SumEmpty
  <2> QED BY <2>1, <2>2, FS_Subset
<1>4. Chosen(m) \in m
  BY <1>3 DEF Chosen
<1>5. SumFunctionOnSet(f, m \ {Chosen(m)}) \in Int
  BY <1>2, <1>3, <1>4
<1>6. SumFunctionOnSet(f, m) = f[Chosen(m)] + SumFunctionOnSet(f, m \ {Chosen(m)})
  BY <1>3, SumChosen
<1>7. f[Chosen(m)] \in Int
  BY <1>3, <1>4
<1> QED BY <1>5, <1>6, <1>7

\* Any element may be taken out first, whichever the recursion takes.
LEMMA SumTake ==
  ASSUME NEW S, IsFiniteSet(S), NEW f, \A y \in S : f[y] \in Int, NEW x \in S
  PROVE  SumFunctionOnSet(f, S) = f[x] + SumFunctionOnSet(f, S \ {x})
<1> DEFINE T(s) == SumFunctionOnSet(f, s)
<1> DEFINE Bad == {s \in SUBSET S : \E y \in s : T(s) # f[y] + T(s \ {y})}
<1>1. SUFFICES ASSUME Bad # {} PROVE FALSE
  <2>1. Bad = {} => T(S) = f[x] + T(S \ {x})
    OBVIOUS
  <2> QED BY <2>1
<1>2. PICK m \in Bad : \A t \in Bad : ~(t \subseteq m /\ t # m)
  <2>1. Bad \subseteq SUBSET S
    OBVIOUS
  <2> HIDE DEF Bad
  <2> QED BY <1>1, <2>1, LeastSubset
<1>3. PICK y \in m : T(m) # f[y] + T(m \ {y})
  OBVIOUS
<1> DEFINE c == Chosen(m)
<1>4. m \subseteq S /\ IsFiniteSet(m) /\ c \in m
  <2>1. m \in SUBSET S
    OBVIOUS
  <2>2. c \in m
    BY <1>3 DEF Chosen
  <2> QED BY <2>1, <2>2, FS_Subset
<1>5. T(m) = f[c] + T(m \ {c})
  BY <1>3, <1>4, SumChosen
<1> HIDE DEF c
<1>6. c # y
  BY <1>3, <1>5
<1> DEFINE n == (m \ {c}) \ {y}
<1>7. n = (m \ {y}) \ {c}
  OBVIOUS
<1>8. T(m \ {c}) = f[y] + T(n)
  <2>1. m \ {c} \notin Bad /\ m \ {c} \in SUBSET S /\ y \in m \ {c}
    BY <1>2, <1>3, <1>4, <1>6
  <2> QED BY <2>1
<1>9. T(m \ {y}) = f[c] + T(n)
  <2>1. m \ {y} \notin Bad /\ m \ {y} \in SUBSET S /\ c \in m \ {y}
    BY <1>2, <1>3, <1>4, <1>6
  <2> QED BY <1>7, <2>1
<1>10. T(n) \in Int /\ f[c] \in Int /\ f[y] \in Int
  <2>1. n \subseteq S /\ IsFiniteSet(n)
    BY <1>4, FS_Subset
  <2> HIDE DEF n
  <2> QED BY <1>3, <1>4, <2>1, SumIsInt
<1> HIDE DEF n, T
<1>11. T(m) = f[y] + T(m \ {y})
  BY <1>5, <1>8, <1>9, <1>10
<1> QED BY <1>3, <1>11

\* An element more adds its value.
LEMMA SumAdd ==
  ASSUME NEW S, IsFiniteSet(S), NEW f, NEW x, x \notin S, \A y \in S \cup {x} : f[y] \in Int
  PROVE  SumFunctionOnSet(f, S \cup {x}) = f[x] + SumFunctionOnSet(f, S)
<1> DEFINE U == S \cup {x}
<1>1. IsFiniteSet(U) /\ U \ {x} = S /\ x \in U
  BY FS_AddElement
<1> HIDE DEF U
<1>2. \A y \in U : f[y] \in Int
  BY DEF U
<1>3. SumFunctionOnSet(f, U) = f[x] + SumFunctionOnSet(f, U \ {x})
  BY <1>1, <1>2, SumTake
<1> QED BY <1>1, <1>3 DEF U

\* The sum depends on the values over the set only.
LEMMA SumSame ==
  ASSUME NEW S, IsFiniteSet(S), NEW f, NEW g, \A x \in S : f[x] = g[x]
  PROVE  SumFunctionOnSet(f, S) = SumFunctionOnSet(g, S)
<1> DEFINE Bad == {s \in SUBSET S : SumFunctionOnSet(f, s) # SumFunctionOnSet(g, s)}
<1>1. SUFFICES ASSUME Bad # {} PROVE FALSE
  OBVIOUS
<1>2. PICK m \in Bad : \A t \in Bad : ~(t \subseteq m /\ t # m)
  <2>1. Bad \subseteq SUBSET S
    OBVIOUS
  <2> HIDE DEF Bad
  <2> QED BY <1>1, <2>1, LeastSubset
<1>3. m # {} /\ m \subseteq S /\ IsFiniteSet(m)
  <2>1. m \in SUBSET S /\ SumFunctionOnSet(f, m) # SumFunctionOnSet(g, m)
    OBVIOUS
  <2>2. SumFunctionOnSet(f, {}) = SumFunctionOnSet(g, {})
    BY SumEmpty
  <2> QED BY <2>1, <2>2, FS_Subset
<1>4. Chosen(m) \in m
  BY <1>3 DEF Chosen
<1>5. SumFunctionOnSet(f, m \ {Chosen(m)}) = SumFunctionOnSet(g, m \ {Chosen(m)})
  BY <1>2, <1>3, <1>4
<1>6. /\ SumFunctionOnSet(f, m) = f[Chosen(m)] + SumFunctionOnSet(f, m \ {Chosen(m)})
      /\ SumFunctionOnSet(g, m) = g[Chosen(m)] + SumFunctionOnSet(g, m \ {Chosen(m)})
  BY <1>3, SumChosen
<1>7. f[Chosen(m)] = g[Chosen(m)]
  BY <1>3, <1>4
<1> QED BY <1>5, <1>6, <1>7

\* One value that changes changes the sum by as much.
LEMMA SumChange ==
  ASSUME NEW S, IsFiniteSet(S), NEW f, NEW g, NEW x \in S,
         \A y \in S : f[y] \in Int /\ g[y] \in Int, \A y \in S \ {x} : f[y] = g[y]
  PROVE  SumFunctionOnSet(g, S) = SumFunctionOnSet(f, S) - f[x] + g[x]
<1>1. IsFiniteSet(S \ {x})
  BY FS_RemoveElement
<1>2. SumFunctionOnSet(f, S \ {x}) = SumFunctionOnSet(g, S \ {x})
  BY <1>1, SumSame
<1>3. /\ SumFunctionOnSet(f, S) = f[x] + SumFunctionOnSet(f, S \ {x})
      /\ SumFunctionOnSet(g, S) = g[x] + SumFunctionOnSet(g, S \ {x})
  BY SumTake
<1>4. SumFunctionOnSet(f, S \ {x}) \in Int
  BY <1>1, SumIsInt
<1> QED BY <1>2, <1>3, <1>4

\* Where no value exceeds another's, neither does the sum.
LEMMA SumMonotone ==
  ASSUME NEW S, IsFiniteSet(S), NEW f, NEW g,
         \A x \in S : f[x] \in Int /\ g[x] \in Int /\ f[x] <= g[x]
  PROVE  SumFunctionOnSet(f, S) <= SumFunctionOnSet(g, S)
<1> DEFINE Bad == {s \in SUBSET S : ~(SumFunctionOnSet(f, s) <= SumFunctionOnSet(g, s))}
<1>1. SUFFICES ASSUME Bad # {} PROVE FALSE
  OBVIOUS
<1>2. PICK m \in Bad : \A t \in Bad : ~(t \subseteq m /\ t # m)
  <2>1. Bad \subseteq SUBSET S
    OBVIOUS
  <2> HIDE DEF Bad
  <2> QED BY <1>1, <2>1, LeastSubset
<1>3. m # {} /\ m \subseteq S /\ IsFiniteSet(m)
  <2>1. m \in SUBSET S /\ ~(SumFunctionOnSet(f, m) <= SumFunctionOnSet(g, m))
    OBVIOUS
  <2>2. SumFunctionOnSet(f, {}) <= SumFunctionOnSet(g, {})
    <3>1. SumFunctionOnSet(f, {}) = 0 /\ SumFunctionOnSet(g, {}) = 0
      BY SumEmpty
    <3> QED BY <3>1
  <2>3. m # {}
    BY <2>1, <2>2
  <2> QED BY <2>1, <2>3, FS_Subset
<1> DEFINE c == Chosen(m)
<1> DEFINE r == m \ {c}
<1>4. c \in m
  BY <1>3 DEF Chosen
<1>5. SumFunctionOnSet(f, r) <= SumFunctionOnSet(g, r)
  BY <1>2, <1>3, <1>4
<1>6. /\ SumFunctionOnSet(f, m) = f[c] + SumFunctionOnSet(f, r)
      /\ SumFunctionOnSet(g, m) = g[c] + SumFunctionOnSet(g, r)
  BY <1>3, SumChosen
<1>7. f[c] \in Int /\ g[c] \in Int /\ f[c] <= g[c]
  BY <1>3, <1>4
<1>8. r \subseteq S /\ IsFiniteSet(r)
  BY <1>3, FS_Subset
<1> HIDE DEF c, r
<1>9. SumFunctionOnSet(f, r) \in Int /\ SumFunctionOnSet(g, r) \in Int
  BY <1>8, SumIsInt
<1>10. SumFunctionOnSet(f, m) <= SumFunctionOnSet(g, m)
  BY <1>5, <1>6, <1>7, <1>9
<1> QED BY <1>10

\* The sum of sums.
LEMMA SumPlus ==
  ASSUME NEW S, IsFiniteSet(S), NEW f, NEW g, NEW h,
         \A x \in S : f[x] \in Int /\ g[x] \in Int /\ h[x] = f[x] + g[x]
  PROVE  SumFunctionOnSet(h, S) = SumFunctionOnSet(f, S) + SumFunctionOnSet(g, S)
<1> DEFINE Bad == {s \in SUBSET S : SumFunctionOnSet(h, s) # SumFunctionOnSet(f, s) + SumFunctionOnSet(g, s)}
<1>1. SUFFICES ASSUME Bad # {} PROVE FALSE
  OBVIOUS
<1>2. PICK m \in Bad : \A t \in Bad : ~(t \subseteq m /\ t # m)
  <2>1. Bad \subseteq SUBSET S
    OBVIOUS
  <2> HIDE DEF Bad
  <2> QED BY <1>1, <2>1, LeastSubset
<1>3. m # {} /\ m \subseteq S /\ IsFiniteSet(m)
  <2>1. m \in SUBSET S /\ SumFunctionOnSet(h, m) # SumFunctionOnSet(f, m) + SumFunctionOnSet(g, m)
    OBVIOUS
  <2>2. SumFunctionOnSet(f, {}) = 0 /\ SumFunctionOnSet(g, {}) = 0 /\ SumFunctionOnSet(h, {}) = 0
    BY SumEmpty
  <2> HIDE DEF Bad
  <2>3. m # {}
    <3> SUFFICES ASSUME m = {} PROVE FALSE
      OBVIOUS
    <3>1. /\ SumFunctionOnSet(f, m) = SumFunctionOnSet(f, {})
          /\ SumFunctionOnSet(g, m) = SumFunctionOnSet(g, {})
          /\ SumFunctionOnSet(h, m) = SumFunctionOnSet(h, {})
      BY Zenon
    <3> QED BY <2>1, <2>2, <3>1
  <2> QED BY <2>1, <2>3, FS_Subset
<1> DEFINE c == Chosen(m)
<1> DEFINE r == m \ {c}
<1>4. c \in m
  BY <1>3 DEF Chosen
<1>5. SumFunctionOnSet(h, r) = SumFunctionOnSet(f, r) + SumFunctionOnSet(g, r)
  <2>1. r \subseteq m /\ r # m /\ r \in SUBSET S
    <3> HIDE DEF Bad
    <3> QED BY <1>3, <1>4
  <2>2. r \notin Bad
    <3> HIDE DEF Bad, r
    <3> QED BY <1>2, <2>1
  <2> HIDE DEF r
  <2> QED BY <2>1, <2>2
<1> HIDE DEF Bad
<1>6. /\ SumFunctionOnSet(f, m) = f[c] + SumFunctionOnSet(f, r)
      /\ SumFunctionOnSet(g, m) = g[c] + SumFunctionOnSet(g, r)
      /\ SumFunctionOnSet(h, m) = h[c] + SumFunctionOnSet(h, r)
  BY <1>3, SumChosen
<1>7. f[c] \in Int /\ g[c] \in Int /\ h[c] = f[c] + g[c]
  BY <1>3, <1>4
<1>8. r \subseteq S /\ IsFiniteSet(r)
  BY <1>3, FS_Subset
<1> HIDE DEF c, r
<1>9. SumFunctionOnSet(f, r) \in Int /\ SumFunctionOnSet(g, r) \in Int
  BY <1>8, SumIsInt
<1>10. SumFunctionOnSet(h, m) = SumFunctionOnSet(f, m) + SumFunctionOnSet(g, m)
  <2> DEFINE x == SumFunctionOnSet(f, r)
  <2> DEFINE y == SumFunctionOnSet(g, r)
  <2>1. f[c] + g[c] + (x + y) = f[c] + x + (g[c] + y)
    <3>1. x \in Int /\ y \in Int /\ f[c] \in Int /\ g[c] \in Int
      BY <1>7, <1>9
    <3> HIDE DEF x, y
    <3> QED BY <3>1
  <2>2. SumFunctionOnSet(h, m) = f[c] + g[c] + (x + y)
    BY <1>5, <1>6, <1>7, Zenon
  <2>3. SumFunctionOnSet(f, m) + SumFunctionOnSet(g, m) = f[c] + x + (g[c] + y)
    BY <1>6, Zenon
  <2> QED BY <2>1, <2>2, <2>3, Zenon
<1>11. SumFunctionOnSet(h, m) # SumFunctionOnSet(f, m) + SumFunctionOnSet(g, m)
  BY DEF Bad
<1> QED BY <1>10, <1>11, Zenon

\* One more that counts for nothing.
LEMMA SumWithZero ==
  ASSUME NEW S, IsFiniteSet(S), NEW x, x \notin S, NEW T, T = S \cup {x}, NEW f, NEW g,
         \A y \in S : g[y] = f[y] /\ f[y] \in Int, g[x] = 0
  PROVE  SumFunctionOnSet(g, T) = SumFunctionOnSet(f, S)
<1>1. SumFunctionOnSet(g, S \cup {x}) = g[x] + SumFunctionOnSet(g, S)
  <2>1. \A y \in S \cup {x} : g[y] \in Int
    OBVIOUS
  <2> QED BY <2>1, SumAdd
<1>2. SumFunctionOnSet(g, S) = SumFunctionOnSet(f, S) /\ SumFunctionOnSet(f, S) \in Int
  BY SumSame, SumIsInt
<1> QED BY <1>1, <1>2

\* One of them counts no more.
LEMMA SumWithout ==
  ASSUME NEW S, IsFiniteSet(S), NEW x \in S, NEW f, NEW g,
         \A y \in S : f[y] \in Int, \A y \in S \ {x} : g[y] = f[y], g[x] = 0
  PROVE  /\ SumFunctionOnSet(g, S) = SumFunctionOnSet(f, S) - f[x]
         /\ SumFunctionOnSet(f, S) \in Int /\ f[x] \in Int
<1>1. IsFiniteSet(S \ {x})
  BY FS_RemoveElement
<1>2. SumFunctionOnSet(g, S \ {x}) = SumFunctionOnSet(f, S \ {x})
  BY <1>1, SumSame
<1>3. SumFunctionOnSet(f, S) = f[x] + SumFunctionOnSet(f, S \ {x})
  BY SumTake
<1>4. SumFunctionOnSet(g, S) = g[x] + SumFunctionOnSet(g, S \ {x})
  <2>1. \A y \in S : g[y] \in Int
    OBVIOUS
  <2> QED BY <2>1, SumTake
<1>5. SumFunctionOnSet(f, S \ {x}) \in Int
  BY <1>1, SumIsInt
<1> QED BY <1>2, <1>3, <1>4, <1>5

\* What is zero outside a part adds nothing to it.
LEMMA SumPart ==
  ASSUME NEW T, IsFiniteSet(T), NEW S, S \subseteq T, NEW f, \A x \in T : f[x] \in Int,
         \A x \in T \ S : f[x] = 0
  PROVE  SumFunctionOnSet(f, T) = SumFunctionOnSet(f, S)
<1> DEFINE Bad == {s \in SUBSET (T \ S) : SumFunctionOnSet(f, S \cup s) # SumFunctionOnSet(f, S)}
<1>1. SUFFICES ASSUME Bad # {} PROVE FALSE
  <2> SUFFICES ASSUME Bad = {} PROVE SumFunctionOnSet(f, T) = SumFunctionOnSet(f, S)
    OBVIOUS
  <2> DEFINE u == T \ S
  <2>1. u \in SUBSET (T \ S) /\ S \cup u = T
    OBVIOUS
  <2> HIDE DEF u
  <2>2. SumFunctionOnSet(f, S \cup u) = SumFunctionOnSet(f, S)
    BY <2>1
  <2> QED BY <2>1, <2>2, Zenon
<1>2. PICK m \in Bad : \A t \in Bad : ~(t \subseteq m /\ t # m)
  <2>1. Bad \subseteq SUBSET (T \ S) /\ IsFiniteSet(T \ S)
    BY FS_Subset
  <2> HIDE DEF Bad
  <2> QED BY <1>1, <2>1, LeastSubset
<1>3. m \subseteq T \ S /\ SumFunctionOnSet(f, S \cup m) # SumFunctionOnSet(f, S)
  OBVIOUS
<1>4. m # {}
  <2> HIDE DEF Bad
  <2> SUFFICES ASSUME m = {} PROVE FALSE
    OBVIOUS
  <2>1. S \cup m = S
    OBVIOUS
  <2> QED BY <1>3, <2>1, Zenon
<1>5. PICK c \in m : TRUE
  BY <1>4
<1> DEFINE r == m \ {c}
<1>6. SumFunctionOnSet(f, S \cup r) = SumFunctionOnSet(f, S)
  <2>1. r \subseteq m /\ r # m /\ r \in SUBSET (T \ S)
    <3> HIDE DEF Bad
    <3> QED BY <1>3, <1>5
  <2>2. r \notin Bad
    <3> HIDE DEF Bad, r
    <3> QED BY <1>2, <2>1
  <2> HIDE DEF r
  <2> QED BY <2>1, <2>2
<1> HIDE DEF Bad
<1>7. c \notin S \cup r /\ S \cup m = (S \cup r) \cup {c} /\ S \cup m \subseteq T /\ f[c] = 0
  BY <1>3, <1>5
<1>8. IsFiniteSet(S \cup r) /\ \A y \in (S \cup r) \cup {c} : f[y] \in Int
  BY <1>7, FS_Subset
<1> HIDE DEF r
<1>9. SumFunctionOnSet(f, (S \cup r) \cup {c}) = f[c] + SumFunctionOnSet(f, S \cup r)
  BY <1>7, <1>8, SumAdd
<1>10. SumFunctionOnSet(f, S \cup r) \in Int
  BY <1>8, SumIsInt
<1>11. SumFunctionOnSet(f, S \cup m) = f[c] + SumFunctionOnSet(f, S \cup r) /\ f[c] = 0
  BY <1>7, <1>9, Zenon
<1> QED BY <1>3, <1>6, <1>10, <1>11

\* A sum of what is not negative is not, and no part exceeds the whole.
LEMMA SumNonNegative ==
  ASSUME NEW S, IsFiniteSet(S), NEW f, \A x \in S : f[x] \in Nat
  PROVE  SumFunctionOnSet(f, S) \in Nat
<1> DEFINE Bad == {s \in SUBSET S : SumFunctionOnSet(f, s) \notin Nat}
<1>1. SUFFICES ASSUME Bad # {} PROVE FALSE
  OBVIOUS
<1>2. PICK m \in Bad : \A t \in Bad : ~(t \subseteq m /\ t # m)
  <2>1. Bad \subseteq SUBSET S
    OBVIOUS
  <2> HIDE DEF Bad
  <2> QED BY <1>1, <2>1, LeastSubset
<1>3. m # {} /\ m \subseteq S /\ IsFiniteSet(m)
  <2>1. m \in SUBSET S /\ SumFunctionOnSet(f, m) \notin Nat
    OBVIOUS
  <2>2. SumFunctionOnSet(f, {}) = 0
    BY SumEmpty
  <2>3. m # {}
    BY <2>1, <2>2
  <2> QED BY <2>1, <2>3, FS_Subset
<1>4. Chosen(m) \in m
  BY <1>3 DEF Chosen
<1>5. SumFunctionOnSet(f, m \ {Chosen(m)}) \in Nat
  BY <1>2, <1>3, <1>4
<1>6. SumFunctionOnSet(f, m) = f[Chosen(m)] + SumFunctionOnSet(f, m \ {Chosen(m)})
  BY <1>3, SumChosen
<1>7. f[Chosen(m)] \in Nat
  BY <1>3, <1>4
<1>8. SumFunctionOnSet(f, m) \in Nat
  BY <1>5, <1>6, <1>7
<1> QED BY <1>8

\* Zeros sum to zero.
LEMMA SumZeros ==
  ASSUME NEW S, IsFiniteSet(S), NEW f, \A x \in S : f[x] = 0
  PROVE  SumFunctionOnSet(f, S) = 0
<1> DEFINE Bad == {s \in SUBSET S : SumFunctionOnSet(f, s) # 0}
<1>1. SUFFICES ASSUME Bad # {} PROVE FALSE
  OBVIOUS
<1>2. PICK m \in Bad : \A t \in Bad : ~(t \subseteq m /\ t # m)
  <2>1. Bad \subseteq SUBSET S
    OBVIOUS
  <2> HIDE DEF Bad
  <2> QED BY <1>1, <2>1, LeastSubset
<1>3. m # {} /\ m \subseteq S /\ IsFiniteSet(m)
  <2>1. m \in SUBSET S /\ SumFunctionOnSet(f, m) # 0
    OBVIOUS
  <2>2. SumFunctionOnSet(f, {}) = 0
    BY SumEmpty
  <2>3. m # {}
    BY <2>1, <2>2
  <2> QED BY <2>1, <2>3, FS_Subset
<1>4. Chosen(m) \in m
  BY <1>3 DEF Chosen
<1>5. SumFunctionOnSet(f, m \ {Chosen(m)}) = 0 /\ f[Chosen(m)] = 0
  BY <1>2, <1>3, <1>4
<1>6. SumFunctionOnSet(f, m) = f[Chosen(m)] + SumFunctionOnSet(f, m \ {Chosen(m)})
  BY <1>3, SumChosen
<1>7. SumFunctionOnSet(f, m) = 0
  BY <1>5, <1>6
<1> QED BY <1>7

\* A single element sums to its value.
LEMMA SumSingle ==
  ASSUME NEW x, NEW f, f[x] \in Int
  PROVE  SumFunctionOnSet(f, {x}) = f[x]
<1>1. SumFunctionOnSet(f, {} \cup {x}) = f[x] + SumFunctionOnSet(f, {})
  BY FS_EmptySet, SumAdd
<1>2. {} \cup {x} = {x}
  OBVIOUS
<1> QED BY <1>1, <1>2, SumEmpty

\* Where every value that counts has one of its own in the other sum that is no
\* less, so has the sum.
LEMMA SumInjection ==
  ASSUME NEW S, IsFiniteSet(S), NEW T, IsFiniteSet(T), NEW f, NEW g, NEW h,
         \A x \in S : f[x] \in Nat, \A y \in T : g[y] \in Nat,
         \A x \in S : f[x] # 0 => h[x] \in T /\ f[x] <= g[h[x]],
         \A x, y \in S : f[x] # 0 /\ f[y] # 0 /\ h[x] = h[y] => x = y
  PROVE  SumFunctionOnSet(f, S) <= SumFunctionOnSet(g, T)
<1> DEFINE Fits(s, t) == \A x \in s : f[x] # 0 => h[x] \in t
<1> DEFINE Bad == {s \in SUBSET S : \E t \in SUBSET T :
                     Fits(s, t) /\ ~(SumFunctionOnSet(f, s) <= SumFunctionOnSet(g, t))}
<1>1. SUFFICES ASSUME Bad # {} PROVE FALSE
  <2>1. S \notin Bad
    BY <1>1
  <2> QED BY <2>1
<1>2. PICK m \in Bad : \A s \in Bad : ~(s \subseteq m /\ s # m)
  <2>1. Bad \subseteq SUBSET S
    OBVIOUS
  <2> HIDE DEF Bad
  <2> QED BY <1>1, <2>1, LeastSubset
<1>3. PICK t \in SUBSET T : Fits(m, t) /\ ~(SumFunctionOnSet(f, m) <= SumFunctionOnSet(g, t))
  OBVIOUS
<1>4. m \subseteq S /\ IsFiniteSet(m) /\ IsFiniteSet(t) /\ t \subseteq T
  <2>1. m \in SUBSET S
    OBVIOUS
  <2> QED BY <2>1, <1>3, FS_Subset
<1>5. SumFunctionOnSet(g, t) \in Nat
  BY <1>4, SumNonNegative
<1>6. m # {}
  <2>1. m = {} => SumFunctionOnSet(f, m) = 0
    BY SumEmpty
  <2> QED BY <1>3, <1>5, <2>1
<1> DEFINE c == Chosen(m)
<1> DEFINE r == m \ {c}
<1>7. c \in m /\ f[c] \in Nat /\ r \subseteq m /\ r # m /\ IsFiniteSet(r)
  <2>1. c \in m
    BY <1>6 DEF Chosen
  <2> QED BY <1>4, <2>1, FS_Subset
<1>8. SumFunctionOnSet(f, m) = f[c] + SumFunctionOnSet(f, r)
  BY <1>4, <1>6, SumChosen
<1>9. r \notin Bad /\ r \in SUBSET S
  BY <1>2, <1>4, <1>7
<1>10. SumFunctionOnSet(f, r) \in Nat
  BY <1>4, <1>7, SumNonNegative
<1> HIDE DEF c
<1>11. CASE f[c] = 0
  <2>1. Fits(r, t)
    BY <1>3, <1>7
  <2>2. SumFunctionOnSet(f, r) <= SumFunctionOnSet(g, t)
    BY <1>4, <1>9, <2>1
  <2> QED BY <1>3, <1>8, <1>10, <1>11, <2>2
<1>12. CASE f[c] # 0
  <2> DEFINE u == t \ {h[c]}
  <2>1. h[c] \in t /\ f[c] <= g[h[c]]
    BY <1>3, <1>4, <1>7, <1>12
  <2>2. Fits(r, u) /\ u \in SUBSET T
    BY <1>3, <1>4, <1>7, <1>12
  <2>3. SumFunctionOnSet(f, r) <= SumFunctionOnSet(g, u)
    BY <1>9, <2>2
  <2>4. SumFunctionOnSet(g, t) = g[h[c]] + SumFunctionOnSet(g, u)
    <3>1. \A y \in t : g[y] \in Int
      BY <1>4
    <3> QED BY <1>4, <2>1, <3>1, SumTake
  <2>5. g[h[c]] \in Nat
    BY <1>4, <2>1
  <2>6. SumFunctionOnSet(g, u) \in Nat
    <3>1. IsFiniteSet(u) /\ u \subseteq T
      BY <1>4, FS_Subset
    <3> HIDE DEF u
    <3> QED BY <3>1, SumNonNegative
  <2> HIDE DEF u, r, Bad
  <2> QED BY <1>3, <1>7, <1>8, <1>10, <2>1, <2>3, <2>4, <2>5, <2>6
<1> QED BY <1>11, <1>12

\* Sets given by their members.
LEMMA PairIsFinite == ASSUME NEW a, NEW b PROVE IsFiniteSet({a, b})
<1>1. IsFiniteSet({a} \cup {b})
  BY FS_Singleton, FS_AddElement
<1>2. {a, b} = {a} \cup {b}
  OBVIOUS
<1> QED BY <1>1, <1>2

LEMMA FewAreFinite ==
  ASSUME NEW a, NEW b, NEW c, NEW d
  PROVE  IsFiniteSet({a, b, c}) /\ IsFiniteSet({a, b, c} \cup {d})
<1>1. IsFiniteSet({a, b} \cup {c})
  BY PairIsFinite, FS_AddElement
<1>2. {a, b, c} = {a, b} \cup {c}
  OBVIOUS
<1> QED BY <1>1, <1>2, FS_AddElement

\* The newest of finitely many numbers.
LEMMA MaxIsThere ==
  ASSUME NEW S, \A x \in S : x \in Int, IsFiniteSet(S), S # {}
  PROVE  \E x \in S : \A y \in S : x >= y
<1> DEFINE From(x) == {y \in S : y >= x}
<1> DEFINE Ends == {From(x) : x \in S}
<1>1. PICK m \in Ends : \A t \in Ends : ~(t \subseteq m /\ t # m)
  <2>1. Ends \subseteq SUBSET S
    OBVIOUS
  <2>2. Ends # {}
    OBVIOUS
  <2> HIDE DEF Ends
  <2> QED BY <2>1, <2>2, LeastSubset
<1>2. PICK x \in S : m = From(x)
  OBVIOUS
<1>3. ASSUME NEW y \in S, y > x PROVE FALSE
  <2>1. x \in Int /\ y \in Int
    OBVIOUS
  <2>2. From(y) \in Ends
    OBVIOUS
  <2>3. From(y) \subseteq From(x)
    <3>1. \A z \in S : z >= y => z >= x
      BY <1>3, <2>1
    <3> QED BY <3>1
  <2>4. x \in From(x) /\ x \notin From(y)
    BY <1>3, <2>1
  <2> HIDE DEF From, Ends
  <2> QED BY <1>1, <1>2, <2>2, <2>3, <2>4
<1> QED BY <1>3

\* Of finitely many things one has the largest value.
LEMMA LargestIsThere ==
  ASSUME NEW S, IsFiniteSet(S), S # {}, NEW f, \A x \in S : f[x] \in Int
  PROVE  \E x \in S : \A y \in S : f[x] >= f[y]
<1> DEFINE From(x) == {y \in S : f[y] >= f[x]}
<1> DEFINE Ends == {From(x) : x \in S}
<1>1. PICK m \in Ends : \A t \in Ends : ~(t \subseteq m /\ t # m)
  <2>1. Ends \subseteq SUBSET S
    OBVIOUS
  <2>2. Ends # {}
    OBVIOUS
  <2> HIDE DEF Ends
  <2> QED BY <2>1, <2>2, LeastSubset
<1>2. PICK x \in S : m = From(x)
  OBVIOUS
<1>3. ASSUME NEW y \in S, f[y] > f[x] PROVE FALSE
  <2>1. f[x] \in Int /\ f[y] \in Int
    OBVIOUS
  <2>2. From(y) \in Ends
    OBVIOUS
  <2>3. From(y) \subseteq From(x)
    <3>1. \A z \in S : f[z] \in Int /\ (f[z] >= f[y] => f[z] >= f[x])
      BY <1>3, <2>1
    <3> QED BY <3>1
  <2>4. x \in From(x) /\ x \notin From(y)
    BY <1>3, <2>1
  <2> HIDE DEF From, Ends
  <2> QED BY <1>1, <1>2, <2>2, <2>3, <2>4
<1> QED BY <1>3

\* The oldest of finitely many numbers.
LEMMA MinIsThere ==
  ASSUME NEW S, \A x \in S : x \in Int, IsFiniteSet(S), S # {}
  PROVE  \E x \in S : \A y \in S : x <= y
<1> DEFINE From(x) == {y \in S : y <= x}
<1> DEFINE Ends == {From(x) : x \in S}
<1>1. PICK m \in Ends : \A t \in Ends : ~(t \subseteq m /\ t # m)
  <2>1. Ends \subseteq SUBSET S
    OBVIOUS
  <2>2. Ends # {}
    OBVIOUS
  <2> HIDE DEF Ends
  <2> QED BY <2>1, <2>2, LeastSubset
<1>2. PICK x \in S : m = From(x)
  OBVIOUS
<1>3. ASSUME NEW y \in S, y < x PROVE FALSE
  <2>1. x \in Int /\ y \in Int
    OBVIOUS
  <2>2. From(y) \in Ends
    OBVIOUS
  <2>3. From(y) \subseteq From(x)
    <3>1. \A z \in S : z <= y => z <= x
      BY <1>3, <2>1
    <3> QED BY <3>1
  <2>4. x \in From(x) /\ x \notin From(y)
    BY <1>3, <2>1
  <2> HIDE DEF From, Ends
  <2> QED BY <1>1, <1>2, <2>2, <2>3, <2>4
<1> QED BY <1>3

-----------------------------------------------------------------------------
(* Any fold: a step for each element, in an order that a choice gives.     *)

\* g folds the subsets of S, beginning with base.
FoldsUp(g, pick, step, base, S) ==
  g = [s \in SUBSET S |-> IF s = {} THEN base ELSE step[<<pick[s], g[s \ {pick[s]}]>>]]

\* What holds of the first value, and is kept by every step, holds of the last.
LEMMA FoldStays ==
  ASSUME NEW S, IsFiniteSet(S), NEW Good, NEW g, g[{}] \in Good, NEW pick,
         \A s \in SUBSET S : s # {} => pick[s] \in s /\ (g[s \ {pick[s]}] \in Good => g[s] \in Good)
  PROVE  \A s \in SUBSET S : g[s] \in Good
<1> DEFINE Bad == {s \in SUBSET S : g[s] \notin Good}
<1>1. SUFFICES ASSUME Bad # {} PROVE FALSE
  OBVIOUS
<1>2. PICK m \in Bad : \A t \in Bad : ~(t \subseteq m /\ t # m)
  <2>1. Bad \subseteq SUBSET S
    OBVIOUS
  <2> HIDE DEF Bad
  <2> QED BY <1>1, <2>1, LeastSubset
<1>3. m # {} /\ m \in SUBSET S /\ pick[m] \in m
  OBVIOUS
<1>4. m \ {pick[m]} \in SUBSET S /\ m \ {pick[m]} \subseteq m /\ m \ {pick[m]} # m
  BY <1>3
<1>5. m \ {pick[m]} \notin Bad
  BY <1>2, <1>4
<1> QED BY <1>3, <1>4, <1>5

LEMMA FoldsAgree ==
  ASSUME NEW S, IsFiniteSet(S), NEW pick, \A s \in SUBSET S : s # {} => pick[s] \in s, NEW step, NEW base,
         NEW g, FoldsUp(g, pick, step, base, S), NEW U, S \subseteq U, NEW h, FoldsUp(h, pick, step, base, U)
  PROVE  \A s \in SUBSET S : g[s] = h[s]
<1> DEFINE Bad == {s \in SUBSET S : g[s] # h[s]}
<1>1. SUFFICES ASSUME Bad # {} PROVE FALSE
  OBVIOUS
<1>2. PICK m \in Bad : \A t \in Bad : ~(t \subseteq m /\ t # m)
  <2>1. Bad \subseteq SUBSET S
    OBVIOUS
  <2> HIDE DEF Bad
  <2> QED BY <1>1, <2>1, LeastSubset
<1>3. g[{}] = base /\ h[{}] = base
  BY DEF FoldsUp
<1>4. m # {} /\ m \subseteq S /\ pick[m] \in m
  BY <1>3
<1>6. m \ {pick[m]} \notin Bad /\ m \ {pick[m]} \in SUBSET S
  BY <1>2, <1>4
<1>7. g[m] = step[<<pick[m], g[m \ {pick[m]}]>>] /\ h[m] = step[<<pick[m], h[m \ {pick[m]}]>>]
  BY <1>4 DEF FoldsUp
<1> QED BY <1>6, <1>7

LEMMA FoldExists ==
  ASSUME NEW S, IsFiniteSet(S), NEW pick, \A s \in SUBSET S : s # {} => pick[s] \in s, NEW step, NEW base
  PROVE  \E g : FoldsUp(g, pick, step, base, S)
<1> DEFINE Bad == {s \in SUBSET S : ~\E g : FoldsUp(g, pick, step, base, s)}
<1>1. SUFFICES ASSUME Bad # {} PROVE FALSE
  OBVIOUS
<1>2. PICK m \in Bad : \A t \in Bad : ~(t \subseteq m /\ t # m)
  <2>1. Bad \subseteq SUBSET S
    OBVIOUS
  <2> HIDE DEF Bad
  <2> QED BY <1>1, <2>1, LeastSubset
<1> DEFINE G(s) == CHOOSE g : FoldsUp(g, pick, step, base, s)
<1>3. \A s \in SUBSET m : s # m => FoldsUp(G(s), pick, step, base, s)
  BY <1>2
<1> DEFINE v == [s \in SUBSET m |-> IF s = {} THEN base
                                    ELSE step[<<pick[s], G(s \ {pick[s]})[s \ {pick[s]}]>>]]
<1>4. ASSUME NEW s \in SUBSET m, s # {}
      PROVE  v[s] = step[<<pick[s], v[s \ {pick[s]}]>>]
  <2> DEFINE r == s \ {pick[s]}
  <2>1. pick[s] \in s
    BY <1>4
  <2>2. r \in SUBSET m /\ r # m /\ FoldsUp(G(r), pick, step, base, r)
    BY <1>3, <2>1
  <2>3. v[s] = step[<<pick[s], G(r)[r]>>]
    BY <1>4
  <2> HIDE DEF G
  <2>4. G(r)[r] = v[r]
    <3>1. CASE r = {}
      BY <2>2, <3>1 DEF FoldsUp
    <3>2. CASE r # {}
      <4> DEFINE q == r \ {pick[r]}
      <4>1. q \subseteq r /\ q \in SUBSET m /\ q # m /\ FoldsUp(G(q), pick, step, base, q) /\ IsFiniteSet(q)
        <5>1. pick[r] \in r
          BY <2>2, <3>2
        <5>2. IsFiniteSet(q)
          BY <2>2, FS_Subset
        <5> QED BY <1>3, <2>2, <5>1, <5>2
      <4>2. G(r)[r] = step[<<pick[r], G(r)[q]>>]
        BY <2>2, <3>2 DEF FoldsUp
      <4>3. G(q)[q] = G(r)[q]
        <5>1. \A t \in SUBSET q : t # {} => pick[t] \in t
          BY <4>1
        <5> HIDE DEF q, r
        <5> QED BY <2>2, <4>1, <5>1, FoldsAgree
      <4>4. v[r] = step[<<pick[r], G(q)[q]>>]
        BY <2>2, <3>2
      <4> QED BY <4>2, <4>3, <4>4
    <3> QED BY <3>1, <3>2
  <2> QED BY <2>3, <2>4
<1>5. v[{}] = base
  OBVIOUS
<1>6. v = [s \in SUBSET m |-> IF s = {} THEN base ELSE step[<<pick[s], v[s \ {pick[s]}]>>]]
  <2>1. DOMAIN v = SUBSET m /\ v = [s \in SUBSET m |-> v[s]]
    OBVIOUS
  <2> HIDE DEF v
  <2> QED BY <1>4, <1>5, <2>1
<1>7. FoldsUp(v, pick, step, base, m)
  BY <1>6 DEF FoldsUp
<1> QED BY <1>2, <1>7

\* A step that keeps Good where the values stay Good: the fold exists, and is Good.
LEMMA GoodFold ==
  ASSUME NEW S, IsFiniteSet(S), NEW Good, NEW base \in Good,
         NEW pick, \A s \in SUBSET S : s # {} => pick[s] \in s,
         NEW step, \A x \in S, v \in Good : step[<<x, v>>] \in Good
  PROVE  \E g : FoldsUp(g, pick, step, base, S) /\ \A s \in SUBSET S : g[s] \in Good
<1>1. PICK g : FoldsUp(g, pick, step, base, S)
  BY FoldExists
<1>2. g[{}] \in Good
  BY <1>1 DEF FoldsUp
<1>3. \A s \in SUBSET S : s # {} => pick[s] \in s /\ (g[s \ {pick[s]}] \in Good => g[s] \in Good)
  <2> SUFFICES ASSUME NEW s \in SUBSET S, s # {}, g[s \ {pick[s]}] \in Good PROVE g[s] \in Good
    OBVIOUS
  <2>1. g[s] = step[<<pick[s], g[s \ {pick[s]}]>>]
    BY <1>1 DEF FoldsUp
  <2> QED BY <2>1
<1>4. \A s \in SUBSET S : g[s] \in Good
  BY <1>2, <1>3, FoldStays
<1> QED BY <1>1, <1>4

\* What each step carries over, the fold has over the whole set.
LEMMA FoldFollows ==
  ASSUME NEW S, IsFiniteSet(S), NEW Good, NEW g, <<{}, g[{}]>> \in Good, NEW pick,
         \A s \in SUBSET S : s # {} =>
           pick[s] \in s /\ (<<s \ {pick[s]}, g[s \ {pick[s]}]>> \in Good => <<s, g[s]>> \in Good)
  PROVE  \A s \in SUBSET S : <<s, g[s]>> \in Good
<1> DEFINE Bad == {s \in SUBSET S : <<s, g[s]>> \notin Good}
<1>1. SUFFICES ASSUME Bad # {} PROVE FALSE
  OBVIOUS
<1>2. PICK m \in Bad : \A t \in Bad : ~(t \subseteq m /\ t # m)
  <2>1. Bad \subseteq SUBSET S
    OBVIOUS
  <2> HIDE DEF Bad
  <2> QED BY <1>1, <2>1, LeastSubset
<1>3. m # {} /\ m \in SUBSET S /\ pick[m] \in m
  OBVIOUS
<1>4. m \ {pick[m]} \in SUBSET S /\ m \ {pick[m]} \subseteq m /\ m \ {pick[m]} # m
  BY <1>3
<1>5. m \ {pick[m]} \notin Bad
  BY <1>2, <1>4
<1> QED BY <1>3, <1>4, <1>5

\* Distributing a factor over a sum of two.
LEMMA TimesPlus ==
  ASSUME NEW c \in Int, NEW x \in Int, NEW y \in Int
  PROVE  c * (x + y) = c * x + c * y /\ c * x \in Int /\ c * y \in Int
BY SMT

\* A factor common to all values is one of the sum.
LEMMA SumScaled ==
  ASSUME NEW S, IsFiniteSet(S), NEW f, NEW g, NEW c \in Int,
         \A x \in S : f[x] \in Int /\ g[x] = c * f[x]
  PROVE  SumFunctionOnSet(g, S) = c * SumFunctionOnSet(f, S)
<1> DEFINE Bad == {s \in SUBSET S : SumFunctionOnSet(g, s) # c * SumFunctionOnSet(f, s)}
<1>1. SUFFICES ASSUME Bad # {} PROVE FALSE
  OBVIOUS
<1>2. PICK m \in Bad : \A t \in Bad : ~(t \subseteq m /\ t # m)
  <2>1. Bad \subseteq SUBSET S
    OBVIOUS
  <2> HIDE DEF Bad
  <2> QED BY <1>1, <2>1, LeastSubset
<1>3. m # {} /\ m \subseteq S /\ IsFiniteSet(m)
  <2>1. m \in SUBSET S /\ SumFunctionOnSet(g, m) # c * SumFunctionOnSet(f, m)
    OBVIOUS
  <2>2. SumFunctionOnSet(f, {}) = 0 /\ SumFunctionOnSet(g, {}) = 0
    BY SumEmpty
  <2> HIDE DEF Bad
  <2>3. m # {}
    <3> SUFFICES ASSUME m = {} PROVE FALSE
      OBVIOUS
    <3>1. SumFunctionOnSet(f, m) = SumFunctionOnSet(f, {}) /\ SumFunctionOnSet(g, m) = SumFunctionOnSet(g, {})
      BY Zenon
    <3>2. SumFunctionOnSet(f, m) = 0 /\ SumFunctionOnSet(g, m) = 0
      BY <2>2, <3>1
    <3>3. c * 0 = 0
      OBVIOUS
    <3> QED BY <2>1, <3>2, <3>3
  <2> QED BY <2>1, <2>3, FS_Subset
<1> DEFINE a == Chosen(m)
<1> DEFINE r == m \ {a}
<1>4. a \in m
  BY <1>3 DEF Chosen
<1>5. SumFunctionOnSet(g, r) = c * SumFunctionOnSet(f, r)
  <2>1. r \subseteq m /\ r # m /\ r \in SUBSET S
    <3> HIDE DEF Bad
    <3> QED BY <1>3, <1>4
  <2>2. r \notin Bad
    <3> HIDE DEF Bad, r
    <3> QED BY <1>2, <2>1
  <2> HIDE DEF r
  <2> QED BY <2>1, <2>2
<1> HIDE DEF Bad
<1>6. /\ SumFunctionOnSet(f, m) = f[a] + SumFunctionOnSet(f, r)
      /\ SumFunctionOnSet(g, m) = g[a] + SumFunctionOnSet(g, r)
  BY <1>3, SumChosen
<1>7. f[a] \in Int /\ g[a] = c * f[a]
  BY <1>3, <1>4
<1>8. r \subseteq S /\ IsFiniteSet(r)
  BY <1>3, FS_Subset
<1> HIDE DEF a, r
<1>9. SumFunctionOnSet(f, r) \in Int
  BY <1>8, SumIsInt
<1>10. SumFunctionOnSet(g, m) = c * SumFunctionOnSet(f, m)
  <2>1. c * (f[a] + SumFunctionOnSet(f, r)) = c * f[a] + c * SumFunctionOnSet(f, r)
    BY <1>7, <1>9, TimesPlus
  <2> QED BY <1>5, <1>6, <1>7, <2>1, Zenon
<1>11. SumFunctionOnSet(g, m) # c * SumFunctionOnSet(f, m)
  BY DEF Bad
<1> QED BY <1>10, <1>11, Zenon

\* The values of g sort those of f by the group they belong to.
Grouped(S, T, f, g, h) ==
  /\ \A x \in S : f[x] \in Int /\ (f[x] # 0 => h[x] \in T)
  /\ \A y \in T, x \in S : g[y][x] = IF h[x] = y THEN f[x] ELSE 0

\* A sum taken group by group: h names the group of an element, and g[y] is f on the
\* group of y and zero elsewhere.
LEMMA SumGroups ==
  ASSUME NEW S, IsFiniteSet(S), NEW T, IsFiniteSet(T), NEW f, NEW g, NEW h,
         Grouped(S, T, f, g, h)
  PROVE  SumFunctionOnSet([y \in T |-> SumFunctionOnSet(g[y], S)], T) = SumFunctionOnSet(f, S)
<1>0. /\ \A x \in S : f[x] \in Int /\ (f[x] # 0 => h[x] \in T)
      /\ \A y \in T, x \in S : g[y][x] = IF h[x] = y THEN f[x] ELSE 0
  BY DEF Grouped
<1> DEFINE G(s) == [y \in T |-> SumFunctionOnSet(g[y], s)]
<1> DEFINE Bad == {s \in SUBSET S : SumFunctionOnSet(G(s), T) # SumFunctionOnSet(f, s)}
<1>1. SUFFICES ASSUME Bad # {} PROVE FALSE
  <2>1. Bad = {} => SumFunctionOnSet(G(S), T) = SumFunctionOnSet(f, S)
    <3> HIDE DEF G
    <3> QED OBVIOUS
  <2> QED BY <2>1
<1> HIDE DEF G
<1>2. PICK m \in Bad : \A t \in Bad : ~(t \subseteq m /\ t # m)
  <2>1. Bad \subseteq SUBSET S
    OBVIOUS
  <2> HIDE DEF Bad
  <2> QED BY <1>1, <2>1, LeastSubset
<1>3. m # {} /\ m \subseteq S /\ IsFiniteSet(m)
  <2>1. m \in SUBSET S /\ SumFunctionOnSet(G(m), T) # SumFunctionOnSet(f, m)
    OBVIOUS
  <2>2. \A y \in T : G({})[y] = 0
    BY SumEmpty DEF G
  <2>3. SumFunctionOnSet(G({}), T) = 0 /\ SumFunctionOnSet(f, {}) = 0
    BY <2>2, SumEmpty, SumZeros
  <2> HIDE DEF Bad
  <2>4. m # {}
    <3> SUFFICES ASSUME m = {} PROVE FALSE
      OBVIOUS
    <3>1. SumFunctionOnSet(G(m), T) = SumFunctionOnSet(G({}), T) /\ SumFunctionOnSet(f, m) = SumFunctionOnSet(f, {})
      BY Zenon
    <3> QED BY <2>1, <2>3, <3>1
  <2> QED BY <2>1, <2>4, FS_Subset
<1> DEFINE a == Chosen(m)
<1> DEFINE r == m \ {a}
<1>4. a \in m
  BY <1>3 DEF Chosen
<1>5. SumFunctionOnSet(G(r), T) = SumFunctionOnSet(f, r)
  <2>1. r \subseteq m /\ r # m /\ r \in SUBSET S
    <3> HIDE DEF Bad
    <3> QED BY <1>3, <1>4
  <2>2. r \notin Bad
    <3> HIDE DEF Bad, r
    <3> QED BY <1>2, <2>1
  <2> HIDE DEF r
  <2> QED BY <2>1, <2>2
<1> HIDE DEF Bad
<1>6. SumFunctionOnSet(f, m) = f[a] + SumFunctionOnSet(f, r)
  BY <1>3, SumChosen
<1>7. \A y \in T : SumFunctionOnSet(g[y], m) = g[y][a] + SumFunctionOnSet(g[y], r)
  BY <1>3, SumChosen
<1>8. r \subseteq S /\ IsFiniteSet(r) /\ a \in S /\ f[a] \in Int
  BY <1>0, <1>3, <1>4, FS_Subset
<1> HIDE DEF a, r
<1>9. SumFunctionOnSet(f, r) \in Int
  BY <1>0, <1>8, SumIsInt
<1>10. ASSUME NEW y \in T
       PROVE  /\ G(r)[y] \in Int /\ G(m)[y] = g[y][a] + G(r)[y]
              /\ g[y][a] = IF h[a] = y THEN f[a] ELSE 0
  <2>1. \A x \in r : g[y][x] \in Int
    BY <1>0, <1>8
  <2>2. SumFunctionOnSet(g[y], r) \in Int
    BY <1>8, <2>1, SumIsInt
  <2> QED BY <1>0, <1>7, <1>8, <2>2 DEF G
<1>11. \A y \in T : G(m)[y] \in Int /\ G(r)[y] \in Int
  BY <1>8, <1>10
<1>12. SumFunctionOnSet(G(m), T) = SumFunctionOnSet(G(r), T) + f[a]
  <2>1. CASE f[a] = 0
    <3>1. \A y \in T : G(m)[y] = G(r)[y]
      BY <1>10, <2>1
    <3> QED BY <1>5, <1>9, <2>1, <3>1, SumSame
  <2>2. CASE f[a] # 0
    <3>1. PICK b \in T : b = h[a]
      BY <1>0, <1>8, <2>2
    <3>2. \A y \in T \ {b} : G(r)[y] = G(m)[y]
      BY <1>10, <3>1
    <3>3. G(m)[b] = f[a] + G(r)[b]
      BY <1>10, <3>1
    <3>4. SumFunctionOnSet(G(m), T) = SumFunctionOnSet(G(r), T) - G(r)[b] + G(m)[b]
      BY <1>11, <3>2, SumChange
    <3> QED BY <1>5, <1>8, <1>9, <1>11, <3>3, <3>4
  <2> QED BY <2>1, <2>2
<1>13. SumFunctionOnSet(G(m), T) = SumFunctionOnSet(f, m)
  BY <1>5, <1>6, <1>8, <1>9, <1>12
<1>14. SumFunctionOnSet(G(m), T) # SumFunctionOnSet(f, m)
  BY DEF Bad
<1> QED BY <1>13, <1>14

\* Where no group comes to more than its limit, the whole comes to no more than all
\* the limits.
LEMMA SumGroupsWithin ==
  ASSUME NEW S, IsFiniteSet(S), NEW T, IsFiniteSet(T), NEW f, NEW g, NEW h, NEW q,
         Grouped(S, T, f, g, h),
         \A y \in T : q[y] \in Int /\ SumFunctionOnSet(g[y], S) <= q[y]
  PROVE  SumFunctionOnSet(f, S) <= SumFunctionOnSet(q, T)
<1>1. SumFunctionOnSet([y \in T |-> SumFunctionOnSet(g[y], S)], T) = SumFunctionOnSet(f, S)
  BY SumGroups
<1> DEFINE t == [y \in T |-> SumFunctionOnSet(g[y], S)]
<1>0. /\ \A x \in S : f[x] \in Int
      /\ \A y \in T, x \in S : g[y][x] = IF h[x] = y THEN f[x] ELSE 0
  BY DEF Grouped
<1>2. ASSUME NEW y \in T PROVE t[y] \in Int /\ q[y] \in Int /\ t[y] <= q[y]
  <2>1. \A x \in S : g[y][x] \in Int
    BY <1>0
  <2>2. SumFunctionOnSet(g[y], S) \in Int
    BY <2>1, SumIsInt
  <2> QED BY <2>2
<1> HIDE DEF t
<1>3. SumFunctionOnSet(t, T) <= SumFunctionOnSet(q, T)
  BY <1>2, SumMonotone
<1> QED BY <1>1, <1>3 DEF t
=============================================================================
