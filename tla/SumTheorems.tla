----------------------------- MODULE SumTheorems -----------------------------
(***************************************************************************)
(* Laws of SumFunctionOnSet(f, S), the sum of f[x] over a finite set S, by *)
(* which the proofs about the stock of inventory-service add up the units  *)
(* of reservations.                                                        *)
(*                                                                         *)
(* The sum is a recursive function of the subsets of S.  That it exists,   *)
(* and everything else said of it, is shown by induction over the subsets: *)
(* a set of subsets that has every subset whose proper subsets it has, has *)
(* them all (SubsetInduction, from the well-foundedness of inclusion).     *)
(***************************************************************************)
EXTENDS FiniteSetsExt, FiniteSetTheorems, WellFoundedInduction, TLAPS

LEMMA SubsetInduction ==
    ASSUME NEW S, IsFiniteSet(S), NEW Good,
           \A T \in SUBSET S :
             (\A U \in SUBSET T : U # T => U \in Good) => T \in Good
    PROVE  S \in Good
<1> DEFINE Bad == (SUBSET S) \ Good
<1> SUFFICES ASSUME S \notin Good PROVE FALSE
  OBVIOUS
<1>1. IsWellFoundedOn(StrictSubsetOrdering(S), SUBSET S)
  <2>1. IsWellFoundedOn(StrictSubsetOrdering(S), FiniteSubsetsOf(S))
    BY FS_StrictSubsetOrderingWellFounded
  <2>2. FiniteSubsetsOf(S) = SUBSET S
    BY FS_FiniteSubsetsOfFinite
  <2> QED
    BY <2>1, <2>2
<1>2. Bad # {} /\ Bad \subseteq SUBSET S
  OBVIOUS
<1>3. PICK T \in Bad : \A U \in Bad : <<U, T>> \notin StrictSubsetOrdering(S)
  <2> HIDE DEF Bad
  <2> QED
    BY <1>1, <1>2, WFMin
<1>4. \A U \in SUBSET T : U # T => U \in Good
  <2> SUFFICES ASSUME NEW U \in SUBSET T, U # T, U \notin Good PROVE FALSE
    OBVIOUS
  <2>1. U \in Bad /\ <<U, T>> \in StrictSubsetOrdering(S)
    BY <1>3 DEF StrictSubsetOrdering
  <2> QED
    BY <1>3, <2>1
<1> QED
  BY <1>3, <1>4

-----------------------------------------------------------------------------
(* The defining equation.                                                  *)

\* The element the sum of s starts with, and the rest.
First(s) == CHOOSE x \in s : TRUE
Rest(s)  == s \ {First(s)}

LEMMA FirstRest ==
    ASSUME NEW S, NEW s \in SUBSET S, s # {}
    PROVE  First(s) \in s /\ Rest(s) \in SUBSET s /\ Rest(s) # s
BY DEF First, Rest

\* g is the table of the sums of all subsets of S.
Sums(g, f, S) ==
    g = [s \in SUBSET S |-> IF s = {} THEN 0 ELSE f[First(s)] + g[Rest(s)]]

LEMMA SumIs ==
    ASSUME NEW f, NEW S
    PROVE  SumFunctionOnSet(f, S) = (CHOOSE g : Sums(g, f, S))[S]
BY DEF SumFunctionOnSet, FoldFunctionOnSet, MapThenFoldSet, Sums, First, Rest

LEMMA SumsEntry ==
    ASSUME NEW f, NEW S, NEW g, Sums(g, f, S), NEW s \in SUBSET S
    PROVE  g[s] = IF s = {} THEN 0 ELSE f[First(s)] + g[Rest(s)]
BY DEF Sums

LEMMA SumsAgree ==
    ASSUME NEW f, NEW S, IsFiniteSet(S), NEW V, NEW W, S \subseteq V, S \subseteq W,
           NEW g, Sums(g, f, V), NEW h, Sums(h, f, W)
    PROVE  g[S] = h[S]
<1> DEFINE Good == {s \in SUBSET S : g[s] = h[s]}
<1>1. ASSUME NEW T \in SUBSET S, \A U \in SUBSET T : U # T => U \in Good
      PROVE  T \in Good
  <2>1. T \in SUBSET V /\ T \in SUBSET W
    OBVIOUS
  <2>2. /\ g[T] = IF T = {} THEN 0 ELSE f[First(T)] + g[Rest(T)]
        /\ h[T] = IF T = {} THEN 0 ELSE f[First(T)] + h[Rest(T)]
    BY <2>1, SumsEntry
  <2>3. T # {} => g[Rest(T)] = h[Rest(T)]
    BY <1>1, FirstRest
  <2> QED
    BY <2>2, <2>3
<1>2. S \in Good
  <2> HIDE DEF Good
  <2> QED
    BY <1>1, SubsetInduction
<1> QED
  BY <1>2

LEMMA SumsExist ==
    ASSUME NEW f, NEW S, IsFiniteSet(S)
    PROVE  \E g : Sums(g, f, S)
<1> DEFINE Good == {T \in SUBSET S : \E g : Sums(g, f, T)}
           Tab(U) == CHOOSE g : Sums(g, f, U)
<1>1. ASSUME NEW T \in SUBSET S, \A U \in SUBSET T : U # T => U \in Good
      PROVE  T \in Good
  <2> DEFINE h == [s \in SUBSET T |->
                     IF s = {} THEN 0 ELSE f[First(s)] + Tab(Rest(s))[Rest(s)]]
  <2>1. \A U \in SUBSET T : U # T => Sums(Tab(U), f, U)
    BY <1>1
  <2>2. ASSUME NEW s \in SUBSET T, s # {}
        PROVE  h[Rest(s)] = Tab(Rest(s))[Rest(s)]
    <3> DEFINE r == Rest(s)
    <3>1. r \in SUBSET T /\ r # T /\ IsFiniteSet(T)
      <4>1. s \in SUBSET s /\ r \in SUBSET s /\ r # s
        BY <2>2, FirstRest
      <4>2. IsFiniteSet(T)
        BY FS_Subset
      <4> HIDE DEF r, h, Tab
      <4> QED
        BY <4>1, <4>2
    <3>2. Tab(r)[r] = IF r = {} THEN 0 ELSE f[First(r)] + Tab(r)[Rest(r)]
      <4> HIDE DEF Tab, r
      <4> QED
        BY <2>1, <3>1, SumsEntry
    <3>3. h[r] = IF r = {} THEN 0 ELSE f[First(r)] + Tab(Rest(r))[Rest(r)]
      <4> HIDE DEF Tab, r
      <4> QED
        BY <3>1
    <3>4. r # {} => Tab(Rest(r))[Rest(r)] = Tab(r)[Rest(r)]
      <4> SUFFICES ASSUME r # {} PROVE Tab(Rest(r))[Rest(r)] = Tab(r)[Rest(r)]
        OBVIOUS
      <4> HIDE DEF Tab, r, h, Good
      <4>1. Rest(r) \in SUBSET r /\ Rest(r) \in SUBSET T /\ Rest(r) # T
        BY <3>1, FirstRest
      <4>2. IsFiniteSet(Rest(r))
        BY <3>1, <4>1, FS_Subset
      <4>3. Sums(Tab(Rest(r)), f, Rest(r)) /\ Sums(Tab(r), f, r)
        BY <2>1, <3>1, <4>1
      <4> QED
        BY <4>1, <4>2, <4>3, SumsAgree
    <3> HIDE DEF r, h, Tab
    <3>5. h[r] = Tab(r)[r]
      BY <3>2, <3>3, <3>4
    <3> QED
      BY <3>5 DEF r
  <2>3. h = [s \in SUBSET T |-> IF s = {} THEN 0 ELSE f[First(s)] + h[Rest(s)]]
    <3>1. \A s \in SUBSET T :
            h[s] = IF s = {} THEN 0 ELSE f[First(s)] + h[Rest(s)]
      <4> HIDE DEF Tab
      <4> QED
        BY <2>2
    <3> DEFINE k == [s \in SUBSET T |-> IF s = {} THEN 0 ELSE f[First(s)] + h[Rest(s)]]
    <3>2. h = [s \in SUBSET T |-> h[s]]
      BY DEF h
    <3> HIDE DEF h
    <3> QED
      BY <3>1, <3>2
  <2> HIDE DEF h, Tab
  <2>4. Sums(h, f, T)
    BY <2>3 DEF Sums
  <2> QED
    BY <2>4
<1>2. S \in Good
  <2> HIDE DEF Good
  <2> QED
    BY <1>1, SubsetInduction
<1> QED
  BY <1>2

LEMMA SumEquation ==
    ASSUME NEW f, NEW S, IsFiniteSet(S)
    PROVE  SumFunctionOnSet(f, S) =
             IF S = {} THEN 0 ELSE f[First(S)] + SumFunctionOnSet(f, Rest(S))
<1> DEFINE Tab(U) == CHOOSE g : Sums(g, f, U)
<1>1. Sums(Tab(S), f, S)
  BY SumsExist
<1>2. ASSUME S # {}
      PROVE  Tab(Rest(S))[Rest(S)] = Tab(S)[Rest(S)]
  <2>1. Rest(S) \in SUBSET S /\ IsFiniteSet(Rest(S))
    BY <1>2, FirstRest, FS_Subset
  <2>2. Sums(Tab(Rest(S)), f, Rest(S))
    BY <2>1, SumsExist
  <2> HIDE DEF Tab
  <2> QED
    BY <1>1, <2>1, <2>2, SumsAgree
<1>3. /\ SumFunctionOnSet(f, S) = Tab(S)[S]
      /\ SumFunctionOnSet(f, Rest(S)) = Tab(Rest(S))[Rest(S)]
  BY SumIs
<1> HIDE DEF Tab
<1>4. Tab(S)[S] = IF S = {} THEN 0 ELSE f[First(S)] + Tab(S)[Rest(S)]
  BY <1>1, SumsEntry
<1> QED
  BY <1>2, <1>3, <1>4

-----------------------------------------------------------------------------
(* The laws.                                                               *)

\* The sum of no numbers.
LEMMA SumEmpty ==
    ASSUME NEW f
    PROVE  SumFunctionOnSet(f, {}) = 0
BY SumEquation, FS_EmptySet

LEMMA RestFinite ==
    ASSUME NEW S, IsFiniteSet(S), NEW s \in SUBSET S
    PROVE  IsFiniteSet(s) /\ IsFiniteSet(Rest(s))
BY FS_Subset DEF Rest

\* The sum of integers is an integer.
LEMMA SumType ==
    ASSUME NEW f, NEW S, IsFiniteSet(S), \A x \in S : f[x] \in Int
    PROVE  SumFunctionOnSet(f, S) \in Int
<1> DEFINE Good == {T \in SUBSET S : SumFunctionOnSet(f, T) \in Int}
<1>1. ASSUME NEW T \in SUBSET S, \A U \in SUBSET T : U # T => U \in Good
      PROVE  T \in Good
  <2>1. IsFiniteSet(T)
    BY FS_Subset
  <2>2. CASE T = {}
    BY <2>2, SumEmpty
  <2>3. CASE T # {}
    <3>1. First(T) \in T /\ SumFunctionOnSet(f, Rest(T)) \in Int
      BY <1>1, <2>3, FirstRest
    <3>2. SumFunctionOnSet(f, T) = f[First(T)] + SumFunctionOnSet(f, Rest(T))
      BY <2>1, <2>3, SumEquation
    <3> QED
      BY <3>1, <3>2
  <2> QED
    BY <2>2, <2>3
<1>2. S \in Good
  <2> HIDE DEF Good
  <2> QED
    BY <1>1, SubsetInduction
<1> QED
  BY <1>2

\* Sums of functions that agree on the set are the same.
LEMMA SumEqual ==
    ASSUME NEW f, NEW g, NEW S, IsFiniteSet(S), \A x \in S : f[x] = g[x]
    PROVE  SumFunctionOnSet(f, S) = SumFunctionOnSet(g, S)
<1> DEFINE Good == {T \in SUBSET S : SumFunctionOnSet(f, T) = SumFunctionOnSet(g, T)}
<1>1. ASSUME NEW T \in SUBSET S, \A U \in SUBSET T : U # T => U \in Good
      PROVE  T \in Good
  <2>1. IsFiniteSet(T)
    BY FS_Subset
  <2>2. CASE T = {}
    BY <2>2, SumEmpty
  <2>3. CASE T # {}
    <3>1. /\ f[First(T)] = g[First(T)]
          /\ SumFunctionOnSet(f, Rest(T)) = SumFunctionOnSet(g, Rest(T))
      BY <1>1, <2>3, FirstRest
    <3>2. /\ SumFunctionOnSet(f, T) = f[First(T)] + SumFunctionOnSet(f, Rest(T))
          /\ SumFunctionOnSet(g, T) = g[First(T)] + SumFunctionOnSet(g, Rest(T))
      BY <2>1, <2>3, SumEquation
    <3> QED
      BY <3>1, <3>2
  <2> QED
    BY <2>2, <2>3
<1>2. S \in Good
  <2> HIDE DEF Good
  <2> QED
    BY <1>1, SubsetInduction
<1> QED
  BY <1>2

\* It does not matter which element the sum starts with.
LEMMA SumRemove ==
    ASSUME NEW f, NEW S, IsFiniteSet(S), \A x \in S : f[x] \in Int, NEW e \in S
    PROVE  SumFunctionOnSet(f, S) = f[e] + SumFunctionOnSet(f, S \ {e})
<1> DEFINE Sum(T) == SumFunctionOnSet(f, T)
           Good == {T \in SUBSET S : \A x \in T : Sum(T) = f[x] + Sum(T \ {x})}
<1>1. ASSUME NEW T \in SUBSET S, \A U \in SUBSET T : U # T => U \in Good
      PROVE  T \in Good
  <2> SUFFICES ASSUME NEW x \in T PROVE Sum(T) = f[x] + Sum(T \ {x})
    OBVIOUS
  <2> DEFINE y == First(T)
  <2>1. y \in T /\ Rest(T) = T \ {y} /\ IsFiniteSet(T)
    BY FirstRest, FS_Subset DEF Rest
  <2>2. Sum(T) = f[y] + Sum(T \ {y})
    BY <2>1, SumEquation
  <2> HIDE DEF y, Sum
  <2>3. CASE x # y
    <3>1. T \ {y} \in Good /\ T \ {x} \in Good
      BY <1>1, <2>1
    <3>2. /\ Sum(T \ {y}) = f[x] + Sum((T \ {y}) \ {x})
          /\ Sum(T \ {x}) = f[y] + Sum((T \ {x}) \ {y})
      BY <2>1, <2>3, <3>1
    <3>3. (T \ {y}) \ {x} = (T \ {x}) \ {y}
      OBVIOUS
    <3>4. /\ f[x] \in Int /\ f[y] \in Int
          /\ Sum((T \ {x}) \ {y}) \in Int
      <4>1. f[x] \in Int /\ f[y] \in Int
        BY <2>1
      <4>2. IsFiniteSet((T \ {x}) \ {y}) /\ \A z \in (T \ {x}) \ {y} : f[z] \in Int
        BY <2>1, FS_Subset
      <4> QED
        BY <4>1, <4>2, SumType DEF Sum
    <3> DEFINE rest == Sum((T \ {x}) \ {y})
    <3>5. Sum(T \ {y}) = f[x] + rest /\ Sum(T \ {x}) = f[y] + rest
      BY <3>2, <3>3
    <3>6. rest \in Int
      BY <3>4
    <3> HIDE DEF rest, Good
    <3>7. Sum(T) = f[y] + (f[x] + rest)
      BY <2>2, <3>5
    <3>8. f[y] + (f[x] + rest) = f[x] + (f[y] + rest)
      BY <3>4, <3>6
    <3> QED
      BY <3>5, <3>7, <3>8
  <2> QED
    BY <2>2, <2>3
<1>2. S \in Good
  <2> HIDE DEF Good
  <2> QED
    BY <1>1, SubsetInduction
<1> QED
  BY <1>2

\* A new element adds its number.
LEMMA SumAdd ==
    ASSUME NEW f, NEW S, IsFiniteSet(S), NEW e, e \notin S,
           \A x \in S \cup {e} : f[x] \in Int
    PROVE  SumFunctionOnSet(f, S \cup {e}) = f[e] + SumFunctionOnSet(f, S)
<1>1. IsFiniteSet(S \cup {e}) /\ e \in S \cup {e}
  BY FS_AddElement
<1>2. (S \cup {e}) \ {e} = S
  OBVIOUS
<1>3. SumFunctionOnSet(f, S \cup {e}) = f[e] + SumFunctionOnSet(f, (S \cup {e}) \ {e})
  BY <1>1, SumRemove
<1> QED
  BY <1>2, <1>3

\* The sum changes by as much as one of its numbers.
LEMMA SumChange ==
    ASSUME NEW f, NEW g, NEW S, IsFiniteSet(S), NEW e \in S,
           \A x \in S : f[x] \in Int /\ g[x] \in Int,
           \A x \in S \ {e} : f[x] = g[x]
    PROVE  SumFunctionOnSet(g, S) = SumFunctionOnSet(f, S) + (g[e] - f[e])
<1>1. IsFiniteSet(S \ {e})
  BY FS_RemoveElement
<1>2. SumFunctionOnSet(f, S \ {e}) = SumFunctionOnSet(g, S \ {e})
  BY <1>1, SumEqual
<1>3. SumFunctionOnSet(f, S) = f[e] + SumFunctionOnSet(f, S \ {e})
  BY SumRemove
<1>4. SumFunctionOnSet(g, S) = g[e] + SumFunctionOnSet(g, S \ {e})
  BY SumRemove
<1>5. SumFunctionOnSet(f, S \ {e}) \in Int /\ f[e] \in Int /\ g[e] \in Int
  BY <1>1, SumType
<1> QED
  BY <1>2, <1>3, <1>4, <1>5

\* A part of the numbers, each perhaps smaller, adds up to no more when those
\* left out are not negative.
LEMMA SumMonotone ==
    ASSUME NEW f, NEW g, NEW S, IsFiniteSet(S), NEW P \in SUBSET S,
           \A x \in P : f[x] \in Int, \A x \in S : g[x] \in Int,
           \A x \in P : f[x] <= g[x],
           \A x \in S \ P : g[x] >= 0
    PROVE  SumFunctionOnSet(f, P) <= SumFunctionOnSet(g, S)
<1> DEFINE Good == {T \in SUBSET S :
                      SumFunctionOnSet(f, P \cap T) <= SumFunctionOnSet(g, T)}
<1>1. ASSUME NEW T \in SUBSET S, \A U \in SUBSET T : U # T => U \in Good
      PROVE  T \in Good
  <2>1. IsFiniteSet(T) /\ IsFiniteSet(P \cap T)
    BY FS_Subset
  <2>2. CASE T = {}
    <3>1. P \cap T = {}
      BY <2>2
    <3> QED
      BY <2>2, <3>1, SumEmpty
  <2>3. CASE T # {}
    <3> SUFFICES SumFunctionOnSet(f, P \cap T) <= SumFunctionOnSet(g, T)
      OBVIOUS
    <3> DEFINE x == First(T)
               U == T \ {x}
    <3>1. x \in T
      BY <2>3, FirstRest
    <3> HIDE DEF x
    <3>2. SumFunctionOnSet(f, P \cap U) <= SumFunctionOnSet(g, U)
      BY <1>1, <3>1
    <3>3. IsFiniteSet(U) /\ IsFiniteSet(P \cap U)
      BY <2>1, FS_RemoveElement, FS_Subset
    <3>4. SumFunctionOnSet(g, T) = g[x] + SumFunctionOnSet(g, U)
      BY <2>1, <3>1, SumRemove
    <3>5. SumFunctionOnSet(f, P \cap U) \in Int /\ SumFunctionOnSet(g, U) \in Int
      BY <3>3, SumType
    <3>6. (x \in P => f[x] \in Int) /\ g[x] \in Int
      BY <3>1
    <3>7. CASE x \in P
      <4>1. (P \cap T) \ {x} = P \cap U
        OBVIOUS
      <4>2. SumFunctionOnSet(f, P \cap T)
              = f[x] + SumFunctionOnSet(f, (P \cap T) \ {x})
        BY <2>1, <3>1, <3>7, SumRemove
      <4>3. f[x] <= g[x]
        BY <3>7
      <4>4. SumFunctionOnSet(f, P \cap T) = f[x] + SumFunctionOnSet(f, P \cap U)
        BY <4>1, <4>2
      <4> HIDE DEF U, Good
      <4> QED
        BY <3>2, <3>4, <3>5, <3>6, <3>7, <4>3, <4>4
    <3>8. CASE x \notin P
      <4>1. P \cap T = P \cap U /\ g[x] >= 0
        BY <3>1, <3>8
      <4> HIDE DEF U, Good
      <4> QED
        BY <3>2, <3>4, <3>5, <3>6, <4>1
    <3> QED
      BY <3>7, <3>8
  <2> QED
    BY <2>2, <2>3
<1>2. S \in Good
  <2> HIDE DEF Good
  <2> QED
    BY <1>1, SubsetInduction
<1>3. P \cap S = P
  OBVIOUS
<1> QED
  BY <1>2, <1>3
=============================================================================
