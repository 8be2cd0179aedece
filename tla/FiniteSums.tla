----------------------------- MODULE FiniteSums -----------------------------
(***************************************************************************)
(* Finite sums, for the proofs about what is added up: the books of        *)
(* Gateway, the days of Reports, the messages of PromptStages.  The        *)
(* library's induction theorems have an operator as a parameter, so that   *)
(* each proof takes a smallest set that its claim is wrong of.             *)
(***************************************************************************)
EXTENDS Integers, FiniteSets, Functions, FiniteSetTheorems, WellFoundedInduction, TLAPS

\* A set of numbers has a least one.
LEMMA LeastNumber ==
    ASSUME NEW T \in SUBSET Nat, T # {}
    PROVE  \E x \in T : \A y \in T : x <= y
<1>1. PICK x \in T : \A y \in T : ~(<<y, x>> \in OpToRel(<, Nat))
    BY NatLessThanWellFounded, WFMin
<1>2. \A y \in T : x \in Nat /\ y \in Nat
    OBVIOUS
<1>3. \A y \in T : ~(y < x)
    BY <1>1, <1>2, Zenon DEF OpToRel
<1> QED BY <1>2, <1>3

\* The element that a fold takes next, and the sums that it works out.
Taken(s) == CHOOSE x \in s : TRUE
Rest(s) == s \ {Taken(s)}
IsSum(it, f, S) == it = [s \in SUBSET S |-> IF s = {} THEN 0 ELSE f[Taken(s)] + it[Rest(s)]]

\* A finite set without its next element is smaller.
LEMMA RestIsSmaller ==
    ASSUME NEW s, IsFiniteSet(s), NEW x \in s
    PROVE  /\ Taken(s) \in s
           /\ IsFiniteSet(s \ {x}) /\ Cardinality(s \ {x}) = Cardinality(s) - 1
           /\ Cardinality(s) \in Nat /\ Cardinality(s \ {x}) \in Nat
BY FS_RemoveElement, FS_CardinalityType DEF Taken

\* Of some subsets of a finite set there is one that no other one is smaller than.
LEMMA SmallestSet ==
    ASSUME NEW S, IsFiniteSet(S), NEW C \in SUBSET (SUBSET S), C # {}
    PROVE  \E s \in C : \A u \in C : ~(Cardinality(u) < Cardinality(s))
<1> DEFINE Sizes == {Cardinality(s) : s \in C}
<1>1. \A s \in C : Cardinality(s) \in Nat
    BY FS_Subset, FS_CardinalityType
<1>2. Sizes \in SUBSET Nat /\ Sizes # {}
    BY <1>1
<1>3. PICK n \in Sizes : \A m \in Sizes : n <= m
    BY <1>2, LeastNumber
<1>4. PICK s \in C : Cardinality(s) = n
    BY <1>3
<1>5. \A u \in C : ~(Cardinality(u) < Cardinality(s))
    BY <1>1, <1>3, <1>4
<1> QED BY <1>4, <1>5

\* There are sums: those of the sets of n + 1 elements come from those of n elements.
LEMMA SumExists ==
    ASSUME NEW f, NEW S, IsFiniteSet(S)
    PROVE  \E it : IsSum(it, f, S)
<1> DEFINE Level(n) == {s \in SUBSET S : Cardinality(s) <= n}
           Value(it, s) == IF s = {} THEN 0 ELSE f[Taken(s)] + it[Rest(s)]
           Reached(n) == \E it : it = [s \in Level(n) |-> Value(it, s)]
           Open == {n \in Nat : ~Reached(n)}
<1>1. \A s \in SUBSET S : IsFiniteSet(s) /\ Cardinality(s) \in Nat
    BY FS_Subset, FS_CardinalityType
<1>2. Reached(0)
    <2> DEFINE it == [s \in Level(0) |-> 0]
    <2>1. \A s \in Level(0) : s = {}
        BY <1>1, FS_EmptySet
    <2>2. it = [s \in Level(0) |-> Value(it, s)]
        BY <2>1
    <2> QED BY <2>2
<1>3. ASSUME NEW n \in Nat, Reached(n) PROVE Reached(n + 1)
    <2>1. PICK it : it = [s \in Level(n) |-> Value(it, s)]
        BY <1>3
    <2> DEFINE up == [s \in Level(n + 1) |-> Value(it, s)]
    <2>2. \A s \in Level(n + 1) : s # {} => Rest(s) \in Level(n) /\ Rest(s) \in Level(n + 1)
        <3> SUFFICES ASSUME NEW s \in Level(n + 1), s # {}
                     PROVE  Rest(s) \in Level(n) /\ Rest(s) \in Level(n + 1)
            OBVIOUS
        <3>1. Taken(s) \in s
            BY DEF Taken
        <3>2. Cardinality(Rest(s)) = Cardinality(s) - 1 /\ Cardinality(s) \in Nat
            BY <1>1, <3>1, RestIsSmaller DEF Rest
        <3> QED BY <3>2 DEF Rest
    <2>3. \A s \in Level(n) : s \in Level(n + 1)
        BY <1>1
    <2>4. \A s \in Level(n) : up[s] = it[s]
        BY <2>1, <2>3
    <2>5. \A s \in Level(n + 1) : Value(up, s) = Value(it, s)
        BY <2>2, <2>4
    <2>6. up = [s \in Level(n + 1) |-> Value(up, s)]
        BY <2>5
    <2> HIDE DEF up
    <2> QED BY <2>6
<1> HIDE DEF Reached
<1>4. Open = {}
    <2> SUFFICES ASSUME Open # {} PROVE FALSE
        OBVIOUS
    <2>1. PICK n \in Open : \A m \in Open : n <= m
        BY LeastNumber
    <2>2. n # 0
        BY <1>2, <2>1
    <2>3. n - 1 \in Nat /\ ~(n <= n - 1)
        BY <2>1, <2>2
    <2>4. Reached(n - 1)
        BY <2>1, <2>3
    <2>5. Reached((n - 1) + 1) /\ (n - 1) + 1 = n
        BY <1>3, <2>3, <2>4
    <2> QED BY <2>1, <2>5
<1>5. Reached(Cardinality(S))
    BY <1>1, <1>4
<1>6. Level(Cardinality(S)) = SUBSET S
    <2>1. \A s \in SUBSET S : Cardinality(s) <= Cardinality(S)
        BY FS_Subset
    <2> QED BY <2>1
<1>7. PICK it : it = [s \in Level(Cardinality(S)) |-> Value(it, s)]
    BY <1>5 DEF Reached
<1>8. it = [s \in SUBSET S |-> Value(it, s)]
    BY <1>6, <1>7
<1> QED BY <1>8 DEF IsSum

\* The sum over a set is the last of them.
LEMMA SumIsLast ==
    ASSUME NEW f, NEW S, IsFiniteSet(S)
    PROVE  \E it : IsSum(it, f, S) /\ SumFunctionOnSet(f, S) = it[S]
<1>1. SumFunctionOnSet(f, S) = (CHOOSE it : IsSum(it, f, S))[S]
    BY DEF SumFunctionOnSet, FoldFunctionOnSet, MapThenFoldSet, IsSum, Taken, Rest
<1> QED BY <1>1, SumExists

\* Those of a subset are among them.
LEMMA SumsAgree ==
    ASSUME NEW f, NEW S, IsFiniteSet(S), NEW T \in SUBSET S,
           NEW it, IsSum(it, f, S), NEW part, IsSum(part, f, T)
    PROVE  \A s \in SUBSET T : part[s] = it[s]
<1> DEFINE C == {s \in SUBSET T : part[s] # it[s]}
<1> SUFFICES ASSUME C # {} PROVE FALSE
    OBVIOUS
<1>1. PICK s \in C : \A u \in C : ~(Cardinality(u) < Cardinality(s))
    <2>1. C \in SUBSET (SUBSET S)
        OBVIOUS
    <2> QED BY <2>1, SmallestSet
<1>2. s \in SUBSET S /\ s \in SUBSET T /\ IsFiniteSet(s)
    BY FS_Subset
<1>3. s # {}
    BY <1>2 DEF IsSum
<1>4. Taken(s) \in s
    BY <1>3 DEF Taken
<1>5. Cardinality(Rest(s)) < Cardinality(s) /\ Rest(s) \in SUBSET T
    BY <1>2, <1>4, RestIsSmaller DEF Rest
<1>6. part[Rest(s)] = it[Rest(s)]
    BY <1>1, <1>5
<1>7. part[s] = f[Taken(s)] + part[Rest(s)]
    BY <1>2, <1>3 DEF IsSum
<1>8. it[s] = f[Taken(s)] + it[Rest(s)]
    BY <1>2, <1>3 DEF IsSum
<1> QED BY <1>6, <1>7, <1>8

LEMMA SumEmpty ==
    ASSUME NEW f
    PROVE  SumFunctionOnSet(f, {}) = 0
BY SumIsLast, FS_EmptySet DEF IsSum

LEMMA SumNext ==
    ASSUME NEW f, NEW S, IsFiniteSet(S), S # {}
    PROVE  SumFunctionOnSet(f, S) = f[Taken(S)] + SumFunctionOnSet(f, Rest(S))
<1>1. PICK it : IsSum(it, f, S) /\ SumFunctionOnSet(f, S) = it[S]
    BY SumIsLast
<1>2. IsFiniteSet(Rest(S)) /\ Rest(S) \in SUBSET S
    BY FS_Subset DEF Rest
<1>3. PICK part : IsSum(part, f, Rest(S)) /\ SumFunctionOnSet(f, Rest(S)) = part[Rest(S)]
    BY <1>2, SumIsLast
<1>4. part[Rest(S)] = it[Rest(S)]
    BY <1>1, <1>2, <1>3, SumsAgree
<1>5. it[S] = f[Taken(S)] + it[Rest(S)]
    BY <1>1 DEF IsSum
<1> QED BY <1>1, <1>3, <1>4, <1>5

\* What holds of the empty set, and of a set if of it without any one element, holds of all.
LEMMA SetInduction ==
    ASSUME NEW S, IsFiniteSet(S), NEW C, {} \in C,
           \A s \in SUBSET S : s # {} /\ (\A x \in s : s \ {x} \in C) => s \in C
    PROVE  S \in C
<1> DEFINE W == {s \in SUBSET S : s \notin C}
<1> SUFFICES ASSUME W # {} PROVE FALSE
    OBVIOUS
<1>1. PICK s \in W : \A u \in W : ~(Cardinality(u) < Cardinality(s))
    <2>1. W \in SUBSET (SUBSET S)
        OBVIOUS
    <2> HIDE DEF W
    <2> QED BY <2>1, SmallestSet
<1>2. ASSUME NEW x \in s
      PROVE  Cardinality(s \ {x}) < Cardinality(s) /\ s \ {x} \in SUBSET S
    <2>1. IsFiniteSet(s)
        BY FS_Subset
    <2>2. Cardinality(s \ {x}) = Cardinality(s) - 1 /\ Cardinality(s) \in Nat
        BY <2>1, RestIsSmaller
    <2> QED BY <2>2
<1> QED BY <1>1, <1>2

\* The sum of numbers is one.
LEMMA SumType ==
    ASSUME NEW f, NEW S, IsFiniteSet(S), \A x \in S : f[x] \in Nat
    PROVE  SumFunctionOnSet(f, S) \in Nat
<1> DEFINE C == {s \in SUBSET S : SumFunctionOnSet(f, s) \notin Nat}
<1> SUFFICES ASSUME C # {} PROVE FALSE
    OBVIOUS
<1>1. PICK s \in C : \A u \in C : ~(Cardinality(u) < Cardinality(s))
    BY SmallestSet
<1>2. s \in SUBSET S /\ IsFiniteSet(s) /\ s # {}
    <2>1. s \in SUBSET S /\ SumFunctionOnSet(f, s) \notin Nat
        BY <1>1
    <2>2. s # {}
        BY <2>1, SumEmpty
    <2> QED BY <2>1, <2>2, FS_Subset
<1>3. Taken(s) \in s
    BY <1>2 DEF Taken
<1>4. Cardinality(Rest(s)) < Cardinality(s) /\ Rest(s) \in SUBSET S
    BY <1>2, <1>3, RestIsSmaller DEF Rest
<1>5. SumFunctionOnSet(f, Rest(s)) \in Nat /\ f[Taken(s)] \in Nat
    BY <1>1, <1>2, <1>3, <1>4
<1>6. SumFunctionOnSet(f, s) = f[Taken(s)] + SumFunctionOnSet(f, Rest(s))
    BY <1>2, SumNext
<1> QED BY <1>5, <1>6

\* The sum of integers is one.
LEMMA SumIsInt ==
    ASSUME NEW f, NEW S, IsFiniteSet(S), \A x \in S : f[x] \in Int
    PROVE  SumFunctionOnSet(f, S) \in Int
<1> DEFINE C == {s \in SUBSET S : SumFunctionOnSet(f, s) \notin Int}
<1> SUFFICES ASSUME C # {} PROVE FALSE
    OBVIOUS
<1>1. PICK s \in C : \A u \in C : ~(Cardinality(u) < Cardinality(s))
    BY SmallestSet
<1>2. s \in SUBSET S /\ IsFiniteSet(s) /\ s # {}
    <2>1. s \in SUBSET S /\ SumFunctionOnSet(f, s) \notin Int
        BY <1>1
    <2>2. s # {}
        BY <2>1, SumEmpty
    <2> QED BY <2>1, <2>2, FS_Subset
<1>3. Taken(s) \in s
    BY <1>2 DEF Taken
<1>4. Cardinality(Rest(s)) < Cardinality(s) /\ Rest(s) \in SUBSET S
    BY <1>2, <1>3, RestIsSmaller DEF Rest
<1>5. SumFunctionOnSet(f, Rest(s)) \in Int /\ f[Taken(s)] \in Int
    BY <1>1, <1>2, <1>3, <1>4
<1>6. SumFunctionOnSet(f, s) = f[Taken(s)] + SumFunctionOnSet(f, Rest(s))
    BY <1>2, SumNext
<1> QED BY <1>5, <1>6

\* Any element may be the first.
LEMMA SumWithout ==
    ASSUME NEW f, NEW S, IsFiniteSet(S), \A x \in S : f[x] \in Int, NEW x \in S
    PROVE  SumFunctionOnSet(f, S) = f[x] + SumFunctionOnSet(f, S \ {x})
<1> DEFINE C == {s \in SUBSET S : \E y \in s :
                    SumFunctionOnSet(f, s) # f[y] + SumFunctionOnSet(f, s \ {y})}
<1> SUFFICES ASSUME C # {} PROVE FALSE
    OBVIOUS
<1>1. PICK s \in C : \A u \in C : ~(Cardinality(u) < Cardinality(s))
    BY SmallestSet
<1>2. PICK y \in s : SumFunctionOnSet(f, s) # f[y] + SumFunctionOnSet(f, s \ {y})
    OBVIOUS
<1> DEFINE n == Taken(s)
           both == s \ {n, y}
<1>3. s \in SUBSET S /\ IsFiniteSet(s) /\ s # {} /\ n \in s
    BY FS_Subset DEF Taken
<1>4. SumFunctionOnSet(f, s) = f[n] + SumFunctionOnSet(f, s \ {n})
    BY <1>3, SumNext DEF Rest
<1>5. y # n
    BY <1>2, <1>4
<1>6. /\ Cardinality(s \ {n}) < Cardinality(s) /\ Cardinality(s \ {y}) < Cardinality(s)
      /\ s \ {n} \in SUBSET S /\ s \ {y} \in SUBSET S
    <2>1. /\ Cardinality(s \ {n}) = Cardinality(s) - 1 /\ Cardinality(s) \in Int
          /\ Cardinality(s \ {y}) = Cardinality(s) - 1
        BY <1>2, <1>3, RestIsSmaller
    <2> QED BY <1>3, <2>1
<1> HIDE DEF n
<1>7. SumFunctionOnSet(f, s \ {n}) = f[y] + SumFunctionOnSet(f, both)
    <2>1. (s \ {n}) \ {y} = both /\ y \in s \ {n}
        BY <1>5
    <2> QED BY <1>1, <1>6, <2>1
<1>8. SumFunctionOnSet(f, s \ {y}) = f[n] + SumFunctionOnSet(f, both)
    <2>1. (s \ {y}) \ {n} = both /\ n \in s \ {y}
        BY <1>3, <1>5
    <2> QED BY <1>1, <1>6, <2>1
<1>9. f[y] \in Int /\ f[n] \in Int /\ SumFunctionOnSet(f, both) \in Int
    <2>1. IsFiniteSet(both) /\ both \in SUBSET S
        BY <1>3, FS_Subset
    <2> QED BY <1>3, <2>1, SumIsInt
<1> QED BY <1>2, <1>4, <1>7, <1>8, <1>9

\* What is summed is all that matters, and what is zero does not.
LEMMA SumOfSame ==
    ASSUME NEW f, NEW g, NEW S, IsFiniteSet(S), NEW T \in SUBSET S,
           \A x \in S : f[x] \in Int, \A x \in T : f[x] = g[x], \A x \in S \ T : f[x] = 0
    PROVE  SumFunctionOnSet(f, S) = SumFunctionOnSet(g, T)
<1> DEFINE C == {s \in SUBSET S : SumFunctionOnSet(f, s) # SumFunctionOnSet(g, s \cap T)}
<1> SUFFICES ASSUME C # {} PROVE FALSE
    <2>1. S \cap T = T
        OBVIOUS
    <2> QED BY <2>1
<1>1. PICK s \in C : \A u \in C : ~(Cardinality(u) < Cardinality(s))
    BY SmallestSet
<1>2. s \in SUBSET S /\ IsFiniteSet(s)
    BY FS_Subset
<1>3. s # {}
    <2>1. {} \cap T = {}
        OBVIOUS
    <2> QED BY <1>1, <2>1, SumEmpty
<1>4. PICK x \in s : TRUE
    BY <1>3
<1>5. Cardinality(s \ {x}) < Cardinality(s) /\ s \ {x} \in SUBSET S /\ IsFiniteSet(s \ {x})
    <2>1. Cardinality(s \ {x}) = Cardinality(s) - 1 /\ Cardinality(s) \in Nat
        BY <1>2, RestIsSmaller
    <2>2. IsFiniteSet(s \ {x})
        BY <1>2, RestIsSmaller
    <2> QED BY <1>2, <2>1, <2>2
<1>6. SumFunctionOnSet(f, s \ {x}) = SumFunctionOnSet(g, (s \ {x}) \cap T)
    BY <1>1, <1>5
<1>7. SumFunctionOnSet(f, s) = f[x] + SumFunctionOnSet(f, s \ {x})
    BY <1>2, SumWithout
<1>8. SumFunctionOnSet(f, s \ {x}) \in Int
    BY <1>2, <1>5, SumIsInt
<1>9. CASE x \in T
    <2>1. IsFiniteSet(s \cap T) /\ x \in s \cap T /\ \A y \in s \cap T : g[y] \in Int
        BY <1>2, <1>9, FS_Subset
    <2>2. SumFunctionOnSet(g, s \cap T) = g[x] + SumFunctionOnSet(g, (s \cap T) \ {x})
        BY <2>1, SumWithout
    <2>3. (s \cap T) \ {x} = (s \ {x}) \cap T
        OBVIOUS
    <2> QED BY <1>1, <1>6, <1>7, <1>9, <2>2, <2>3
<1>10. CASE x \notin T
    <2>1. s \cap T = (s \ {x}) \cap T /\ f[x] = 0
        BY <1>2, <1>10
    <2>2. SumFunctionOnSet(f, s) = SumFunctionOnSet(f, s \ {x})
        BY <1>7, <1>8, <2>1
    <2>3. SumFunctionOnSet(f, s) # SumFunctionOnSet(g, s \cap T)
        OBVIOUS
    <2> QED BY <1>6, <2>1, <2>2, <2>3
<1> QED BY <1>9, <1>10

\* What is added to one element is added to the sum.
LEMMA SumPlus ==
    ASSUME NEW f, NEW g, NEW S, IsFiniteSet(S), NEW x \in S, NEW d \in Int,
           \A y \in S : f[y] \in Int, g[x] = f[x] + d, \A y \in S \ {x} : g[y] = f[y]
    PROVE  SumFunctionOnSet(g, S) = SumFunctionOnSet(f, S) + d
<1>1. \A y \in S : g[y] \in Int
    OBVIOUS
<1>2. IsFiniteSet(S \ {x})
    BY FS_Subset
<1>3. SumFunctionOnSet(f, S) = f[x] + SumFunctionOnSet(f, S \ {x})
    BY SumWithout
<1>4. SumFunctionOnSet(g, S) = g[x] + SumFunctionOnSet(g, S \ {x})
    BY <1>1, SumWithout
<1>5. SumFunctionOnSet(g, S \ {x}) = SumFunctionOnSet(f, S \ {x})
    BY <1>1, <1>2, SumOfSame
<1>6. SumFunctionOnSet(f, S \ {x}) \in Int
    BY <1>2, SumIsInt
<1> QED BY <1>3, <1>4, <1>5, <1>6

\* The elements may be summed up group by group.
LEMMA SumOfGroups ==
    ASSUME NEW f, NEW S, IsFiniteSet(S), \A x \in S : f[x] \in Nat,
           NEW K, IsFiniteSet(K), NEW key, \A x \in S : key[x] \in K
    PROVE  SumFunctionOnSet([k \in K |-> SumFunctionOnSet(f, {x \in S : key[x] = k})], K)
                = SumFunctionOnSet(f, S)
<1> DEFINE Group(s, k) == {x \in s : key[x] = k}
           Sums(s) == [k \in K |-> SumFunctionOnSet(f, Group(s, k))]
           C == {s \in SUBSET S : SumFunctionOnSet(Sums(s), K) # SumFunctionOnSet(f, s)}
<1>1. \A s \in SUBSET S : \A k \in K :
        SumFunctionOnSet(f, Group(s, k)) \in Nat /\ Sums(s)[k] = SumFunctionOnSet(f, Group(s, k))
    <2> SUFFICES ASSUME NEW s \in SUBSET S, NEW k \in K
                 PROVE  SumFunctionOnSet(f, Group(s, k)) \in Nat
        OBVIOUS
    <2>1. IsFiniteSet(Group(s, k)) /\ \A x \in Group(s, k) : f[x] \in Nat
        BY FS_Subset
    <2> QED BY <2>1, SumType
<1>2. SUFFICES ASSUME C # {} PROVE FALSE
    OBVIOUS
<1>3. PICK s \in C : \A u \in C : ~(Cardinality(u) < Cardinality(s))
    BY <1>2, SmallestSet
<1>4. s \in SUBSET S /\ IsFiniteSet(s)
    BY FS_Subset
<1>5. s # {}
    <2> SUFFICES ASSUME s = {} PROVE FALSE
        OBVIOUS
    <2>1. \A k \in K : Group(s, k) = {}
        OBVIOUS
    <2>2. \A k \in K : Sums(s)[k] = 0
        BY <2>1, SumEmpty
    <2> HIDE DEF Sums
    <2>3. SumFunctionOnSet(Sums(s), K) = SumFunctionOnSet(Sums(s), {})
        BY <2>2, SumOfSame
    <2> QED BY <1>3, <2>3, SumEmpty
<1>6. PICK x \in s : TRUE
    BY <1>5
<1> DEFINE t == s \ {x}
<1>7. Cardinality(t) < Cardinality(s) /\ t \in SUBSET S
    <2>1. Cardinality(t) = Cardinality(s) - 1 /\ Cardinality(s) \in Nat
        BY <1>4, RestIsSmaller
    <2> QED BY <1>4, <2>1
<1>8. SumFunctionOnSet(Sums(t), K) = SumFunctionOnSet(f, t)
    BY <1>3, <1>7
<1>9. SumFunctionOnSet(f, s) = f[x] + SumFunctionOnSet(f, t)
    BY <1>4, SumWithout
<1>10. key[x] \in K /\ f[x] \in Nat
    BY <1>4
<1>11. Sums(s)[key[x]] = Sums(t)[key[x]] + f[x]
    <2>1. Group(t, key[x]) = Group(s, key[x]) \ {x} /\ x \in Group(s, key[x])
        OBVIOUS
    <2>2. IsFiniteSet(Group(s, key[x])) /\ \A y \in Group(s, key[x]) : f[y] \in Nat
        BY <1>4, FS_Subset
    <2> HIDE DEF Group
    <2>3. SumFunctionOnSet(f, Group(s, key[x]))
            = f[x] + SumFunctionOnSet(f, Group(s, key[x]) \ {x})
        BY <2>1, <2>2, SumWithout
    <2>4. /\ Sums(s)[key[x]] = SumFunctionOnSet(f, Group(s, key[x]))
          /\ Sums(t)[key[x]] = SumFunctionOnSet(f, Group(t, key[x]))
          /\ SumFunctionOnSet(f, Group(t, key[x])) \in Nat
        BY <1>1, <1>4, <1>7, <1>10
    <2> HIDE DEF t, Sums
    <2> QED BY <1>10, <2>1, <2>3, <2>4
<1>12. \A k \in K \ {key[x]} : Sums(s)[k] = Sums(t)[k]
    <2>1. \A k \in K \ {key[x]} : Group(s, k) = Group(t, k)
        OBVIOUS
    <2> QED BY <2>1
<1>13. \A k \in K : Sums(t)[k] \in Nat
    BY <1>1, <1>7
<1> HIDE DEF Sums, t
<1>14. SumFunctionOnSet(Sums(s), K) = SumFunctionOnSet(Sums(t), K) + f[x]
    BY <1>10, <1>11, <1>12, <1>13, SumPlus
<1>15. SumFunctionOnSet(f, t) \in Nat
    BY <1>4, <1>7, FS_Subset, SumType
<1> QED BY <1>3, <1>8, <1>9, <1>10, <1>14, <1>15

\* So may they be counted: the size of a set is the sum of ones.
LEMMA SumOfOnes ==
    ASSUME NEW S, IsFiniteSet(S), NEW f, \A x \in S : f[x] = 1
    PROVE  SumFunctionOnSet(f, S) = Cardinality(S)
<1> DEFINE C == {s \in SUBSET S : SumFunctionOnSet(f, s) # Cardinality(s)}
<1> SUFFICES ASSUME C # {} PROVE FALSE
    OBVIOUS
<1>1. PICK s \in C : \A u \in C : ~(Cardinality(u) < Cardinality(s))
    BY SmallestSet
<1>2. s \in SUBSET S /\ IsFiniteSet(s)
    BY FS_Subset
<1>3. s # {}
    BY <1>1, SumEmpty, FS_EmptySet
<1>4. PICK x \in s : TRUE
    BY <1>3
<1>5. /\ Cardinality(s \ {x}) = Cardinality(s) - 1 /\ Cardinality(s) \in Nat
      /\ s \ {x} \in SUBSET S
    BY <1>2, RestIsSmaller
<1>6. SumFunctionOnSet(f, s \ {x}) = Cardinality(s \ {x})
    BY <1>1, <1>5
<1>7. SumFunctionOnSet(f, s) = f[x] + SumFunctionOnSet(f, s \ {x}) /\ f[x] = 1
    BY <1>2, SumWithout
<1> QED BY <1>1, <1>5, <1>6, <1>7

\* Sums are added by adding what is summed,
LEMMA SumOfSum ==
    ASSUME NEW S, IsFiniteSet(S), NEW f, NEW g, NEW h,
           \A x \in S : f[x] \in Int /\ g[x] \in Int /\ h[x] = f[x] + g[x]
    PROVE  SumFunctionOnSet(h, S) = SumFunctionOnSet(f, S) + SumFunctionOnSet(g, S)
<1> DEFINE Sum(k, s) == SumFunctionOnSet(k, s)
           C == {s \in SUBSET S : Sum(h, s) = Sum(f, s) + Sum(g, s)}
<1>1. {} \in C
    BY SumEmpty
<1>2. ASSUME NEW s \in SUBSET S, s # {}, \A x \in s : s \ {x} \in C
      PROVE  s \in C
    <2>1. PICK x \in s : TRUE
        BY <1>2
    <2>2. IsFiniteSet(s) /\ IsFiniteSet(s \ {x})
        BY FS_Subset
    <2>3. \A y \in s : f[y] \in Int /\ g[y] \in Int /\ h[y] \in Int /\ h[y] = f[y] + g[y]
        OBVIOUS
    <2>4. /\ Sum(f, s) = f[x] + Sum(f, s \ {x})
          /\ Sum(g, s) = g[x] + Sum(g, s \ {x})
          /\ Sum(h, s) = h[x] + Sum(h, s \ {x})
        BY <2>2, <2>3, SumWithout
    <2>5. Sum(f, s \ {x}) \in Int /\ Sum(g, s \ {x}) \in Int
        BY <2>2, <2>3, SumIsInt
    <2>6. Sum(h, s \ {x}) = Sum(f, s \ {x}) + Sum(g, s \ {x})
        BY <1>2
    <2>7. f[x] \in Int /\ g[x] \in Int /\ h[x] = f[x] + g[x]
        OBVIOUS
    <2> HIDE DEF Sum
    <2>8. Sum(h, s) = Sum(f, s) + Sum(g, s)
        BY <2>4, <2>5, <2>6, <2>7
    <2> QED BY <2>8 DEF Sum
<1> HIDE DEF C
<1>3. S \in C
    BY <1>1, <1>2, SetInduction
<1> QED BY <1>3 DEF C

\* and multiplied by multiplying it.
LEMMA SumTimes ==
    ASSUME NEW S, IsFiniteSet(S), NEW c \in Int, NEW f, NEW g,
           \A x \in S : f[x] \in Int /\ g[x] = c * f[x]
    PROVE  SumFunctionOnSet(g, S) = c * SumFunctionOnSet(f, S)
<1> DEFINE Sum(k, s) == SumFunctionOnSet(k, s)
           C == {s \in SUBSET S : Sum(g, s) = c * Sum(f, s)}
<1>1. {} \in C
    BY SumEmpty
<1>2. ASSUME NEW s \in SUBSET S, s # {}, \A x \in s : s \ {x} \in C
      PROVE  s \in C
    <2>1. PICK x \in s : TRUE
        BY <1>2
    <2>2. IsFiniteSet(s) /\ IsFiniteSet(s \ {x})
        BY FS_Subset
    <2>3. \A y \in s : f[y] \in Int /\ g[y] \in Int /\ g[y] = c * f[y]
        OBVIOUS
    <2>4. /\ Sum(f, s) = f[x] + Sum(f, s \ {x})
          /\ Sum(g, s) = g[x] + Sum(g, s \ {x})
        BY <2>2, <2>3, SumWithout
    <2>5. Sum(f, s \ {x}) \in Int
        BY <2>2, <2>3, SumIsInt
    <2>6. Sum(g, s \ {x}) = c * Sum(f, s \ {x})
        BY <1>2
    <2>7. f[x] \in Int /\ g[x] = c * f[x]
        OBVIOUS
    <2> HIDE DEF Sum
    <2>8. \A a, b \in Int : c * (a + b) = c * a + c * b
        OBVIOUS
    <2>9. Sum(g, s) = c * Sum(f, s)
        BY <2>4, <2>5, <2>6, <2>7, <2>8
    <2> QED BY <2>9 DEF Sum
<1> HIDE DEF C
<1>3. S \in C
    BY <1>1, <1>2, SetInduction
<1> QED BY <1>3 DEF C

\* The sum of a constant is a multiple of it.
LEMMA SumOfConstant ==
    ASSUME NEW S, IsFiniteSet(S), NEW c \in Int, NEW f, \A x \in S : f[x] = c
    PROVE  SumFunctionOnSet(f, S) = c * Cardinality(S)
<1> DEFINE one == [x \in S |-> 1]
<1>1. SumFunctionOnSet(one, S) = Cardinality(S)
    BY SumOfOnes
<1>2. \A x \in S : one[x] \in Int /\ f[x] = c * one[x]
    OBVIOUS
<1> HIDE DEF one
<1> QED BY <1>1, <1>2, SumTimes

\* A sum of more, and of more of it, is larger.
LEMMA SumMonotone ==
    ASSUME NEW S, IsFiniteSet(S), NEW T \in SUBSET S, NEW f, NEW g,
           \A x \in S : g[x] \in Int /\ (x \notin T => g[x] >= 0),
           \A x \in T : f[x] \in Int /\ f[x] <= g[x]
    PROVE  SumFunctionOnSet(f, T) <= SumFunctionOnSet(g, S)
<1> DEFINE ext == [x \in S |-> IF x \in T THEN f[x] ELSE 0]
           gap == [x \in S |-> g[x] - ext[x]]
<1>1. \A x \in S : ext[x] \in Int /\ gap[x] \in Int /\ gap[x] \in Nat /\ g[x] = ext[x] + gap[x]
    OBVIOUS
<1>2. \A x \in T : ext[x] = f[x]
    OBVIOUS
<1>3. \A x \in S \ T : ext[x] = 0
    OBVIOUS
<1> HIDE DEF ext, gap
<1>4. SumFunctionOnSet(ext, S) = SumFunctionOnSet(f, T)
    BY <1>1, <1>2, <1>3, SumOfSame
<1>5. SumFunctionOnSet(g, S) = SumFunctionOnSet(ext, S) + SumFunctionOnSet(gap, S)
    BY <1>1, SumOfSum
<1>6. SumFunctionOnSet(gap, S) \in Nat /\ SumFunctionOnSet(ext, S) \in Int
    BY <1>1, SumType, SumIsInt
<1> QED BY <1>4, <1>5, <1>6

\* The inequality of Cauchy, one number more.
LEMMA OneMoreSquare ==
    ASSUME NEW n \in Nat, NEW e \in Int, NEW E \in Int, NEW Q \in Nat, E * E <= n * Q
    PROVE  (e + E) * (e + E) <= (n + 1) * (e * e + Q)
<1> DEFINE a == n * e
           ee == e * e
           eE == e * E
           nee == n * (e * e)
           nQ == n * Q
<1>1. /\ ee \in Int /\ eE \in Int /\ nee \in Int /\ nQ \in Int /\ a \in Int
      /\ ee >= 0
    OBVIOUS
<1>2. (e + E) * (e + E) = ee + 2 * eE + E * E
    OBVIOUS
<1>3. (n + 1) * (e * e + Q) = nee + nQ + ee + Q
    OBVIOUS
<1>4. 2 * eE <= nee + Q
    <2>1. CASE n = 0
        <3>1. E = 0
            <4>1. E * E <= 0
                BY <2>1
            <4> QED BY <4>1
        <3> QED BY <2>1, <3>1
    <2>2. CASE n # 0
        <3>1. (a - E) * (a - E) >= 0
            BY <1>1
        <3>2. (a - E) * (a - E) = n * nee - 2 * (n * eE) + E * E
            OBVIOUS
        <3>3. n * (2 * eE) <= n * (nee + Q)
            <4>1. n * (2 * eE) = 2 * (n * eE) /\ n * (nee + Q) = n * nee + nQ
                OBVIOUS
            <4>2. n * eE \in Int /\ n * nee \in Int /\ E * E \in Int /\ E * E <= nQ
                OBVIOUS
            <4> HIDE DEF a, eE, nee, nQ
            <4> QED BY <1>1, <3>1, <3>2, <4>1, <4>2
        <3>4. \A x, y \in Int : n * x <= n * y => x <= y
            BY <2>2
        <3>5. 2 * eE \in Int /\ nee + Q \in Int
            BY <1>1
        <3> HIDE DEF eE, nee
        <3> QED BY <3>3, <3>4, <3>5
    <2> QED BY <2>1, <2>2
<1>5. E * E <= nQ /\ E * E \in Int
    OBVIOUS
<1> HIDE DEF ee, eE, nee, nQ
<1> QED BY <1>1, <1>2, <1>3, <1>4, <1>5

\* The square of a sum is not more than the sum of squares times the number of them.
LEMMA CauchyOfSums ==
    ASSUME NEW S, IsFiniteSet(S), NEW f, NEW g,
           \A x \in S : f[x] \in Int /\ g[x] = f[x] * f[x]
    PROVE  SumFunctionOnSet(f, S) * SumFunctionOnSet(f, S)
                <= Cardinality(S) * SumFunctionOnSet(g, S)
<1> DEFINE F(s) == SumFunctionOnSet(f, s)
           G(s) == SumFunctionOnSet(g, s)
           C == {s \in SUBSET S : F(s) * F(s) <= Cardinality(s) * G(s)}
<1>1. {} \in C
    BY SumEmpty, FS_EmptySet
<1>2. ASSUME NEW s \in SUBSET S, s # {}, \A x \in s : s \ {x} \in C
      PROVE  s \in C
    <2>1. PICK x \in s : TRUE
        BY <1>2
    <2>2. IsFiniteSet(s) /\ IsFiniteSet(s \ {x})
        BY FS_Subset
    <2>3. \A y \in s : f[y] \in Int /\ g[y] \in Nat /\ g[y] = f[y] * f[y] /\ g[y] \in Int
        OBVIOUS
    <2>4. F(s) = f[x] + F(s \ {x}) /\ G(s) = g[x] + G(s \ {x})
        BY <2>2, <2>3, SumWithout
    <2>5. F(s \ {x}) \in Int /\ G(s \ {x}) \in Nat
        BY <2>2, <2>3, SumIsInt, SumType
    <2>6. Cardinality(s \ {x}) \in Nat /\ Cardinality(s) = Cardinality(s \ {x}) + 1
        <3>1. Cardinality(s \ {x}) = Cardinality(s) - 1 /\ Cardinality(s) \in Nat
                /\ Cardinality(s \ {x}) \in Nat
            BY <2>2, RestIsSmaller
        <3> QED BY <3>1
    <2>7. F(s \ {x}) * F(s \ {x}) <= Cardinality(s \ {x}) * G(s \ {x})
        BY <1>2
    <2>8. f[x] \in Int /\ g[x] = f[x] * f[x]
        OBVIOUS
    <2> HIDE DEF F, G
    <2>9. F(s) * F(s) <= Cardinality(s) * G(s)
        BY <2>4, <2>5, <2>6, <2>7, <2>8, OneMoreSquare
    <2> QED BY <2>9 DEF F, G
<1> HIDE DEF C
<1>3. S \in C
    BY <1>1, <1>2, SetInduction
<1> QED BY <1>3 DEF C
=============================================================================
