-------------------------- MODULE PromptStagesProofs --------------------------
(***************************************************************************)
(* Proofs about PromptStages, for all conversations, catalogs, prices and  *)
(* replies, whatever is similar to what and wherever a stage fails.        *)
(***************************************************************************)
EXTENDS PromptStages, FiniteSums, SequenceTheorems

-----------------------------------------------------------------------------
(* Sets of places in an order.                                             *)

\* R is a strict total order of S.
Orders(R, S) ==
    /\ \A i \in S : <<i, i>> \notin R
    /\ \A i, j \in S : i # j => <<i, j>> \in R \/ <<j, i>> \in R
    /\ \A h, i, j \in S : <<h, i>> \in R /\ <<i, j>> \in R => <<h, j>> \in R

\* How many elements of S are before i.
Rank(R, S, i) == Cardinality({j \in S : <<j, i>> \in R})

\* Ranks are below the size of the set, and in the order of the elements.
LEMMA RanksAreOrdered ==
    ASSUME NEW S, IsFiniteSet(S), NEW R, Orders(R, S)
    PROVE  /\ \A i \in S : Rank(R, S, i) \in 0..(Cardinality(S) - 1)
           /\ \A i, j \in S : <<i, j>> \in R => Rank(R, S, i) < Rank(R, S, j)
<1> DEFINE Below(i) == {j \in S : <<j, i>> \in R}
<1>1. \A i \in S : IsFiniteSet(Below(i)) /\ Cardinality(Below(i)) \in Nat
    BY FS_Subset, FS_CardinalityType
<1>2. ASSUME NEW T, IsFiniteSet(T), NEW i \in T, NEW U \in SUBSET (T \ {i})
      PROVE  Cardinality(U) <= Cardinality(T) - 1
    <2>1. IsFiniteSet(T \ {i}) /\ Cardinality(T \ {i}) = Cardinality(T) - 1
        BY <1>2, FS_RemoveElement
    <2>2. Cardinality(U) <= Cardinality(T \ {i})
        BY <2>1, FS_Subset
    <2> QED BY <2>1, <2>2
<1>3. Cardinality(S) \in Nat
    BY FS_CardinalityType
<1>4. \A i \in S : Cardinality(Below(i)) <= Cardinality(S) - 1
    <2> SUFFICES ASSUME NEW i \in S PROVE Cardinality(Below(i)) <= Cardinality(S) - 1
        OBVIOUS
    <2>1. Below(i) \in SUBSET (S \ {i})
        BY DEF Orders
    <2> QED BY <1>2, <2>1
<1>5. \A i, j \in S : <<i, j>> \in R => Cardinality(Below(i)) <= Cardinality(Below(j)) - 1
    <2> SUFFICES ASSUME NEW i \in S, NEW j \in S, <<i, j>> \in R
                 PROVE  Cardinality(Below(i)) <= Cardinality(Below(j)) - 1
        OBVIOUS
    <2>1. i \in Below(j) /\ \A x \in Below(i) : x \in Below(j) /\ x # i
        BY DEF Orders
    <2>2. Below(i) \in SUBSET (Below(j) \ {i})
        BY <2>1
    <2>3. IsFiniteSet(Below(j))
        BY <1>1
    <2> HIDE DEF Below
    <2> QED BY <1>2, <2>1, <2>2, <2>3
<1>6. \A i \in S : Rank(R, S, i) = Cardinality(Below(i))
    BY DEF Rank
<1> HIDE DEF Below
<1>7. \A i \in S : Rank(R, S, i) \in 0..(Cardinality(S) - 1)
    BY <1>1, <1>3, <1>4, <1>6
<1>8. \A i, j \in S : <<i, j>> \in R => Rank(R, S, i) < Rank(R, S, j)
    BY <1>1, <1>5, <1>6
<1> QED BY <1>7, <1>8

\* Every number below the size of the set is the rank of one element.
LEMMA RanksAreTaken ==
    ASSUME NEW S, IsFiniteSet(S), NEW R, Orders(R, S), NEW k \in 1..Cardinality(S)
    PROVE  \E i \in S : Rank(R, S, i) = k - 1
<1> DEFINE n == Cardinality(S)
           rank == [i \in S |-> Rank(R, S, i)]
           Ranks == 0..(n - 1)
<1>1. n \in Nat
    BY FS_CardinalityType
<1>2. n - 1 \in Int /\ 0 \in Int
    BY <1>1
<1>3. IsFiniteSet(Ranks) /\ Cardinality(Ranks) = n
    <2> HIDE DEF n
    <2>1. IsFiniteSet(0..(n - 1)) /\ Cardinality(0..(n - 1)) = IF 0 > n - 1 THEN 0 ELSE n - 1 - 0 + 1
        BY <1>2, FS_Interval
    <2> QED BY <1>1, <2>1
<1>4. \A i \in S : Rank(R, S, i) \in Ranks
    BY RanksAreOrdered
<1>5. \A i, j \in S : <<i, j>> \in R => Rank(R, S, i) < Rank(R, S, j)
    BY RanksAreOrdered
<1>6. \A i, j \in S : i # j => Rank(R, S, i) # Rank(R, S, j)
    <2> SUFFICES ASSUME NEW i \in S, NEW j \in S, i # j PROVE Rank(R, S, i) # Rank(R, S, j)
        OBVIOUS
    <2>1. Rank(R, S, i) < Rank(R, S, j) \/ Rank(R, S, j) < Rank(R, S, i)
        BY <1>5 DEF Orders
    <2>2. Rank(R, S, i) \in Int /\ Rank(R, S, j) \in Int
        BY <1>1, <1>4
    <2> QED BY <2>1, <2>2
<1>7. rank \in Injection(S, Ranks)
    BY <1>4, <1>6 DEF Injection, IsInjective
<1>8. rank \in Surjection(S, Ranks)
    BY <1>3, <1>7, FS_Injection
<1>9. k - 1 \in Ranks
    BY <1>1
<1> QED BY <1>8, <1>9 DEF Surjection

\* A set that is listed by the ranks of its elements is sorted.
LEMMA RanksSort ==
    ASSUME NEW S, IsFiniteSet(S), NEW R, Orders(R, S),
           NEW s \in [1..Cardinality(S) -> S],
           \A k \in 1..Cardinality(S) : Rank(R, S, s[k]) = k - 1
    PROVE  /\ \A k, l \in 1..Cardinality(S) : k < l => <<s[k], s[l]>> \in R
           /\ \A i \in S : \E k \in 1..Cardinality(S) : s[k] = i
<1> DEFINE n == Cardinality(S)
<1>1. n \in Nat
    BY FS_CardinalityType
<1>2. \A k \in 1..n : s[k] \in S /\ Rank(R, S, s[k]) = k - 1
    OBVIOUS
<1>5. /\ \A i \in S : Rank(R, S, i) \in 0..(n - 1)
      /\ \A i, j \in S : <<i, j>> \in R => Rank(R, S, i) < Rank(R, S, j)
    BY RanksAreOrdered
<1> HIDE DEF n
<1>6. \A k, l \in 1..n : k < l => <<s[k], s[l]>> \in R
    <2> SUFFICES ASSUME NEW k \in 1..n, NEW l \in 1..n, k < l PROVE <<s[k], s[l]>> \in R
        OBVIOUS
    <2>1. s[k] \in S /\ s[l] \in S /\ Rank(R, S, s[k]) = k - 1 /\ Rank(R, S, s[l]) = l - 1
        BY <1>2
    <2>2. k - 1 < l - 1 /\ k - 1 \in Int /\ l - 1 \in Int
        <3>1. k \in Int /\ l \in Int
            BY <1>1
        <3> QED BY <3>1
    <2>3. s[k] # s[l]
        BY <2>1, <2>2
    <2>4. <<s[l], s[k]>> \notin R
        <3>1. ~(Rank(R, S, s[l]) < Rank(R, S, s[k]))
            BY <2>1, <2>2
        <3> QED BY <1>5, <2>1, <3>1
    <2> QED BY <2>1, <2>3, <2>4 DEF Orders
<1>7. \A i \in S : \E k \in 1..n : s[k] = i
    <2> SUFFICES ASSUME NEW i \in S PROVE \E k \in 1..n : s[k] = i
        OBVIOUS
    <2>1. Rank(R, S, i) \in 0..(n - 1)
        BY <1>5
    <2>2. PICK k \in 1..n : k = Rank(R, S, i) + 1
        BY <1>1, <2>1
    <2>3. s[k] \in S /\ Rank(R, S, s[k]) = Rank(R, S, i)
        BY <1>1, <1>2, <2>1, <2>2
    <2>4. ASSUME s[k] # i PROVE FALSE
        <3>1. <<s[k], i>> \in R \/ <<i, s[k]>> \in R
            BY <2>3, <2>4 DEF Orders
        <3>2. Rank(R, S, s[k]) < Rank(R, S, i) \/ Rank(R, S, i) < Rank(R, S, s[k])
            BY <1>5, <2>3, <3>1
        <3>3. Rank(R, S, i) \in Int
            BY <1>1, <2>1
        <3> QED BY <2>3, <3>2, <3>3
    <2> QED BY <2>4
<1> QED BY <1>6, <1>7 DEF n

\* InOrder lists a set in its order.
LEMMA InOrderSorts ==
    ASSUME NEW S \in SUBSET Int, IsFiniteSet(S)
    PROVE  /\ Cardinality(S) \in Nat
           /\ InOrder(S) \in [1..Cardinality(S) -> S]
           /\ InOrder(S) \in Seq(S) /\ Len(InOrder(S)) = Cardinality(S)
           /\ \A k, l \in 1..Cardinality(S) : k < l => InOrder(S)[k] < InOrder(S)[l]
           /\ \A i \in S : \E k \in 1..Cardinality(S) : InOrder(S)[k] = i
<1> DEFINE R == {p \in S \X S : p[1] < p[2]}
           n == Cardinality(S)
<1>1. \A i, j \in S : <<i, j>> \in R <=> i < j
    OBVIOUS
<1>2. \A i \in S : i \in Int
    OBVIOUS
<1> HIDE DEF R
<1>3. Orders(R, S)
    BY <1>1, <1>2 DEF Orders
<1>4. \A i \in S : {j \in S : j < i} = {j \in S : <<j, i>> \in R}
    BY <1>1
<1>5. \A i \in S : Cardinality({j \in S : j < i}) = Rank(R, S, i)
    BY <1>4 DEF Rank
<1>6. /\ InOrder(S) \in [1..n -> S]
      /\ \A k \in 1..n : Rank(R, S, InOrder(S)[k]) = k - 1
    <2>1. InOrder(S) = [k \in 1..n |-> CHOOSE i \in S : Cardinality({j \in S : j < i}) = k - 1]
        BY DEF InOrder
    <2>2. ASSUME NEW k \in 1..n
          PROVE  InOrder(S)[k] \in S /\ Rank(R, S, InOrder(S)[k]) = k - 1
        <3>1. InOrder(S)[k] = CHOOSE h \in S : Cardinality({j \in S : j < h}) = k - 1
            BY <2>1
        <3>2. PICK i \in S : Rank(R, S, i) = k - 1
            BY <1>3, RanksAreTaken
        <3>3. Cardinality({j \in S : j < i}) = k - 1
            BY <1>5, <3>2
        <3>4. InOrder(S)[k] \in S /\ Cardinality({j \in S : j < InOrder(S)[k]}) = k - 1
            BY <3>1, <3>3
        <3> QED BY <1>5, <3>4
    <2> QED BY <2>1, <2>2
<1>7. n \in Nat
    BY FS_CardinalityType
<1> DEFINE s == InOrder(S)
<1>8. s \in [1..n -> S] /\ \A k \in 1..n : Rank(R, S, s[k]) = k - 1
    BY <1>6
<1> HIDE DEF s
<1>9. /\ \A k, l \in 1..n : k < l => <<s[k], s[l]>> \in R
      /\ \A i \in S : \E k \in 1..n : s[k] = i
    BY <1>3, <1>7, <1>8, RanksSort
<1> HIDE DEF n
<1>10. s \in Seq(S) /\ Len(s) = n
    BY <1>7, <1>8
<1>11. \A k, l \in 1..n : k < l => s[k] < s[l]
    BY <1>1, <1>8, <1>9
<1> QED BY <1>7, <1>8, <1>9, <1>10, <1>11 DEF s, n

-----------------------------------------------------------------------------
(* Lengths and tokens.                                                     *)

Increasing(ms) == \A k, l \in DOMAIN ms : k < l => ms[k] < ms[l]

\* A conversation has messages, which are not shorter than what is removed from them.
LEMMA ConversationType ==
    ASSUME sent \in Conversations
    PROVE  /\ Len(sent) \in Nat \ {0} /\ DOMAIN sent = 1..Len(sent)
           /\ IsFiniteSet(DOMAIN sent) /\ Cardinality(DOMAIN sent) = Len(sent)
           /\ \A i \in DOMAIN sent :
                /\ sent[i] \in Message
                /\ sent[i].chars \in Nat /\ sent[i].excess \in Nat /\ sent[i].edge \in Nat
                /\ sent[i].sim \in Nat
                /\ sent[i].role \in {"system", "user", "assistant", "tool"}
                /\ sent[i].excess + sent[i].edge <= sent[i].chars
<1>1. sent \in Seq(Message) /\ sent # <<>>
    BY ConversationsAssumption
<1>2. /\ Len(sent) \in Nat \ {0} /\ DOMAIN sent = 1..Len(sent)
      /\ \A i \in DOMAIN sent : sent[i] \in Message
    BY <1>1, EmptySeq, LenProperties, ElementOfSeq
<1>3. \A i \in DOMAIN sent : sent[i].excess + sent[i].edge <= sent[i].chars
    BY ConversationsAssumption
<1>4. IsFiniteSet(1..Len(sent)) /\ Cardinality(1..Len(sent)) = Len(sent)
    <2>1. 1 \in Int /\ Len(sent) \in Int /\ ~(1 > Len(sent)) /\ Len(sent) - 1 + 1 = Len(sent)
        BY <1>2
    <2>2. /\ IsFiniteSet(1..Len(sent))
          /\ Cardinality(1..Len(sent)) = IF 1 > Len(sent) THEN 0 ELSE Len(sent) - 1 + 1
        BY <2>1, FS_Interval
    <2> QED BY <2>1, <2>2
<1>5. \A i \in DOMAIN sent :
        /\ sent[i].chars \in Nat /\ sent[i].excess \in Nat /\ sent[i].edge \in Nat
        /\ sent[i].sim \in Nat
        /\ sent[i].role \in {"system", "user", "assistant", "tool"}
    BY <1>2 DEF Message
<1> QED BY <1>2, <1>3, <1>4, <1>5

\* What OrderKept says of messages that are left: none is there twice, and one is before
\* another only if it was, or repeats one that was.
Ordered(ms) ==
    \A k, l \in DOMAIN ms :
        k < l => ms[k] # ms[l] /\ \E i \in DOMAIN sent : i <= ms[l] /\ Alike(i, ms[k])

\* Messages in the order of the conversation are in order.
LEMMA IncreasingIsOrdered ==
    ASSUME sent \in Conversations, NEW ms \in Seq(DOMAIN sent), Increasing(ms)
    PROVE  Ordered(ms)
<1> SUFFICES ASSUME NEW k \in DOMAIN ms, NEW l \in DOMAIN ms, k < l
             PROVE  ms[k] # ms[l] /\ \E i \in DOMAIN sent : i <= ms[l] /\ Alike(i, ms[k])
    BY DEF Ordered
<1>1. ms[k] \in DOMAIN sent /\ ms[l] \in DOMAIN sent
    BY LenProperties, ElementOfSeq
<1>2. ms[k] \in Int /\ ms[l] \in Int
    BY <1>1, ConversationType
<1>3. ms[k] < ms[l]
    BY DEF Increasing
<1>4. Alike(ms[k], ms[k])
    BY DEF Alike
<1>5. ms[k] # ms[l] /\ ms[k] <= ms[l]
    BY <1>2, <1>3
<1> QED BY <1>1, <1>4, <1>5

\* index finds a message that is alike, and none of these before it.
LEMMA FirstEqualType ==
    ASSUME sent \in Conversations, Intermediate \in SUBSET (DOMAIN sent), NEW i \in Intermediate
    PROVE  /\ FirstEqual(i) \in Intermediate /\ Alike(FirstEqual(i), i)
           /\ FirstEqual(i) <= i
<1> DEFINE T == {h \in Intermediate : Alike(h, i)}
<1>1. T \in SUBSET Nat /\ i \in T
    <2>1. DOMAIN sent \in SUBSET Nat
        BY ConversationType
    <2> QED BY <2>1 DEF Alike
<1>2. \E x \in T : \A y \in T : x <= y
    <2> HIDE DEF T
    <2> QED BY <1>1, LeastNumber
<1>3. \E j \in Intermediate : Alike(j, i) /\ \A h \in Intermediate : Alike(h, i) => j <= h
    BY <1>2
<1>4. /\ FirstEqual(i) \in Intermediate /\ Alike(FirstEqual(i), i)
      /\ \A h \in Intermediate : Alike(h, i) => FirstEqual(i) <= h
    BY <1>3 DEF FirstEqual
<1>5. Alike(i, i)
    BY DEF Alike
<1> QED BY <1>4, <1>5

\* Sorted by that index messages are in order, each of them once.
LEMMA RebuiltSorts ==
    ASSUME sent \in Conversations, Intermediate \in SUBSET (DOMAIN sent),
           NEW S \in SUBSET Intermediate
    PROVE  Rebuilt(S) \in Seq(DOMAIN sent) /\ ToSet(Rebuilt(S)) = S /\ Ordered(Rebuilt(S))
<1> DEFINE R == {p \in S \X S : Precedes(p[1], p[2])}
           n == Cardinality(S)
           s == Rebuilt(S)
<1>1. /\ IsFiniteSet(S) /\ n \in Nat
      /\ \A i \in S : /\ i \in DOMAIN sent /\ i \in Int /\ sent[i].sim \in Int
                      /\ FirstEqual(i) \in DOMAIN sent /\ FirstEqual(i) \in Int
                      /\ Alike(FirstEqual(i), i) /\ FirstEqual(i) <= i
    <2>1. IsFiniteSet(S) /\ n \in Nat
        BY ConversationType, FS_Subset, FS_CardinalityType
    <2>2. ASSUME NEW i \in S
          PROVE  /\ i \in DOMAIN sent /\ i \in Int /\ sent[i].sim \in Int
                 /\ FirstEqual(i) \in DOMAIN sent /\ FirstEqual(i) \in Int
                 /\ Alike(FirstEqual(i), i) /\ FirstEqual(i) <= i
        <3>1. i \in Intermediate
            OBVIOUS
        <3>2. FirstEqual(i) \in Intermediate /\ Alike(FirstEqual(i), i) /\ FirstEqual(i) <= i
            BY <3>1, FirstEqualType
        <3>3. \A x \in Intermediate : x \in DOMAIN sent /\ x \in Int /\ sent[x].sim \in Int
            BY ConversationType
        <3> QED BY <3>1, <3>2, <3>3
    <2> QED BY <2>1, <2>2
<1>2. \A i, j \in S : <<i, j>> \in R <=> Precedes(i, j)
    OBVIOUS
<1> HIDE DEF R
<1>3. Orders(R, S)
    <2>1. \A i \in S : ~Precedes(i, i)
        BY <1>1 DEF Precedes, RanksBefore
    <2>2. \A i, j \in S : i # j => Precedes(i, j) \/ Precedes(j, i)
        BY <1>1 DEF Precedes, RanksBefore
    <2>3. \A h, i, j \in S : Precedes(h, i) /\ Precedes(i, j) => Precedes(h, j)
        BY <1>1 DEF Precedes, RanksBefore
    <2> QED BY <1>2, <2>1, <2>2, <2>3 DEF Orders
<1>4. \A i \in S : Cardinality({j \in S : Precedes(j, i)}) = Rank(R, S, i)
    <2>1. \A i \in S : {j \in S : Precedes(j, i)} = {j \in S : <<j, i>> \in R}
        BY <1>2
    <2> QED BY <2>1 DEF Rank
<1>5. s \in [1..n -> S] /\ \A k \in 1..n : Rank(R, S, s[k]) = k - 1
    <2>1. s = [k \in 1..n |-> CHOOSE i \in S : Cardinality({j \in S : Precedes(j, i)}) = k - 1]
        BY DEF Rebuilt
    <2>2. ASSUME NEW k \in 1..n
          PROVE  s[k] \in S /\ Rank(R, S, s[k]) = k - 1
        <3>1. s[k] = CHOOSE h \in S : Cardinality({j \in S : Precedes(j, h)}) = k - 1
            BY <2>1
        <3>2. PICK i \in S : Rank(R, S, i) = k - 1
            BY <1>1, <1>3, RanksAreTaken
        <3>3. Cardinality({j \in S : Precedes(j, i)}) = k - 1
            BY <1>4, <3>2
        <3>4. s[k] \in S /\ Cardinality({j \in S : Precedes(j, s[k])}) = k - 1
            BY <3>1, <3>3
        <3> QED BY <1>4, <3>4
    <2> QED BY <2>1, <2>2
<1> HIDE DEF s
<1>6. /\ \A k, l \in 1..n : k < l => <<s[k], s[l]>> \in R
      /\ \A i \in S : \E k \in 1..n : s[k] = i
    <2>1. IsFiniteSet(S) /\ n \in Nat
        BY <1>1
    <2> QED BY <1>3, <1>5, <2>1, RanksSort
<1> HIDE DEF n
<1>7. s \in Seq(S) /\ DOMAIN s = 1..n
    BY <1>1, <1>5
<1>8. s \in Seq(DOMAIN sent)
    BY <1>1, <1>7, SeqMonotonic
<1>9. ToSet(s) = S
    BY <1>5, <1>6, <1>7 DEF ToSet
<1>10. Ordered(s)
    <2> SUFFICES ASSUME NEW k \in 1..n, NEW l \in 1..n, k < l
                 PROVE  s[k] # s[l] /\ \E i \in DOMAIN sent : i <= s[l] /\ Alike(i, s[k])
        BY <1>7 DEF Ordered
    <2>1. s[k] \in S /\ s[l] \in S /\ <<s[k], s[l]>> \in R
        BY <1>5, <1>6
    <2>2. s[k] # s[l]
        BY <1>3, <2>1 DEF Orders
    <2>3. FirstEqual(s[k]) <= FirstEqual(s[l])
        <3>1. Precedes(s[k], s[l])
            BY <1>2, <2>1
        <3>2. FirstEqual(s[k]) \in Int /\ FirstEqual(s[l]) \in Int
            BY <1>1, <2>1
        <3> QED BY <3>1, <3>2 DEF Precedes
    <2>4. FirstEqual(s[k]) <= s[l]
        BY <1>1, <2>1, <2>3
    <2> QED BY <1>1, <2>1, <2>2, <2>4
<1> QED BY <1>8, <1>9, <1>10 DEF s

\* The characters that are left of a message, the fewer the more is optimized.
LEMMA CharsType ==
    ASSUME sent \in Conversations, NEW C, NEW D \in SUBSET C
    PROVE  \A i \in DOMAIN sent :
                CharsIn(i, C) \in Nat /\ CharsIn(i, D) \in Nat /\ CharsIn(i, C) <= CharsIn(i, D)
BY ConversationType DEF CharsIn

\* AllPlaces is the whole conversation.
LEMMA AllPlacesType ==
    ASSUME sent \in Conversations
    PROVE  /\ AllPlaces \in Seq(DOMAIN sent) /\ AllPlaces # <<>> /\ Increasing(AllPlaces)
           /\ Len(AllPlaces) = Len(sent) /\ DOMAIN AllPlaces = DOMAIN sent
           /\ \A i \in DOMAIN sent : AllPlaces[i] = i
<1>1. Len(sent) \in Nat \ {0} /\ DOMAIN sent = 1..Len(sent)
    BY ConversationType
<1>2. AllPlaces = [i \in 1..Len(sent) |-> i]
    BY <1>1 DEF AllPlaces
<1>3. AllPlaces \in Seq(1..Len(sent)) /\ Len(AllPlaces) = Len(sent)
    BY <1>1, <1>2
<1>4. AllPlaces # <<>>
    BY <1>1, <1>3
<1> QED BY <1>1, <1>2, <1>3, <1>4 DEF Increasing

\* The length of the text with its separators is a sum over the messages.
LEMMA LengthIsSum ==
    ASSUME sent \in Conversations, NEW ms \in Seq(DOMAIN sent), ms # <<>>, NEW C
    PROVE  /\ SumFunctionOnSet([k \in DOMAIN ms |-> CharsIn(ms[k], C) + 1], DOMAIN ms)
                = TextLength(ms, C) + 1
           /\ TextLength(ms, C) \in Nat
<1> DEFINE f == [k \in DOMAIN ms |-> CharsIn(ms[k], C)]
           g == [k \in DOMAIN ms |-> 1]
           h == [k \in DOMAIN ms |-> CharsIn(ms[k], C) + 1]
           n == Len(ms)
<1>1. n \in Nat \ {0} /\ DOMAIN ms = 1..n /\ \A k \in DOMAIN ms : ms[k] \in DOMAIN sent
    BY EmptySeq, LenProperties, ElementOfSeq
<1>2. IsFiniteSet(DOMAIN ms) /\ Cardinality(DOMAIN ms) = n
    <2>1. 1 \in Int /\ n \in Int /\ ~(1 > n) /\ n - 1 + 1 = n
        BY <1>1
    <2>2. IsFiniteSet(1..n) /\ Cardinality(1..n) = IF 1 > n THEN 0 ELSE n - 1 + 1
        BY <2>1, FS_Interval
    <2> QED BY <1>1, <2>1, <2>2
<1>3. \A k \in DOMAIN ms : CharsIn(ms[k], C) \in Nat
    <2>1. C \in SUBSET C
        OBVIOUS
    <2> QED BY <1>1, <2>1, CharsType
<1>4. \A k \in DOMAIN ms : f[k] \in Nat /\ f[k] \in Int /\ g[k] \in Int /\ g[k] = 1 /\ h[k] = f[k] + g[k]
    BY <1>3
<1>5. TextLength(ms, C) = SumFunctionOnSet(f, DOMAIN ms) + n - 1
    BY DEF TextLength
<1> HIDE DEF f, g, h, n
<1>6. SumFunctionOnSet(h, DOMAIN ms) = SumFunctionOnSet(f, DOMAIN ms) + SumFunctionOnSet(g, DOMAIN ms)
    BY <1>2, <1>4, SumOfSum
<1>7. SumFunctionOnSet(g, DOMAIN ms) = n
    BY <1>2, <1>4, SumOfOnes
<1>8. SumFunctionOnSet(f, DOMAIN ms) \in Nat
    BY <1>2, <1>4, SumType
<1>9. TextLength(ms, C) \in Nat /\ SumFunctionOnSet(h, DOMAIN ms) = TextLength(ms, C) + 1
    BY <1>1, <1>5, <1>6, <1>7, <1>8
<1> QED BY <1>9 DEF h

\* The sum of one number.
LEMMA SumOfOne ==
    ASSUME NEW f, NEW S, NEW x, S = {x}, f[x] \in Int
    PROVE  SumFunctionOnSet(f, S) = f[x]
<1>1. IsFiniteSet(S) /\ x \in S /\ S \ {x} = {} /\ \A y \in S : f[y] \in Int
    BY FS_Singleton
<1>2. SumFunctionOnSet(f, S) = f[x] + SumFunctionOnSet(f, S \ {x})
    BY <1>1, SumWithout
<1> QED BY <1>1, <1>2, SumEmpty

\* Fewer messages, and more of them optimized, are not longer.
LEMMA PartIsShorter ==
    ASSUME sent \in Conversations, NEW ms \in Seq(DOMAIN sent), ms # <<>>, Ordered(ms),
           NEW C, NEW D \in SUBSET C
    PROVE  TextLength(ms, C) <= TextLength(AllPlaces, D)
<1> DEFINE S == DOMAIN ms
           K == DOMAIN sent
           h == [k \in S |-> CharsIn(ms[k], C) + 1]
           Group(i) == {k \in S : ms[k] = i}
           inner == [i \in K |-> SumFunctionOnSet(h, Group(i))]
           H == [k \in DOMAIN AllPlaces |-> CharsIn(AllPlaces[k], D) + 1]
<1>1. /\ Len(ms) \in Nat /\ S = 1..Len(ms) /\ \A k \in S : ms[k] \in K
      /\ IsFiniteSet(K) /\ K = 1..Len(sent)
    BY LenProperties, ElementOfSeq, ConversationType
<1>2. IsFiniteSet(S)
    BY <1>1, FS_Interval
<1>3. \A i \in K : CharsIn(i, C) \in Nat /\ CharsIn(i, D) \in Nat /\ CharsIn(i, C) <= CharsIn(i, D)
    BY CharsType
<1>4. \A k \in S : h[k] \in Nat /\ h[k] \in Int /\ h[k] = CharsIn(ms[k], C) + 1
    BY <1>1, <1>3
<1>5. \A i \in K : H[i] \in Nat /\ H[i] = CharsIn(i, D) + 1
    BY <1>3, AllPlacesType
<1>6. \A k, l \in S : ms[k] = ms[l] => k = l
    <2>1. \A k \in S : k \in Int
        BY <1>1
    <2> QED BY <2>1 DEF Ordered
<1> HIDE DEF h, H
<1>7. \A i \in K : inner[i] \in Int /\ inner[i] <= H[i]
    <2> SUFFICES ASSUME NEW i \in K PROVE inner[i] \in Int /\ inner[i] <= H[i]
        OBVIOUS
    <2>1. inner[i] = SumFunctionOnSet(h, Group(i))
        OBVIOUS
    <2>2. CASE Group(i) = {}
        <3>1. inner[i] = 0
            BY <2>1, <2>2, SumEmpty
        <3> HIDE DEF inner
        <3> QED BY <1>5, <3>1
    <2>3. CASE Group(i) # {}
        <3>1. PICK k \in S : ms[k] = i
            BY <2>3
        <3>2. Group(i) = {k}
            BY <1>6, <3>1
        <3>3. SumFunctionOnSet(h, Group(i)) = h[k]
            BY <1>4, <3>2, SumOfOne
        <3> QED BY <1>3, <1>4, <1>5, <2>1, <3>1, <3>3
    <2> QED BY <2>2, <2>3
<1>8. SumFunctionOnSet(inner, K) = SumFunctionOnSet(h, S)
    <2>1. \A k \in S : ms[k] \in K /\ h[k] \in Nat
        BY <1>1, <1>4
    <2>2. IsFiniteSet(K)
        BY <1>1
    <2> HIDE DEF S, K
    <2>3. SumFunctionOnSet([i \in K |-> SumFunctionOnSet(h, {k \in S : ms[k] = i})], K)
            = SumFunctionOnSet(h, S)
        BY <1>2, <2>1, <2>2, SumOfGroups
    <2> QED BY <2>3
<1>9. SumFunctionOnSet(inner, K) <= SumFunctionOnSet(H, K)
    <2>1. K \in SUBSET K /\ \A i \in K : H[i] \in Int
        BY <1>5
    <2> HIDE DEF inner
    <2> QED BY <1>1, <1>7, <2>1, SumMonotone
<1>10. SumFunctionOnSet(h, S) = TextLength(ms, C) + 1 /\ TextLength(ms, C) \in Nat
    BY LengthIsSum DEF h
<1>11. SumFunctionOnSet(H, K) = TextLength(AllPlaces, D) + 1 /\ TextLength(AllPlaces, D) \in Nat
    BY AllPlacesType, LengthIsSum DEF H
<1> QED BY <1>8, <1>9, <1>10, <1>11

\* Tokens are counted by four characters.
LEMMA TokensType ==
    ASSUME NEW a \in Nat, NEW b \in Nat
    PROVE  /\ a \div 4 \in Nat /\ 4 * (a \div 4) <= a /\ a <= 4 * (a \div 4) + 3
           /\ (a <= b => a \div 4 <= b \div 4)
OBVIOUS

-----------------------------------------------------------------------------
(* The inductive invariant.                                                *)

\* What ConversationKept says of the messages that are left.
Kept == messages # <<>> /\ EndsKept /\ OrderKept /\ RelevantKept

\* Until they are trimmed the messages are those of the client, and what is claimed to be
\* saved was removed from their text.
StageInv ==
    /\ pc \in {"optimize", "trim", "embed"} =>
        /\ messages = AllPlaces
        /\ 4 * saved <= TextLength(AllPlaces, {}) - TextLength(messages, compressed)
    /\ pc = "embed" => Len(messages) > 4

\* A model was chosen before its price was looked up, and the estimate is still that of
\* the messages that are left.
CostInv ==
    /\ pc \in {"predict", "budget", "send", "sent", "done", "failed"} => Predicted \in Catalog
    /\ pc \notin {"send", "sent", "done", "failed"} => original = NoEstimate
    /\ pc \in {"optimize", "trim", "embed", "route", "predict", "refused"} => estimate = NoEstimate
    /\ estimate # NoEstimate => estimate = PredictedCost(messages, compressed, Predicted)
    /\ pc \notin {"sent", "done", "failed"} => payload = NoEstimate
    /\ pc # "done" => reply = NoEstimate

IInv == TypeOK /\ StageInv /\ CostInv /\ Kept /\ SentAsLeft /\ SavingsReal

\* The operators on the messages depend on the messages only.
LEMMA SameLength ==
    ASSUME UNCHANGED <<sent, messages, compressed>>
    PROVE  /\ TextLength(messages, compressed)' = TextLength(messages, compressed)
           /\ AllPlaces' = AllPlaces
           /\ TextLength(AllPlaces, {})' = TextLength(AllPlaces, {})
           /\ Tokens(messages, compressed)' = Tokens(messages, compressed)
BY DEF TextLength, CharsIn, AllPlaces, Tokens

LEMMA SameOrder ==
    ASSUME UNCHANGED <<sent, compressed>>, Ordered(messages')
    PROVE  OrderKept'
<1>1. \A i, j : Alike(i, j)' = Alike(i, j)
    BY DEF Alike, Content
<1> QED BY <1>1 DEF OrderKept, Ordered

LEMMA SameRest ==
    ASSUME UNCHANGED <<sent, messages>>, Kept
    PROVE  EndsKept' /\ RelevantKept' /\ messages' # <<>>
<1>1. RelevantKept'
    BY DEF Kept, RelevantKept, HasSystem, Left, ToSet
<1>2. EndsKept'
    BY DEF Kept, EndsKept, HasSystem
<1> QED BY <1>1, <1>2 DEF Kept

LEMMA SameKept ==
    ASSUME UNCHANGED <<sent, messages, compressed>>, Kept
    PROVE  Kept'
<1>1. OrderKept'
    <2>1. Ordered(messages')
        BY DEF Kept, OrderKept, Ordered
    <2> QED BY <2>1, SameOrder
<1>2. EndsKept' /\ RelevantKept' /\ messages' # <<>>
    BY SameRest
<1> QED BY <1>1, <1>2 DEF Kept

LEMMA SameSent ==
    ASSUME UNCHANGED <<sent, messages, payload>>, SentAsLeft
    PROVE  SentAsLeft'
BY DEF SentAsLeft, HasSystem, Left, ToSet

\* A conversation as it is is kept.
LEMMA WholeIsKept ==
    ASSUME sent \in Conversations, messages = AllPlaces
    PROVE  Kept
<1>1. /\ Len(sent) \in Nat \ {0} /\ DOMAIN sent = 1..Len(sent)
      /\ IsFiniteSet(DOMAIN sent) /\ Cardinality(DOMAIN sent) = Len(sent)
    BY ConversationType
<1>2. /\ messages # <<>> /\ Increasing(messages)
      /\ Len(messages) = Len(sent) /\ DOMAIN messages = DOMAIN sent
      /\ \A i \in DOMAIN sent : messages[i] = i
    BY AllPlacesType
<1>3. OrderKept
    <2>1. Ordered(AllPlaces)
        BY AllPlacesType, IncreasingIsOrdered
    <2> QED BY <2>1 DEF OrderKept, Ordered
<1>4. EndsKept
    <2> DEFINE chat == {i \in DOMAIN sent : i > 1 \/ ~HasSystem}
               n == IF Cardinality(chat) < 3 THEN Cardinality(chat) ELSE 3
    <2>1. Cardinality(chat) \in Nat /\ Cardinality(chat) <= Len(sent)
        BY <1>1, FS_Subset, FS_CardinalityType
    <2>2. n \in Nat /\ n <= Len(sent)
        BY <1>1, <2>1
    <2>3. messages[1] = 1
        BY <1>1, <1>2
    <2> HIDE DEF n
    <2>4. \A k \in 0..(n - 1) : messages[Len(messages) - k] = Len(sent) - k
        <3> SUFFICES ASSUME NEW k \in 0..(n - 1)
                     PROVE  messages[Len(messages) - k] = Len(sent) - k
            OBVIOUS
        <3>1. Len(sent) - k \in DOMAIN sent
            BY <1>1, <2>2
        <3> QED BY <1>2, <3>1
    <2> QED BY <1>2, <2>2, <2>3, <2>4 DEF EndsKept, n
<1>5. RelevantKept
    <2>1. DOMAIN sent \ Left = {}
        BY <1>2 DEF Left, ToSet
    <2> QED BY <2>1 DEF RelevantKept
<1> QED BY <1>2, <1>3, <1>4, <1>5 DEF Kept

LEMMA InitIInv == Init => IInv
<1> SUFFICES ASSUME Init PROVE IInv
    OBVIOUS
<1>1. sent \in Conversations /\ messages = AllPlaces
    BY DEF Init
<1>2. AllPlaces \in Seq(DOMAIN sent) /\ AllPlaces # <<>>
    BY <1>1, AllPlacesType
<1>3. TypeOK
    BY <1>2 DEF Init, TypeOK
<1>4. TextLength(AllPlaces, {}) \in Nat /\ compressed = {} /\ saved = 0
    BY <1>1, <1>2, LengthIsSum DEF Init
<1>5. StageInv
    <2>1. 4 * saved <= TextLength(AllPlaces, {}) - TextLength(AllPlaces, {})
        BY <1>4
    <2> QED BY <1>1, <1>4, <2>1 DEF StageInv, Init
<1>6. CostInv
    BY DEF Init, CostInv
<1>7. SavingsReal
    BY <1>1, <1>4 DEF SavingsReal
<1>8. SentAsLeft
    BY DEF SentAsLeft, Init
<1> QED BY <1>1, <1>3, <1>5, <1>6, <1>7, <1>8, WholeIsKept DEF IInv

-----------------------------------------------------------------------------
(* The optimizer claims what it has removed.                               *)

LEMMA OptimizedIsGone ==
    ASSUME sent \in Conversations
    PROVE  LET claimed == SumFunctionOnSet([i \in Compressible |-> SavedOf(i)], Compressible)
           IN  /\ claimed \in Nat
               /\ 4 * claimed <= TextLength(AllPlaces, {}) - TextLength(AllPlaces, Compressible)
<1> DEFINE K == DOMAIN sent
           C == Compressible
           H(D) == [k \in DOMAIN AllPlaces |-> CharsIn(AllPlaces[k], D) + 1]
           H0 == H({})
           H1 == H(C)
           claims == [i \in C |-> SavedOf(i)]
           four == [i \in C |-> 4 * SavedOf(i)]
           gone == [i \in K |-> IF i \in C THEN sent[i].excess + sent[i].edge ELSE 0]
<1>1. IsFiniteSet(K) /\ DOMAIN AllPlaces = K /\ \A i \in K : AllPlaces[i] = i
    BY ConversationType, AllPlacesType
<1>2. C \in SUBSET K /\ C \subseteq K
    BY DEF Compressible
<1>3. \A i \in K : /\ sent[i].chars \in Nat /\ sent[i].excess \in Nat /\ sent[i].edge \in Nat
                   /\ sent[i].excess + sent[i].edge <= sent[i].chars
    BY ConversationType
<1>4. \A i \in C : /\ claims[i] \in Nat /\ claims[i] \in Int /\ four[i] \in Int
                   /\ four[i] = 4 * claims[i] /\ four[i] <= gone[i]
    <2> SUFFICES ASSUME NEW i \in C
                 PROVE  /\ claims[i] \in Nat /\ claims[i] \in Int /\ four[i] \in Int
                        /\ four[i] = 4 * claims[i] /\ four[i] <= gone[i]
        OBVIOUS
    <2>1. sent[i].excess \in Nat /\ sent[i].edge \in Nat /\ i \in K
        BY <1>2, <1>3
    <2>2. /\ sent[i].excess \div 4 \in Nat
          /\ 4 * (sent[i].excess \div 4) <= sent[i].excess
        BY <2>1, TokensType
    <2>3. claims[i] = sent[i].excess \div 4 /\ four[i] = 4 * (sent[i].excess \div 4)
        BY DEF SavedOf
    <2>4. gone[i] = sent[i].excess + sent[i].edge
        BY <2>1
    <2> HIDE DEF claims, four, gone
    <2> QED BY <2>1, <2>2, <2>3, <2>4
<1>5. \A i \in K : gone[i] \in Int /\ gone[i] >= 0
    BY <1>3
<1>6. \A i \in K : H1[i] \in Int /\ H0[i] = H1[i] + gone[i]
    BY <1>1, <1>3 DEF CharsIn
<1>7. SumFunctionOnSet(H0, K) = TextLength(AllPlaces, {}) + 1 /\ TextLength(AllPlaces, {}) \in Nat
    BY <1>1, AllPlacesType, LengthIsSum
<1>8. SumFunctionOnSet(H1, K) = TextLength(AllPlaces, C) + 1 /\ TextLength(AllPlaces, C) \in Nat
    BY <1>1, AllPlacesType, LengthIsSum
<1> HIDE DEF H0, H1, claims, four, gone, C
<1>9. SumFunctionOnSet(H0, K) = SumFunctionOnSet(H1, K) + SumFunctionOnSet(gone, K)
    BY <1>1, <1>5, <1>6, SumOfSum
<1>10. IsFiniteSet(C)
    BY <1>1, <1>2, FS_Subset
<1>11. SumFunctionOnSet(four, C) = 4 * SumFunctionOnSet(claims, C)
    BY <1>4, <1>10, SumTimes
<1>12. SumFunctionOnSet(claims, C) \in Nat
    BY <1>4, <1>10, SumType
<1>13. SumFunctionOnSet(four, C) <= SumFunctionOnSet(gone, K)
    BY <1>1, <1>2, <1>4, <1>5, SumMonotone
<1>14. SumFunctionOnSet(gone, K) \in Int
    BY <1>1, <1>5, SumIsInt
<1>15. /\ SumFunctionOnSet(claims, C) \in Nat
       /\ 4 * SumFunctionOnSet(claims, C) <= TextLength(AllPlaces, {}) - TextLength(AllPlaces, C)
    BY <1>7, <1>8, <1>9, <1>11, <1>12, <1>13, <1>14
<1> QED BY <1>15 DEF claims, C

-----------------------------------------------------------------------------
(* The trimmer.                                                            *)

\* Two parts of the conversation, one after the other.
LEMMA Joined ==
    ASSUME sent \in Conversations,
           NEW s \in Seq(DOMAIN sent), NEW t \in Seq(DOMAIN sent), Ordered(s), Ordered(t),
           \A a \in ToSet(s), b \in ToSet(t) : a < b
    PROVE  /\ s \o t \in Seq(DOMAIN sent) /\ Ordered(s \o t)
           /\ ToSet(s \o t) = ToSet(s) \cup ToSet(t)
           /\ Len(s \o t) = Len(s) + Len(t)
           /\ Len(s) > 0 => (s \o t)[1] = s[1]
           /\ \A k \in 0..(Len(t) - 1) : (s \o t)[Len(s) + Len(t) - k] = t[Len(t) - k]
<1> DEFINE u == s \o t
           m == Len(s)
           n == Len(t)
<1>1. m \in Nat /\ n \in Nat /\ DOMAIN s = 1..m /\ DOMAIN t = 1..n
    BY LenProperties
<1>2. u \in Seq(DOMAIN sent) /\ Len(u) = m + n /\ DOMAIN u = 1..(m + n)
    BY ConcatProperties, LenProperties
<1>3. \A i \in 1..(m + n) : u[i] = IF i <= m THEN s[i] ELSE t[i - m]
    BY ConcatProperties
<1>4. /\ \A i \in 1..m : s[i] \in DOMAIN sent /\ s[i] \in Int /\ s[i] \in ToSet(s)
      /\ \A i \in 1..n : t[i] \in DOMAIN sent /\ t[i] \in Int /\ t[i] \in ToSet(t)
    <2>1. /\ \A i \in 1..m : s[i] \in DOMAIN sent /\ s[i] \in ToSet(s)
          /\ \A i \in 1..n : t[i] \in DOMAIN sent /\ t[i] \in ToSet(t)
        BY <1>1, ElementOfSeq DEF ToSet
    <2>2. \A x \in DOMAIN sent : x \in Int
        BY ConversationType
    <2> QED BY <2>1, <2>2
<1> HIDE DEF u, m, n
<1>5. Ordered(u)
    <2> SUFFICES ASSUME NEW k \in 1..(m + n), NEW l \in 1..(m + n), k < l
                 PROVE  u[k] # u[l] /\ \E i \in DOMAIN sent : i <= u[l] /\ Alike(i, u[k])
        BY <1>2 DEF Ordered
    <2>1. k \in Int /\ l \in Int
        BY <1>1
    <2>2. CASE l <= m
        <3>1. u[k] = s[k] /\ u[l] = s[l] /\ k \in DOMAIN s /\ l \in DOMAIN s
            BY <1>1, <1>3, <2>1, <2>2
        <3> QED BY <3>1 DEF Ordered
    <2>3. CASE k > m
        <3>1. u[k] = t[k - m] /\ u[l] = t[l - m] /\ k - m \in DOMAIN t /\ l - m \in DOMAIN t
                /\ k - m < l - m
            BY <1>1, <1>3, <2>1, <2>3
        <3> QED BY <3>1 DEF Ordered
    <2>4. CASE k <= m /\ l > m
        <3>1. u[k] = s[k] /\ u[l] = t[l - m] /\ k \in 1..m /\ l - m \in 1..n
            BY <1>1, <1>3, <2>1, <2>4
        <3>2. s[k] < t[l - m] /\ s[k] \in Int /\ t[l - m] \in Int /\ s[k] \in DOMAIN sent
            BY <1>4, <3>1
        <3>3. s[k] # t[l - m] /\ s[k] <= t[l - m]
            BY <3>2
        <3>4. Alike(s[k], s[k])
            BY DEF Alike
        <3> QED BY <3>1, <3>2, <3>3, <3>4
    <2> QED BY <1>1, <2>1, <2>2, <2>3, <2>4
<1>6. ToSet(u) = ToSet(s) \cup ToSet(t)
    <2>1. \A x \in ToSet(u) : x \in ToSet(s) \cup ToSet(t)
        <3> SUFFICES ASSUME NEW i \in 1..(m + n) PROVE u[i] \in ToSet(s) \cup ToSet(t)
            BY <1>2 DEF ToSet
        <3>1. CASE i <= m
            BY <1>1, <1>3, <1>4, <3>1
        <3>2. CASE i > m
            <4>1. i - m \in 1..n /\ u[i] = t[i - m]
                BY <1>1, <1>3, <3>2
            <4> QED BY <1>4, <4>1
        <3> QED BY <1>1, <3>1, <3>2
    <2>2. \A x \in ToSet(s) : x \in ToSet(u)
        <3> SUFFICES ASSUME NEW i \in 1..m PROVE s[i] \in ToSet(u)
            BY <1>1 DEF ToSet
        <3>1. i \in DOMAIN u /\ u[i] = s[i]
            BY <1>1, <1>2, <1>3
        <3> QED BY <3>1 DEF ToSet
    <2>3. \A x \in ToSet(t) : x \in ToSet(u)
        <3> SUFFICES ASSUME NEW i \in 1..n PROVE t[i] \in ToSet(u)
            BY <1>1 DEF ToSet
        <3>1. i + m \in DOMAIN u /\ u[i + m] = t[i]
            BY <1>1, <1>2, <1>3
        <3> QED BY <3>1 DEF ToSet
    <2> QED BY <2>1, <2>2, <2>3
<1>7. m > 0 => u[1] = s[1]
    BY <1>1, <1>3
<1>8. \A k \in 0..(n - 1) : u[m + n - k] = t[n - k]
    <2> SUFFICES ASSUME NEW k \in 0..(n - 1) PROVE u[m + n - k] = t[n - k]
        OBVIOUS
    <2>1. m + n - k \in 1..(m + n) /\ ~(m + n - k <= m) /\ (m + n - k) - m = n - k
        BY <1>1
    <2> QED BY <1>3, <2>1
<1> QED BY <1>2, <1>5, <1>6, <1>7, <1>8 DEF u, m, n

\* How many messages stand before the chat.
Offset == IF HasSystem THEN 1 ELSE 0

\* The chat is what follows the system prompt.
LEMMA ChatType ==
    ASSUME sent \in Conversations, messages = AllPlaces
    PROVE  /\ ChatHistory \in Seq(DOMAIN sent) /\ Len(ChatHistory) = Len(sent) - Offset
           /\ \A k \in 1..(Len(sent) - Offset) : ChatHistory[k] = Offset + k
           /\ Offset \in 0..1 /\ Len(sent) \in Nat \ {0} /\ DOMAIN sent = 1..Len(sent)
<1> DEFINE n == Len(sent)
<1>1. n \in Nat \ {0} /\ DOMAIN sent = 1..n
    BY ConversationType
<1>2. Len(messages) = n /\ \A i \in 1..n : messages[i] = i
    BY <1>1, AllPlacesType
<1>3. Offset \in 0..1
    BY DEF Offset
<1>4. ChatHistory = SubSeq(messages, Offset + 1, n)
    BY <1>2 DEF ChatHistory, Offset
<1> HIDE DEF n
<1>5. /\ Offset + 1 \in Int /\ n \in Int
      /\ \A i \in (Offset + 1)..n : messages[i] \in DOMAIN sent /\ messages[i] = i
    BY <1>1, <1>2, <1>3
<1>6. /\ ChatHistory \in Seq(DOMAIN sent)
      /\ Len(ChatHistory) = IF Offset + 1 <= n THEN n - (Offset + 1) + 1 ELSE 0
      /\ \A i \in 1..(n - (Offset + 1) + 1) : ChatHistory[i] = messages[(Offset + 1) + i - 1]
    BY <1>4, <1>5, SubSeqProperties
<1>7. Len(ChatHistory) = n - Offset
    BY <1>1, <1>3, <1>6
<1>8. \A k \in 1..(n - Offset) : ChatHistory[k] = Offset + k
    <2> SUFFICES ASSUME NEW k \in 1..(n - Offset) PROVE ChatHistory[k] = Offset + k
        OBVIOUS
    <2>1. k \in 1..(n - (Offset + 1) + 1) /\ Offset + k = (Offset + 1) + k - 1
            /\ Offset + k \in 1..n
        BY <1>1, <1>3
    <2>2. messages[Offset + k] = Offset + k
        BY <1>2, <2>1
    <2>3. ChatHistory[k] = messages[(Offset + 1) + k - 1]
        BY <1>6, <2>1
    <2> QED BY <2>1, <2>2, <2>3
<1>9. ChatHistory \in Seq(DOMAIN sent)
    BY <1>6
<1> QED BY <1>1, <1>3, <1>7, <1>8, <1>9 DEF n

\* Its latest messages are the latest ones of the conversation.
LEMMA LatestType ==
    ASSUME sent \in Conversations, messages = AllPlaces, NEW t \in Nat \ {0},
           t <= Len(sent) - Offset
    PROVE  /\ Latest(ChatHistory, t) \in Seq(DOMAIN sent)
           /\ Len(Latest(ChatHistory, t)) = t
           /\ \A k \in 1..t : Latest(ChatHistory, t)[k] = Len(sent) - t + k
           /\ Increasing(Latest(ChatHistory, t))
           /\ ToSet(Latest(ChatHistory, t)) = (Len(sent) - t + 1)..Len(sent)
<1> DEFINE n == Len(sent)
           c == ChatHistory
           m == n - Offset
           e == Latest(c, t)
<1>1. /\ c \in Seq(DOMAIN sent) /\ Len(c) = m /\ \A k \in 1..m : c[k] = Offset + k
      /\ Offset \in 0..1 /\ n \in Nat \ {0} /\ DOMAIN sent = 1..n
    BY ChatType
<1>2. e = SubSeq(c, m - t + 1, m)
    <2>1. Len(c) = m /\ m \in Int /\ t <= m
        BY <1>1
    <2>2. e = SubSeq(c, IF Len(c) > t THEN Len(c) - t + 1 ELSE 1, Len(c))
        BY DEF Latest
    <2> HIDE DEF m, c, e
    <2>3. (IF m > t THEN m - t + 1 ELSE 1) = m - t + 1
        BY <2>1
    <2> QED BY <2>1, <2>2, <2>3
<1>3. \A k \in 1..m : c[k] \in DOMAIN sent
    BY <1>1, ElementOfSeq
<1>4. m \in Int /\ t <= m
    BY <1>1
<1> HIDE DEF c, e, m, n
<1>5. m - t + 1 \in Int /\ \A i \in (m - t + 1)..m : c[i] \in DOMAIN sent
    BY <1>3, <1>4
<1>6. /\ e \in Seq(DOMAIN sent)
      /\ Len(e) = IF m - t + 1 <= m THEN m - (m - t + 1) + 1 ELSE 0
      /\ \A i \in 1..(m - (m - t + 1) + 1) : e[i] = c[(m - t + 1) + i - 1]
    BY <1>2, <1>4, <1>5, SubSeqProperties
<1>7. Len(e) = t /\ DOMAIN e = 1..t
    BY <1>4, <1>6, LenProperties
<1>8. \A k \in 1..t : e[k] = n - t + k
    <2> SUFFICES ASSUME NEW k \in 1..t PROVE e[k] = n - t + k
        OBVIOUS
    <2>1. k \in 1..(m - (m - t + 1) + 1) /\ (m - t + 1) + k - 1 = m - t + k /\ m - t + k \in 1..m
        BY <1>4
    <2>2. e[k] = Offset + (m - t + k)
        BY <1>1, <1>6, <2>1
    <2>3. Offset + (m - t + k) = n - t + k
        BY <1>1 DEF m
    <2> QED BY <2>2, <2>3
<1>9. Increasing(e)
    BY <1>1, <1>7, <1>8 DEF Increasing
<1>10. ToSet(e) = (n - t + 1)..n
    <2>1. \A x \in ToSet(e) : x \in (n - t + 1)..n
        BY <1>1, <1>7, <1>8 DEF ToSet
    <2>2. \A x \in (n - t + 1)..n : x \in ToSet(e)
        <3> SUFFICES ASSUME NEW x \in (n - t + 1)..n PROVE x \in ToSet(e)
            OBVIOUS
        <3>1. x - (n - t) \in 1..t /\ n - t + (x - (n - t)) = x
            BY <1>1
        <3>2. e[x - (n - t)] = x
            BY <1>8, <3>1
        <3> QED BY <1>7, <3>1, <3>2 DEF ToSet
    <2> QED BY <2>1, <2>2
<1> QED BY <1>6, <1>7, <1>8, <1>9, <1>10 DEF c, e, n

\* The system prompt is the first message, or there is none.
LEMMA SystemType ==
    ASSUME sent \in Conversations
    PROVE  /\ SystemPrompt \in Seq(DOMAIN sent) /\ Increasing(SystemPrompt)
           /\ ToSet(SystemPrompt) = 1..Offset
           /\ HasSystem => Len(SystemPrompt) = 1 /\ SystemPrompt[1] = 1
<1>1. 1 \in DOMAIN sent
    BY ConversationType
<1>2. CASE HasSystem
    <2>1. SystemPrompt = <<1>> /\ Offset = 1
        BY <1>2 DEF SystemPrompt, Offset
    <2>2. ToSet(<<1>>) = 1..1
        BY DEF ToSet
    <2> QED BY <1>1, <2>1, <2>2 DEF Increasing
<1>3. CASE ~HasSystem
    <2>1. SystemPrompt = <<>> /\ Offset = 0
        BY <1>3 DEF SystemPrompt, Offset
    <2>2. ToSet(<<>>) = 1..0
        BY DEF ToSet
    <2> QED BY <1>3, <2>1, <2>2 DEF Increasing
<1> QED BY <1>2, <1>3

\* What stands between the system prompt and the essential messages.
LEMMA IntermediateType ==
    ASSUME sent \in Conversations, messages = AllPlaces, Len(messages) > 4
    PROVE  /\ Len(sent) > 4 /\ Len(sent) \in Nat /\ DOMAIN sent = 1..Len(sent) /\ Offset \in 0..1
           /\ Intermediate = (Offset + 1)..(Len(sent) - 3)
           /\ IsFiniteSet(Intermediate) /\ Retained \subseteq Intermediate
<1> DEFINE n == Len(sent)
<1>1. /\ Len(ChatHistory) = n - Offset /\ Offset \in 0..1 /\ n \in Nat /\ DOMAIN sent = 1..n
      /\ \A k \in 1..(n - Offset) : ChatHistory[k] = Offset + k
    BY ChatType
<1>2. n > 4
    BY AllPlacesType
<1> HIDE DEF n
<1>3. Intermediate = {ChatHistory[k] : k \in 1..(n - Offset - 3)}
    BY <1>1 DEF Intermediate
<1>4. \A k \in 1..(n - Offset - 3) : k \in 1..(n - Offset) /\ ChatHistory[k] = Offset + k
    BY <1>1
<1>5. Intermediate = (Offset + 1)..(n - 3)
    <2>1. \A x \in Intermediate : x \in (Offset + 1)..(n - 3)
        BY <1>1, <1>3, <1>4
    <2>2. \A x \in (Offset + 1)..(n - 3) : x \in Intermediate
        <3> SUFFICES ASSUME NEW x \in (Offset + 1)..(n - 3) PROVE x \in Intermediate
            OBVIOUS
        <3>1. x - Offset \in 1..(n - Offset - 3) /\ Offset + (x - Offset) = x
            BY <1>1
        <3> QED BY <1>3, <1>4, <3>1
    <2> QED BY <2>1, <2>2
<1>6. IsFiniteSet(Intermediate)
    <2>1. Offset + 1 \in Int /\ n - 3 \in Int
        BY <1>1
    <2>2. IsFiniteSet((Offset + 1)..(n - 3))
        BY <2>1, FS_Interval
    <2> QED BY <1>5, <2>2
<1>7. Retained \subseteq Intermediate
    BY DEF Retained
<1> QED BY <1>1, <1>2, <1>5, <1>6, <1>7 DEF n

\* The retained messages are not less similar than the others.
LEMMA RetainedAreNearest ==
    ASSUME sent \in Conversations, messages = AllPlaces, Len(messages) > 4,
           NEW i \in Intermediate \ Retained, NEW j \in Retained
    PROVE  sent[j].sim >= sent[i].sim
<1> DEFINE Ahead(x) == {y \in Intermediate : RanksBefore(y, x)}
<1> SUFFICES ASSUME ~(sent[j].sim >= sent[i].sim) PROVE FALSE
    OBVIOUS
<1>1. IsFiniteSet(Intermediate) /\ j \in Intermediate /\ \A y \in Intermediate : y \in DOMAIN sent
    <2>1. \A y \in Intermediate : y \in 1..Len(sent)
        BY IntermediateType
    <2> QED BY <2>1, IntermediateType
<1>2. \A y \in Intermediate : sent[y].sim \in Nat
    BY <1>1, ConversationType
<1>3. sent[i].sim > sent[j].sim
    BY <1>1, <1>2
<1>4. Ahead(i) \in SUBSET Ahead(j)
    BY <1>1, <1>2, <1>3 DEF RanksBefore
<1>5. IsFiniteSet(Ahead(j)) /\ IsFiniteSet(Ahead(i))
    BY <1>1, FS_Subset
<1>6. Cardinality(Ahead(i)) <= Cardinality(Ahead(j))
    <2> HIDE DEF Ahead
    <2> QED BY <1>4, <1>5, FS_Subset
<1>7. Cardinality(Ahead(i)) \in Nat /\ Cardinality(Ahead(j)) \in Nat
    BY <1>5, FS_CardinalityType
<1>8. KeepCount \in Int
    <2>1. Cardinality(Intermediate) \in Nat
        BY <1>1, FS_CardinalityType
    <2> QED BY <2>1 DEF KeepCount
<1>9. Cardinality(Ahead(j)) < KeepCount
    BY DEF Retained
<1>10. ~(Cardinality(Ahead(i)) < KeepCount)
    BY DEF Retained
<1> HIDE DEF Ahead
<1> QED BY <1>6, <1>7, <1>8, <1>9, <1>10

\* The essential messages at the end and what is put before them.
LEMMA TrimmedType ==
    ASSUME sent \in Conversations, messages = AllPlaces,
           NEW t \in 3..(Len(sent) - Offset),
           NEW head \in Seq(DOMAIN sent), Ordered(head), ToSet(head) \subseteq 1..(Len(sent) - t),
           HasSystem => Len(head) > 0 /\ head[1] = 1,
           UNCHANGED sent, messages' = head \o Latest(ChatHistory, t)
    PROVE  /\ messages' \in Seq(DOMAIN sent) /\ messages' # <<>> /\ Ordered(messages')
           /\ ToSet(messages') = ToSet(head) \cup (Len(sent) - t + 1)..Len(sent)
           /\ EndsKept'
<1> DEFINE n == Len(sent)
           e == Latest(ChatHistory, t)
           m == head \o e
<1>1. n \in Nat \ {0} /\ Offset \in 0..1 /\ DOMAIN sent = 1..n /\ IsFiniteSet(DOMAIN sent)
    BY ChatType, ConversationType
<1>2. t \in Nat \ {0} /\ t \in Nat /\ t >= 3 /\ t <= n - Offset
    BY <1>1
<1>3. /\ e \in Seq(DOMAIN sent) /\ Len(e) = t /\ Ordered(e)
      /\ \A k \in 1..t : e[k] = n - t + k
      /\ ToSet(e) = (n - t + 1)..n
    <2>1. /\ e \in Seq(DOMAIN sent) /\ Len(e) = t /\ Increasing(e)
          /\ \A k \in 1..t : e[k] = n - t + k
          /\ ToSet(e) = (n - t + 1)..n
        BY <1>2, LatestType
    <2> HIDE DEF e
    <2> QED BY <2>1, IncreasingIsOrdered
<1>4. \A a \in ToSet(head), b \in ToSet(e) : a < b
    <2>1. \A a \in ToSet(head) : a \in 1..(n - t)
        OBVIOUS
    <2> QED BY <1>1, <1>2, <1>3, <2>1
<1> HIDE DEF e
<1>6. /\ m \in Seq(DOMAIN sent) /\ Ordered(m)
      /\ ToSet(m) = ToSet(head) \cup ToSet(e)
      /\ Len(m) = Len(head) + t
      /\ Len(head) > 0 => m[1] = head[1]
      /\ \A k \in 0..(t - 1) : m[Len(head) + t - k] = e[t - k]
    BY <1>3, <1>4, Joined
<1>7. Len(head) \in Nat
    BY LenProperties
<1>8. messages' = m
    BY DEF e
<1> HIDE DEF m
<1>9. m # <<>> /\ Len(m) >= 3 /\ Len(m) \in Nat
    BY <1>2, <1>6, <1>7
<1>10. \A k \in 0..2 : m[Len(m) - k] = n - k
    <2> SUFFICES ASSUME NEW k \in 0..2 PROVE m[Len(m) - k] = n - k
        OBVIOUS
    <2>1. k \in 0..(t - 1) /\ t - k \in 1..t /\ n - t + (t - k) = n - k
        BY <1>1, <1>2
    <2>2. m[Len(head) + t - k] = e[t - k] /\ e[t - k] = n - t + (t - k)
        BY <1>3, <1>6, <2>1
    <2> QED BY <1>6, <2>1, <2>2
<1>11. EndsKept'
    <2> DEFINE chat == {i \in DOMAIN sent : i > 1 \/ ~HasSystem}
               few == IF Cardinality(chat) < 3 THEN Cardinality(chat) ELSE 3
    <2>1. Cardinality(chat) \in Nat
        BY <1>1, FS_Subset, FS_CardinalityType
    <2>2. few \in 0..3
        BY <2>1
    <2>3. HasSystem' = HasSystem
        BY DEF HasSystem
    <2>4. chat' = chat
        BY <2>3
    <2>5. few' = few
        BY <2>4
    <2> HIDE DEF few
    <2>6. HasSystem => m[1] = 1
        BY <1>6
    <2>7. Len(m) >= few /\ \A k \in 0..(few - 1) : m[Len(m) - k] = n - k
        BY <1>9, <1>10, <2>2
    <2>8. /\ (HasSystem => messages[1] = 1)'
          /\ (Len(messages) >= few)'
          /\ (\A k \in 0..(few - 1) : messages[Len(messages) - k] = Len(sent) - k)'
        BY <1>8, <2>3, <2>5, <2>6, <2>7
    <2> QED BY <2>8 DEF EndsKept, few
<1> QED BY <1>3, <1>6, <1>8, <1>9, <1>11 DEF n

\* What a step that trims the messages has to see to.
LEMMA TrimStep ==
    ASSUME IInv, pc = "embed", pc' = "route",
           UNCHANGED <<client, wire, compressed, model, original, estimate>>,
           messages' \in Seq(DOMAIN sent), messages' # <<>>, Ordered(messages'),
           EndsKept', RelevantKept', saved' \in Nat,
           4 * saved' <= TextLength(AllPlaces, {}) - TextLength(messages', compressed) + 3
    PROVE  IInv'
<1>1. UNCHANGED <<flags, sent, asked, payload, reply, compressed, model, original, estimate>>
    BY DEF client, wire
<1>2. original = NoEstimate /\ reply = NoEstimate /\ payload = NoEstimate /\ estimate = NoEstimate
    BY DEF IInv, CostInv
<1>3. TypeOK'
    BY <1>1, <1>2 DEF IInv, TypeOK
<1>4. StageInv'
    BY DEF StageInv
<1>5. CostInv'
    BY <1>1, <1>2 DEF CostInv
<1>6. Kept'
    BY <1>1, SameOrder DEF Kept
<1>7. SentAsLeft'
    BY <1>1, <1>2 DEF SentAsLeft
<1>8. SavingsReal'
    <2>1. /\ TextLength(AllPlaces, {})' = TextLength(AllPlaces, {})
          /\ TextLength(messages, compressed)' = TextLength(messages', compressed)
        BY <1>1 DEF TextLength, AllPlaces, CharsIn
    <2> QED BY <2>1 DEF SavingsReal
<1> QED BY <1>3, <1>4, <1>5, <1>6, <1>7, <1>8 DEF IInv

\* The better half of the intermediate messages is left.
LEMMA PruneStep == ASSUME IInv, Prune PROVE IInv'
<1> DEFINE n == Len(sent)
           R == Rebuilt(Retained)
           head == SystemPrompt \o R
<1>1. /\ sent \in Conversations /\ messages = AllPlaces /\ Len(messages) > 4
      /\ messages \in Seq(DOMAIN sent) /\ saved \in Nat
      /\ 4 * saved <= TextLength(AllPlaces, {}) - TextLength(messages, compressed)
    BY DEF IInv, TypeOK, StageInv, Prune
<1>2. UNCHANGED <<client, wire, compressed, model, original, estimate>> /\ UNCHANGED sent
    BY DEF Prune, client
<1>3. /\ n > 4 /\ n \in Nat /\ DOMAIN sent = 1..n /\ Offset \in 0..1
      /\ Intermediate = (Offset + 1)..(n - 3)
      /\ IsFiniteSet(Intermediate) /\ Retained \subseteq Intermediate
    BY <1>1, IntermediateType
<1>4. Retained \in SUBSET Int /\ IsFiniteSet(Retained) /\ Retained \in SUBSET (DOMAIN sent)
    <2>1. IsFiniteSet(Retained)
        BY <1>3, FS_Subset
    <2>2. \A x \in Retained : x \in (Offset + 1)..(n - 3)
        BY <1>3
    <2>3. \A x \in Retained : x \in Int /\ x \in 1..n
        BY <1>3, <2>2
    <2> QED BY <1>3, <2>1, <2>3
<1>5. R \in Seq(DOMAIN sent) /\ ToSet(R) = Retained /\ Ordered(R)
    <2>1. Intermediate \in SUBSET (DOMAIN sent) /\ Retained \in SUBSET Intermediate
        BY <1>3
    <2> QED BY <1>1, <2>1, RebuiltSorts
<1>6. /\ SystemPrompt \in Seq(DOMAIN sent) /\ Ordered(SystemPrompt)
      /\ ToSet(SystemPrompt) = 1..Offset
      /\ HasSystem => Len(SystemPrompt) = 1 /\ SystemPrompt[1] = 1
    BY <1>1, SystemType, IncreasingIsOrdered
<1> HIDE DEF n, R
<1>7. /\ head \in Seq(DOMAIN sent) /\ Ordered(head)
      /\ ToSet(head) = (1..Offset) \cup Retained
      /\ Len(head) = Len(SystemPrompt) + Len(R)
      /\ Len(SystemPrompt) > 0 => head[1] = SystemPrompt[1]
    <2>1. \A a \in ToSet(SystemPrompt), b \in ToSet(R) : a < b
        <3> SUFFICES ASSUME NEW a \in 1..Offset, NEW b \in Retained PROVE a < b
            BY <1>5, <1>6
        <3>1. b \in (Offset + 1)..(n - 3)
            BY <1>3
        <3>2. b \in Int /\ a \in Int /\ a <= Offset /\ Offset + 1 <= b
            BY <1>3, <3>1
        <3> QED BY <1>3, <3>2
    <2> QED BY <1>1, <1>5, <1>6, <2>1, Joined
<1>8. ToSet(head) \subseteq 1..(n - 3)
    <2>1. \A x \in Retained : x \in (Offset + 1)..(n - 3)
        BY <1>3
    <2>2. \A x \in (1..Offset) \cup Retained : x \in 1..(n - 3)
        BY <1>3, <2>1
    <2> QED BY <1>7, <2>2
<1>9. HasSystem => Len(head) > 0 /\ head[1] = 1
    BY <1>5, <1>6, <1>7, LenProperties
<1>10. messages' = head \o Latest(ChatHistory, 3)
    BY DEF Prune, EssentialTail, R
<1>11. 3 \in 3..(Len(sent) - Offset)
    BY <1>3 DEF n
<1> HIDE DEF head
<1>12. /\ messages' \in Seq(DOMAIN sent) /\ messages' # <<>> /\ Ordered(messages')
       /\ ToSet(messages') = ToSet(head) \cup (n - 3 + 1)..n
       /\ EndsKept'
    BY <1>1, <1>2, <1>7, <1>8, <1>9, <1>10, <1>11, TrimmedType DEF n
<1>13. RelevantKept'
    <2>1. Left' = ((1..Offset) \cup Retained) \cup (n - 2)..n
        BY <1>3, <1>7, <1>12 DEF Left
    <2>2. HasSystem' = HasSystem /\ sent' = sent
        BY <1>2 DEF HasSystem
    <2>3. ASSUME NEW i \in DOMAIN sent \ Left', NEW j \in Left', j > 1 \/ ~HasSystem, n - j >= 3
          PROVE  sent[j].sim >= sent[i].sim
        <3>1. i \in Intermediate \ Retained
            BY <1>3, <2>1, <2>3
        <3>2. j \in Retained
            <4>1. j \notin 1..Offset
                BY <2>3 DEF Offset
            <4>2. j \notin (n - 2)..n
                BY <1>3, <2>3
            <4> QED BY <2>1, <2>3, <4>1, <4>2
        <3> QED BY <1>1, <3>1, <3>2, RetainedAreNearest
    <2> QED BY <2>2, <2>3 DEF RelevantKept, n
<1>14. /\ saved' \in Nat
       /\ 4 * saved' <= TextLength(AllPlaces, {}) - TextLength(messages', compressed) + 3
    <2> DEFINE L0 == TextLength(AllPlaces, {})
               L1 == TextLength(messages, compressed)
               L2 == TextLength(messages', compressed)
    <2>1. L0 \in Nat /\ L1 \in Nat /\ L2 \in Nat
        BY <1>1, <1>12, AllPlacesType, LengthIsSum
    <2>2. L2 <= L1
        <3>1. compressed \in SUBSET compressed
            OBVIOUS
        <3> QED BY <1>1, <1>12, <3>1, PartIsShorter
    <2>3. saved' = saved + Spared(L1 \div 4, L2 \div 4)
        BY DEF Prune, Tokens
    <2>4. 4 * saved <= L0 - L1
        BY <1>1
    <2> HIDE DEF L0, L1, L2
    <2>5. /\ L1 \div 4 \in Nat /\ 4 * (L1 \div 4) <= L1 /\ L1 <= 4 * (L1 \div 4) + 3
          /\ L2 \div 4 \in Nat /\ 4 * (L2 \div 4) <= L2 /\ L2 <= 4 * (L2 \div 4) + 3
        BY <2>1, TokensType
    <2>6. Spared(L1 \div 4, L2 \div 4) \in Nat /\ 4 * Spared(L1 \div 4, L2 \div 4) <= L1 - L2 + 3
        BY <2>1, <2>2, <2>5 DEF Spared
    <2> DEFINE spared == Spared(L1 \div 4, L2 \div 4)
    <2>7. saved \in Nat /\ spared \in Nat /\ saved' = saved + spared /\ 4 * spared <= L1 - L2 + 3
        BY <1>1, <2>3, <2>6
    <2> HIDE DEF spared
    <2>8. saved' \in Nat /\ 4 * saved' <= L0 - L2 + 3
        BY <2>1, <2>4, <2>7
    <2> QED BY <2>8 DEF L0, L2
<1>15. pc = "embed" /\ pc' = "route"
    BY DEF Prune
<1> QED BY <1>2, <1>12, <1>13, <1>14, <1>15, TrimStep

\* Only the latest messages are left.
LEMMA PruneFailsStep == ASSUME IInv, PruneFails PROVE IInv'
<1> DEFINE n == Len(sent)
           t == IF n - Offset < 5 THEN n - Offset ELSE 5
<1>1. /\ sent \in Conversations /\ messages = AllPlaces /\ Len(messages) > 4
      /\ messages \in Seq(DOMAIN sent) /\ saved \in Nat
      /\ 4 * saved <= TextLength(AllPlaces, {}) - TextLength(messages, compressed)
    BY DEF IInv, TypeOK, StageInv, PruneFails
<1>2. UNCHANGED <<client, wire, compressed, model, original, estimate>> /\ UNCHANGED <<sent, saved>>
    BY DEF PruneFails, client
<1>3. n > 4 /\ n \in Nat /\ DOMAIN sent = 1..n /\ Offset \in 0..1
    BY <1>1, IntermediateType
<1>4. Latest(ChatHistory, 5) = Latest(ChatHistory, t)
    <2>1. Len(ChatHistory) = n - Offset
        BY <1>1, ChatType
    <2>2. CASE n - Offset < 5
        <3>1. n - Offset \in Int /\ ~(n - Offset > 5)
            BY <1>3, <2>2
        <3>2. (IF n - Offset > 5 THEN n - Offset - 5 + 1 ELSE 1) = 1
            BY <3>1
        <3>3. (IF n - Offset > t THEN n - Offset - t + 1 ELSE 1) = 1 /\ t = n - Offset
            BY <1>3, <2>2
        <3> HIDE DEF t
        <3> QED BY <2>1, <3>2, <3>3 DEF Latest
    <2>3. CASE ~(n - Offset < 5)
        BY <2>3
    <2> QED BY <2>2, <2>3
<1>5. t \in 3..(n - Offset) /\ t <= 5
    BY <1>3
<1>6. /\ SystemPrompt \in Seq(DOMAIN sent) /\ Ordered(SystemPrompt)
      /\ ToSet(SystemPrompt) = 1..Offset
      /\ HasSystem => Len(SystemPrompt) = 1 /\ SystemPrompt[1] = 1
    BY <1>1, SystemType, IncreasingIsOrdered
<1>7. messages' = SystemPrompt \o Latest(ChatHistory, t)
    BY <1>4 DEF PruneFails
<1> HIDE DEF t
<1>8. ToSet(SystemPrompt) \subseteq 1..(n - t)
    <2>1. \A x \in 1..Offset : x \in 1..(n - t)
        BY <1>3, <1>5
    <2> QED BY <1>6, <2>1
<1>9. HasSystem => Len(SystemPrompt) > 0 /\ SystemPrompt[1] = 1
    <2> SUFFICES ASSUME HasSystem PROVE Len(SystemPrompt) > 0 /\ SystemPrompt[1] = 1
        OBVIOUS
    <2>1. Len(SystemPrompt) = 1 /\ SystemPrompt[1] = 1
        BY <1>6
    <2> QED BY <2>1
<1>10. /\ messages' \in Seq(DOMAIN sent) /\ messages' # <<>> /\ Ordered(messages')
       /\ ToSet(messages') = ToSet(SystemPrompt) \cup (n - t + 1)..n
       /\ EndsKept'
    BY <1>1, <1>2, <1>5, <1>6, <1>7, <1>8, <1>9, TrimmedType
<1> HIDE DEF n
<1>11. RelevantKept'
    <2>1. Left' = (1..Offset) \cup (n - t + 1)..n
        BY <1>6, <1>10 DEF Left
    <2>2. HasSystem' = HasSystem /\ sent' = sent
        BY <1>2 DEF HasSystem
    <2>3. ASSUME NEW i \in Left', i > 1 \/ ~HasSystem
          PROVE  i \in DOMAIN sent /\ n - i < 5
        <3>1. i \in 1..Offset => FALSE
            BY <2>3 DEF Offset
        <3>2. i \in (n - t + 1)..n
            BY <2>1, <2>3, <3>1
        <3> QED BY <1>3, <1>5, <3>2
    <2> QED BY <2>2, <2>3 DEF RelevantKept, n
<1>12. /\ saved' \in Nat
       /\ 4 * saved' <= TextLength(AllPlaces, {}) - TextLength(messages', compressed) + 3
    <2> DEFINE L0 == TextLength(AllPlaces, {})
               L1 == TextLength(messages, compressed)
               L2 == TextLength(messages', compressed)
    <2>1. L0 \in Nat /\ L1 \in Nat /\ L2 \in Nat
        BY <1>1, <1>10, AllPlacesType, LengthIsSum
    <2>2. L2 <= L1
        <3>1. compressed \in SUBSET compressed
            OBVIOUS
        <3> QED BY <1>1, <1>10, <3>1, PartIsShorter
    <2>3. saved' = saved /\ 4 * saved <= L0 - L1
        BY <1>1, <1>2
    <2> HIDE DEF L0, L1, L2
    <2>4. saved' \in Nat /\ 4 * saved' <= L0 - L2 + 3
        BY <1>1, <2>1, <2>2, <2>3
    <2> QED BY <2>4 DEF L0, L2
<1>13. pc = "embed" /\ pc' = "route"
    BY DEF PruneFails
<1> QED BY <1>2, <1>10, <1>11, <1>12, <1>13, TrimStep

-----------------------------------------------------------------------------
(* The translation for a provider.                                         *)

\* At takes what stands at some of the positions, and leaves it in its order.
LEMMA AtType ==
    ASSUME NEW ms \in Seq(DOMAIN sent), NEW P \in SUBSET (DOMAIN ms)
    PROVE  /\ At(ms, P) \in Seq(DOMAIN sent)
           /\ ToSet(At(ms, P)) = {ms[k] : k \in P}
           /\ \A k, l \in DOMAIN At(ms, P) : k < l =>
                \E p, q \in P : p < q /\ ms[p] = At(ms, P)[k] /\ ms[q] = At(ms, P)[l]
<1> DEFINE s == At(ms, P)
           o == InOrder(P)
           n == Cardinality(P)
<1>1. DOMAIN ms = 1..Len(ms) /\ Len(ms) \in Nat /\ \A k \in DOMAIN ms : ms[k] \in DOMAIN sent
    BY LenProperties, ElementOfSeq
<1>2. IsFiniteSet(DOMAIN ms)
    BY <1>1, FS_Interval
<1>3. P \in SUBSET Int /\ IsFiniteSet(P)
    BY <1>1, <1>2, FS_Subset
<1>4. /\ n \in Nat /\ o \in [1..n -> P]
      /\ \A k, l \in 1..n : k < l => o[k] < o[l]
      /\ \A i \in P : \E k \in 1..n : o[k] = i
    BY <1>3, InOrderSorts
<1>5. s = [l \in 1..n |-> ms[o[l]]]
    BY DEF At
<1> HIDE DEF s, o, n
<1>6. \A l \in 1..n : o[l] \in P /\ o[l] \in DOMAIN ms /\ s[l] = ms[o[l]] /\ s[l] \in DOMAIN sent
    BY <1>1, <1>4, <1>5
<1>7. s \in Seq(DOMAIN sent) /\ DOMAIN s = 1..n
    BY <1>4, <1>5, <1>6
<1>8. \A k, l \in DOMAIN s : k < l => \E p, q \in P : p < q /\ ms[p] = s[k] /\ ms[q] = s[l]
    BY <1>4, <1>6, <1>7
<1>9. ToSet(s) = {ms[k] : k \in P}
    <2>1. \A x \in ToSet(s) : x \in {ms[k] : k \in P}
        BY <1>6, <1>7 DEF ToSet
    <2>2. \A k \in P : ms[k] \in ToSet(s)
        <3> SUFFICES ASSUME NEW k \in P PROVE ms[k] \in ToSet(s)
            OBVIOUS
        <3>1. PICK l \in 1..n : o[l] = k
            BY <1>4
        <3>2. s[l] = ms[k] /\ l \in DOMAIN s
            BY <1>6, <1>7, <3>1
        <3> QED BY <3>2 DEF ToSet
    <2> QED BY <2>1, <2>2
<1> QED BY <1>7, <1>8, <1>9 DEF s

\* Of a sequence of one message at most the last one is all.
LEMMA LastOfOne ==
    ASSUME NEW S, NEW s \in Seq(S)
    PROVE  /\ Latest(s, 1) \in Seq(S)
           /\ Len(s) <= 1 => Latest(s, 1) = s
<1> DEFINE n == Len(s)
           m == IF n > 1 THEN n - 1 + 1 ELSE 1
<1>1. n \in Nat /\ \A i \in 1..n : s[i] \in S
    BY LenProperties, ElementOfSeq
<1>2. Latest(s, 1) = SubSeq(s, m, n)
    BY DEF Latest
<1>3. m \in Int /\ n \in Int /\ \A i \in m..n : s[i] \in S
    BY <1>1
<1>4. n <= 1 => m = 1
    BY <1>1
<1>5. SubSeq(s, 1, n) = s
    BY SubSeqFull
<1> HIDE DEF m, n
<1>6. SubSeq(s, m, n) \in Seq(S)
    BY <1>3, SubSeqProperties
<1> QED BY <1>2, <1>4, <1>5, <1>6 DEF n

\* The system messages that are left, and the others.
SystemsLeft == {i \in Left : sent[i].role = "system"}

OneSystem == Cardinality({i \in DOMAIN sent : sent[i].role = "system"}) <= 1

\* The messages as they are.
LEMMA DumpType ==
    ASSUME sent \in Conversations, messages \in Seq(DOMAIN sent),
           NEW p, p = model_dump(messages)
    PROVE  /\ p.api = "openai" /\ p.system \in Seq(DOMAIN sent)
           /\ p.messages \in Seq([role : {"system", "user", "assistant", "tool"},
                                  content : DOMAIN sent])
           /\ DOMAIN p.messages = DOMAIN messages
           /\ \A k \in DOMAIN messages :
                p.messages[k].content = messages[k] /\ p.messages[k].role = sent[messages[k]].role
<1>1. /\ DOMAIN messages = 1..Len(messages) /\ Len(messages) \in Nat
      /\ \A k \in DOMAIN messages : messages[k] \in DOMAIN sent
    BY LenProperties, ElementOfSeq
<1>2. \A k \in DOMAIN messages : sent[messages[k]].role \in {"system", "user", "assistant", "tool"}
    BY <1>1, ConversationType
<1>3. p = [api |-> "openai", system |-> <<>>,
           messages |-> [k \in DOMAIN messages |->
                            [role |-> sent[messages[k]].role, content |-> messages[k]]]]
    BY DEF model_dump
<1> DEFINE q == [k \in 1..Len(messages) |->
                    [role |-> sent[messages[k]].role, content |-> messages[k]]]
<1>4. p.api = "openai" /\ p.system = <<>> /\ p.messages = q
    BY <1>1, <1>3
<1>5. q \in Seq([role : {"system", "user", "assistant", "tool"}, content : DOMAIN sent])
    BY <1>1, <1>2
<1>6. <<>> \in Seq(DOMAIN sent)
    OBVIOUS
<1> QED BY <1>1, <1>4, <1>5, <1>6

\* What the Anthropic API is asked: the turns of those that are left, in their order,
\* and the system prompt apart.
Translated(p) ==
    /\ p.api = "anthropic" /\ p.system \in Seq(DOMAIN sent)
    /\ p.messages \in Seq([role : {"system", "user", "assistant", "tool"},
                           content : DOMAIN sent])
    /\ \A k \in DOMAIN p.messages :
         /\ p.messages[k].content \in DOMAIN sent
         /\ p.messages[k].role \in {"assistant", "user"}
         /\ p.messages[k].role = "assistant" <=> sent[p.messages[k].content].role = "assistant"
    /\ \A k, l \in DOMAIN p.messages : k < l =>
         \E q, r \in DOMAIN messages :
            q < r /\ messages[q] = p.messages[k].content /\ messages[r] = p.messages[l].content
    /\ {p.messages[k].content : k \in DOMAIN p.messages} = Left \ SystemsLeft
    /\ OneSystem => ToSet(p.system) = SystemsLeft

\* The system prompt apart from the others.
LEMMA ConvertType ==
    ASSUME sent \in Conversations, messages \in Seq(DOMAIN sent), Ordered(messages)
    PROVE  Translated(convert_request(messages))
<1> DEFINE p == convert_request(messages)
           Sys == {k \in DOMAIN messages : sent[messages[k]].role = "system"}
           Oth == {k \in DOMAIN messages : sent[messages[k]].role # "system"}
           systems == At(messages, Sys)
           others == At(messages, Oth)
           turn(i) == [role |-> IF sent[i].role = "assistant" THEN "assistant" ELSE "user",
                       content |-> i]
           turns == [k \in DOMAIN others |-> turn(others[k])]
<1>1. /\ DOMAIN messages = 1..Len(messages)
      /\ \A k \in DOMAIN messages : messages[k] \in DOMAIN sent
    BY LenProperties, ElementOfSeq
<1>2. /\ systems \in Seq(DOMAIN sent)
      /\ ToSet(systems) = {messages[k] : k \in Sys}
      /\ \A k, l \in DOMAIN systems : k < l =>
            \E q, r \in Sys : q < r /\ messages[q] = systems[k] /\ messages[r] = systems[l]
    <2>1. Sys \in SUBSET (DOMAIN messages)
        OBVIOUS
    <2> HIDE DEF Sys
    <2> QED BY <2>1, AtType
<1>3. /\ others \in Seq(DOMAIN sent)
      /\ ToSet(others) = {messages[k] : k \in Oth}
      /\ \A k, l \in DOMAIN others : k < l =>
            \E q, r \in Oth : q < r /\ messages[q] = others[k] /\ messages[r] = others[l]
    <2>1. Oth \in SUBSET (DOMAIN messages)
        OBVIOUS
    <2> HIDE DEF Oth
    <2> QED BY <2>1, AtType
<1>4. p = [api |-> "anthropic", system |-> Latest(systems, 1), messages |-> turns]
    BY DEF convert_request
<1> HIDE DEF p
<1>5. ToSet(systems) = SystemsLeft
    <2>1. {messages[k] : k \in Sys} = SystemsLeft
        BY <1>1 DEF SystemsLeft, Left, ToSet
    <2> HIDE DEF Sys, systems
    <2> QED BY <1>2, <2>1
<1>6. ToSet(others) = Left \ SystemsLeft
    <2>1. {messages[k] : k \in Oth} = Left \ SystemsLeft
        BY <1>1 DEF SystemsLeft, Left, ToSet
    <2> HIDE DEF Oth, others
    <2> QED BY <1>3, <2>1
<1> HIDE DEF systems, others
<1>7. p.api = "anthropic" /\ p.system = Latest(systems, 1) /\ p.messages = turns
    BY <1>4
<1>8. /\ DOMAIN others = 1..Len(others) /\ Len(others) \in Nat
      /\ \A k \in DOMAIN others : others[k] \in DOMAIN sent
    BY <1>3, LenProperties, ElementOfSeq
<1>9. /\ DOMAIN turns = DOMAIN others
      /\ \A k \in DOMAIN others : /\ turns[k].content = others[k]
                                  /\ turns[k].role \in {"assistant", "user"}
                                  /\ turns[k].role = "assistant" <=> sent[others[k]].role = "assistant"
    OBVIOUS
<1>10. turns \in Seq([role : {"system", "user", "assistant", "tool"}, content : DOMAIN sent])
    <2>1. \A k \in 1..Len(others) :
            turn(others[k]) \in [role : {"system", "user", "assistant", "tool"}, content : DOMAIN sent]
        BY <1>8
    <2>2. turns = [k \in 1..Len(others) |-> turn(others[k])]
        BY <1>8
    <2> HIDE DEF turn, turns
    <2> QED BY <1>8, <2>1, <2>2
<1> HIDE DEF turns
<1>11. \A k, l \in DOMAIN turns : k < l =>
            \E q, r \in DOMAIN messages :
                q < r /\ messages[q] = turns[k].content /\ messages[r] = turns[l].content
    BY <1>3, <1>9
<1>12. {turns[k].content : k \in DOMAIN turns} = ToSet(others)
    BY <1>9 DEF ToSet
<1>13. Latest(systems, 1) \in Seq(DOMAIN sent)
    BY <1>2, LastOfOne
<1>14. ASSUME OneSystem
       PROVE  ToSet(Latest(systems, 1)) = ToSet(systems)
    <2> DEFINE all == {i \in DOMAIN sent : sent[i].role = "system"}
    <2>1. /\ DOMAIN systems = 1..Len(systems) /\ Len(systems) \in Nat
          /\ \A k \in DOMAIN systems : systems[k] \in ToSet(systems)
        BY <1>2, LenProperties DEF ToSet
    <2>2. ToSet(systems) \subseteq all
        BY <1>1, <1>5 DEF SystemsLeft, Left, ToSet
    <2>3. IsFiniteSet(all) /\ DOMAIN sent = 1..Len(sent)
        BY ConversationType, FS_Subset
    <2>4. Len(systems) <= 1
        <3> SUFFICES ASSUME ~(Len(systems) <= 1) PROVE FALSE
            OBVIOUS
        <3>1. 1 \in DOMAIN systems /\ 2 \in DOMAIN systems
            BY <2>1
        <3>2. systems[1] \in all /\ systems[2] \in all
            BY <2>1, <2>2, <3>1
        <3>3. systems[1] # systems[2]
            <4>1. 1 < 2
                OBVIOUS
            <4>2. PICK q \in Sys, r \in Sys :
                    q < r /\ messages[q] = systems[1] /\ messages[r] = systems[2]
                BY <1>2, <3>1, <4>1
            <4> QED BY <4>2 DEF Ordered
        <3> HIDE DEF all
        <3>4. /\ Cardinality(all \ {systems[1]}) = Cardinality(all) - 1
              /\ IsFiniteSet(all \ {systems[1]}) /\ Cardinality(all) \in Nat
            BY <2>3, <3>2, FS_RemoveElement, FS_CardinalityType
        <3>5. Cardinality(all) <= 1
            BY <1>14 DEF all, OneSystem
        <3>6. all \ {systems[1]} = {}
            <4>1. Cardinality(all \ {systems[1]}) = 0
                <5>1. Cardinality(all \ {systems[1]}) \in Nat
                    BY <3>4, FS_CardinalityType
                <5> QED BY <3>4, <3>5, <5>1
            <4> QED BY <3>4, <4>1, FS_EmptySet
        <3> QED BY <3>2, <3>3, <3>6
    <2>5. Latest(systems, 1) = systems
        BY <1>2, <2>4, LastOfOne
    <2> QED BY <2>5
<1>15. Translated(p)
    BY <1>5, <1>6, <1>7, <1>8, <1>9, <1>10, <1>11, <1>12, <1>13, <1>14 DEF Translated
<1> QED BY <1>15 DEF p

-----------------------------------------------------------------------------
(* The stages, one after the other.                                        *)

LEMMA OptimizeStep == ASSUME IInv, Optimize PROVE IInv'
<1>1. /\ sent \in Conversations /\ messages = AllPlaces /\ compressed \subseteq DOMAIN sent
      /\ saved \in Nat /\ 4 * saved <= TextLength(AllPlaces, {}) - TextLength(messages, compressed)
      /\ reply = NoEstimate /\ payload = NoEstimate /\ estimate = NoEstimate
      /\ original = NoEstimate
    BY DEF IInv, TypeOK, StageInv, CostInv, Optimize
<1>2. /\ pc' = "trim"
      /\ UNCHANGED <<flags, sent, asked, payload, reply, messages, model, original, estimate>>
    BY DEF Optimize, client, wire
<1>3. /\ compressed' \subseteq DOMAIN sent /\ saved' \in Nat
      /\ 4 * saved' <= TextLength(AllPlaces, {}) - TextLength(messages, compressed')
    <2>1. CASE "optimization" \in flags
        <3>1. /\ compressed' = Compressible
              /\ saved' = SumFunctionOnSet([i \in Compressible |-> SavedOf(i)], Compressible)
            BY <2>1 DEF Optimize
        <3>2. Compressible \subseteq DOMAIN sent
            BY DEF Compressible
        <3>3. /\ saved' \in Nat
              /\ 4 * saved' <= TextLength(AllPlaces, {}) - TextLength(AllPlaces, Compressible)
            BY <1>1, <3>1, OptimizedIsGone
        <3> QED BY <1>1, <3>1, <3>2, <3>3
    <2>2. CASE "optimization" \notin flags
        BY <1>1, <2>2 DEF Optimize
    <2> QED BY <2>1, <2>2
<1>4. /\ TextLength(AllPlaces, {})' = TextLength(AllPlaces, {}) /\ AllPlaces' = AllPlaces
      /\ TextLength(messages, compressed)' = TextLength(messages, compressed')
    BY <1>2 DEF TextLength, AllPlaces, CharsIn
<1>5. /\ TextLength(AllPlaces, {}) \in Nat
      /\ TextLength(messages, compressed') \in Nat
    BY <1>1, AllPlacesType, LengthIsSum
<1>6. TypeOK'
    BY <1>1, <1>2, <1>3 DEF IInv, TypeOK
<1>7. StageInv'
    BY <1>1, <1>2, <1>3, <1>4 DEF StageInv
<1>8. CostInv'
    BY <1>1, <1>2 DEF CostInv
<1>9. Kept'
    <2>1. EndsKept' /\ RelevantKept' /\ messages' # <<>>
        BY <1>2, SameRest DEF IInv
    <2>2. /\ messages' = messages /\ sent' = sent /\ DOMAIN messages = DOMAIN sent
          /\ \A k \in DOMAIN messages : messages[k] = k /\ k \in Int
        BY <1>1, <1>2, AllPlacesType, ConversationType
    <2>3. OrderKept'
        BY <2>2 DEF OrderKept, Alike, Content
    <2> QED BY <2>1, <2>3 DEF Kept
<1>10. SentAsLeft'
    BY <1>1, <1>2 DEF SentAsLeft
<1>11. SavingsReal'
    BY <1>3, <1>4, <1>5 DEF SavingsReal
<1> QED BY <1>6, <1>7, <1>8, <1>9, <1>10, <1>11 DEF IInv

\* What a step that leaves the messages alone has to see to.
LEMMA MessagesLeft ==
    ASSUME IInv, UNCHANGED <<client, messages, compressed, saved>>,
           pc' \in {"optimize", "trim", "embed", "route", "predict", "budget", "send", "sent",
                    "done", "failed", "refused"},
           pc' \in {"optimize", "trim", "embed"} => pc \in {"optimize", "trim", "embed"},
           pc' = "embed" => Len(messages) > 4
    PROVE  /\ StageInv' /\ Kept' /\ SavingsReal'
           /\ payload' = payload => SentAsLeft'
           /\ /\ model' \in Models /\ original' \in Models \cup {NoEstimate}
              /\ estimate' \in Nat \cup {NoEstimate} /\ wire' = wire
              => TypeOK'
<1>1. UNCHANGED <<flags, sent, asked, messages, compressed, saved>>
    BY DEF client
<1>2. /\ AllPlaces' = AllPlaces /\ TextLength(AllPlaces, {})' = TextLength(AllPlaces, {})
      /\ TextLength(messages, compressed)' = TextLength(messages, compressed)
      /\ Tokens(messages, compressed)' = Tokens(messages, compressed)
    BY <1>1, SameLength
<1>3. StageInv'
    BY <1>1, <1>2 DEF IInv, StageInv
<1>4. Kept'
    BY <1>1, SameKept DEF IInv
<1>5. SavingsReal'
    BY <1>1, <1>2 DEF IInv, SavingsReal
<1>6. payload' = payload => SentAsLeft'
    BY <1>1, SameSent DEF IInv
<1>7. ASSUME model' \in Models, original' \in Models \cup {NoEstimate},
             estimate' \in Nat \cup {NoEstimate}, wire' = wire
      PROVE  TypeOK'
    <2>1. payload' = payload /\ reply' = reply
        BY <1>7 DEF wire
    <2>2. Replies(Tokens(messages, compressed))' = Replies(Tokens(messages, compressed))
        BY <1>2 DEF Replies, ExpectedOutput
    <2> QED BY <1>1, <1>7, <2>1, <2>2 DEF IInv, TypeOK
<1> QED BY <1>3, <1>4, <1>5, <1>6, <1>7

\* The predicted cost depends on the messages and the model only.
LEMMA SameCost ==
    ASSUME UNCHANGED <<sent, messages, compressed>>, NEW m
    PROVE  PredictedCost(messages, compressed, m)' = PredictedCost(messages, compressed, m)
BY SameLength DEF PredictedCost, ExpectedOutput

\* What a step that comes after the prediction has to see to: it may exchange the model,
\* but what was predicted stays.
LEMMA EstimateLeft ==
    ASSUME IInv, UNCHANGED <<sent, messages, compressed, estimate>>,
           pc \in {"budget", "send", "sent"}, pc' \in {"send", "sent", "done", "failed"},
           Predicted' = Predicted,
           pc' = "send" => payload' = NoEstimate,
           pc' # "done" => reply' = NoEstimate
    PROVE  CostInv'
<1>1. Predicted \in Catalog
    BY DEF IInv, CostInv
<1>2. estimate # NoEstimate => estimate = PredictedCost(messages, compressed, Predicted)
    BY DEF IInv, CostInv
<1>3. PICK m : m = Predicted
    OBVIOUS
<1>4. PredictedCost(messages, compressed, m)' = PredictedCost(messages, compressed, m)
    BY SameCost
<1>5. PredictedCost(messages, compressed, Predicted)' = PredictedCost(messages, compressed, m)
    BY <1>3, <1>4 DEF PredictedCost
<1> QED BY <1>1, <1>2, <1>3, <1>5 DEF CostInv

\* The steps that leave the messages, the savings and what is sent alone.
LEMMA EarlySteps ==
    ASSUME IInv, LeaveContext \/ StartTrim \/ Route \/ RouteFails
    PROVE  IInv'
<1>1. /\ UNCHANGED <<client, wire, messages, compressed, original, saved, estimate>>
      /\ payload' = payload /\ reply' = reply
      /\ \/ pc = "trim" /\ pc' = "route" /\ model' = model
         \/ pc = "trim" /\ pc' = "embed" /\ Len(messages) > 4 /\ model' = model
         \/ pc = "route" /\ pc' = "predict" /\ model' \in Models /\ model' \in Catalog
         \/ pc = "route" /\ pc' = "refused" /\ model' = model
    BY CatalogAssumption DEF LeaveContext, StartTrim, TooLarge, Route, RouteFails, prompt, wire
<1>2. /\ original = NoEstimate /\ estimate = NoEstimate
      /\ payload = NoEstimate /\ reply = NoEstimate
    BY <1>1 DEF IInv, CostInv
<1>3. model' \in Models
    BY <1>1 DEF IInv, TypeOK
<1>4. CostInv'
    BY <1>1, <1>2 DEF CostInv, Predicted
<1> QED BY <1>1, <1>2, <1>3, <1>4, MessagesLeft DEF IInv

\* The budget, which may exchange the model, and a reply that is not read.
LEMMA LateSteps ==
    ASSUME IInv, Clear \/ Downgrade \/ ReceiveFails
    PROVE  IInv'
<1>1. /\ UNCHANGED <<client, wire, messages, compressed, saved, estimate>>
      /\ payload' = payload /\ reply' = reply /\ sent' = sent
      /\ \/ pc = "budget" /\ pc' = "send" /\ UNCHANGED <<model, original>>
         \/ pc = "budget" /\ pc' = "send" /\ model' \in Models /\ original' = model
         \/ pc = "sent" /\ pc' = "failed" /\ UNCHANGED <<model, original>>
    BY DowngradesAssumption DEF Clear, Downgrade, ReceiveFails, prompt, wire, client
<1>2. /\ model \in Models /\ original \in Models \cup {NoEstimate}
      /\ estimate \in Nat \cup {NoEstimate}
      /\ pc = "budget" => original = NoEstimate /\ payload = NoEstimate
      /\ reply = NoEstimate
    BY <1>1 DEF IInv, TypeOK, CostInv
<1>3. Predicted' = Predicted
    BY <1>1, <1>2, DowngradesAssumption DEF Predicted
<1>4. CostInv'
    BY <1>1, <1>2, <1>3, EstimateLeft
<1>5. model' \in Models /\ original' \in Models \cup {NoEstimate}
    BY <1>1, <1>2
<1> QED BY <1>1, <1>2, <1>4, <1>5, MessagesLeft DEF IInv

LEMMA StutterStep == ASSUME IInv, UNCHANGED vars PROVE IInv'
<1>1. /\ UNCHANGED <<client, wire, messages, compressed, model, original, saved, estimate>>
      /\ pc' = pc /\ payload' = payload /\ reply' = reply /\ sent' = sent
    BY DEF vars, client, wire
<1>2. /\ model' \in Models /\ original' \in Models \cup {NoEstimate}
      /\ estimate' \in Nat \cup {NoEstimate}
      /\ pc' \in {"optimize", "trim", "embed", "route", "predict", "budget", "send", "sent",
                  "done", "failed", "refused"}
    BY <1>1 DEF IInv, TypeOK
<1>3. PICK m : m = Predicted
    OBVIOUS
<1>4. Predicted' = m
    BY <1>1, <1>3 DEF Predicted
<1>5. PredictedCost(messages, compressed, m)' = PredictedCost(messages, compressed, m)
    BY <1>1, SameCost
<1>6. PredictedCost(messages, compressed, Predicted)' = PredictedCost(messages, compressed, m)
    BY <1>4, <1>5 DEF PredictedCost
<1>7. CostInv'
    BY <1>1, <1>3, <1>4, <1>6 DEF IInv, CostInv
<1>8. pc' = "embed" => Len(messages) > 4
    BY <1>1 DEF IInv, StageInv
<1> QED BY <1>1, <1>2, <1>7, <1>8, MessagesLeft DEF IInv

-----------------------------------------------------------------------------
(* Costs.                                                                  *)

LEMMA ProductType ==
    ASSUME NEW a \in Nat, NEW b \in Nat, NEW c \in Nat
    PROVE  a * c \in Nat /\ b * c \in Nat /\ (a <= b => a * c <= b * c)
<1>1. a * c \in Nat /\ b * c \in Nat
    OBVIOUS
<1>2. ASSUME a <= b PROVE a * c <= b * c
    <2>1. PICK d \in Nat : b = a + d
        <3>1. b - a \in Nat /\ b = a + (b - a)
            BY <1>2
        <3> QED BY <3>1
    <2>2. b * c = a * c + d * c /\ d * c \in Nat
        BY <2>1
    <2> QED BY <1>1, <2>2
<1> QED BY <1>1, <1>2

\* A longer prompt has the longer answer.
LEMMA ExpectedType ==
    ASSUME NEW a \in Nat, NEW b \in Nat
    PROVE  ExpectedOutput(a) \in Nat /\ (a <= b => ExpectedOutput(a) <= ExpectedOutput(b))
BY DEF ExpectedOutput

\* A longer prompt and a longer answer cost more.
LEMMA CostType ==
    ASSUME NEW m \in Catalog, NEW a \in Nat, NEW b \in Nat, NEW x \in Nat, NEW y \in Nat
    PROVE  /\ a * InputPrice[m] + x * OutputPrice[m] \in Nat
           /\ a <= b /\ x <= y =>
                a * InputPrice[m] + x * OutputPrice[m] <= b * InputPrice[m] + y * OutputPrice[m]
<1> DEFINE p == InputPrice[m]
           q == OutputPrice[m]
<1>1. p \in Nat /\ q \in Nat
    BY CatalogAssumption
<1> HIDE DEF p, q
<1>2. /\ a * p \in Nat /\ b * p \in Nat /\ (a <= b => a * p <= b * p)
      /\ x * q \in Nat /\ y * q \in Nat /\ (x <= y => x * q <= y * q)
    BY <1>1, ProductType
<1> DEFINE ap == a * p
           bp == b * p
           xq == x * q
           yq == y * q
<1>3. /\ ap \in Nat /\ bp \in Nat /\ (a <= b => ap <= bp)
      /\ xq \in Nat /\ yq \in Nat /\ (x <= y => xq <= yq)
    BY <1>2
<1> HIDE DEF ap, bp, xq, yq
<1>4. ap + xq \in Nat /\ (a <= b /\ x <= y => ap + xq <= bp + yq)
    BY <1>3
<1> QED BY <1>4 DEF ap, bp, xq, yq, p, q

\* So do higher prices.
LEMMA DearerCosts ==
    ASSUME NEW m \in Catalog, NEW k \in Catalog,
           InputPrice[k] <= InputPrice[m], OutputPrice[k] <= OutputPrice[m],
           NEW a \in Nat, NEW b \in Nat, NEW x \in Nat, NEW y \in Nat, a <= b, x <= y
    PROVE  a * InputPrice[k] + x * OutputPrice[k] <= b * InputPrice[m] + y * OutputPrice[m]
<1> DEFINE p == InputPrice[k]
           q == OutputPrice[k]
           P == InputPrice[m]
           Q == OutputPrice[m]
<1>1. p \in Nat /\ q \in Nat /\ P \in Nat /\ Q \in Nat /\ p <= P /\ q <= Q
    BY CatalogAssumption
<1>2. a * p + x * q <= b * p + y * q
    BY CostType
<1> HIDE DEF p, q, P, Q
<1>3. p * b <= P * b /\ q * y <= Q * y
    BY <1>1, ProductType
<1>4. b * p <= b * P /\ y * q <= y * Q
    BY <1>1, <1>3
<1> DEFINE ap == a * p
           xq == x * q
           bp == b * p
           bP == b * P
           yq == y * q
           yQ == y * Q
<1>5. /\ ap \in Nat /\ xq \in Nat /\ bp \in Nat /\ bP \in Nat /\ yq \in Nat /\ yQ \in Nat
      /\ ap + xq <= bp + yq /\ bp <= bP /\ yq <= yQ
    BY <1>1, <1>2, <1>4
<1> HIDE DEF ap, xq, bp, bP, yq, yQ
<1>6. ap + xq <= bP + yQ
    BY <1>5
<1> QED BY <1>6 DEF ap, xq, bP, yQ, p, q, P, Q

\* The tokens of the messages that are left are not more than those of the request.
LEMMA TokensLeft ==
    ASSUME IInv
    PROVE  /\ Tokens(messages, compressed) \in Nat /\ Tokens(AllPlaces, {}) \in Nat
           /\ Tokens(messages, compressed) <= Tokens(AllPlaces, {})
<1>1. /\ sent \in Conversations /\ messages \in Seq(DOMAIN sent) /\ messages # <<>>
      /\ Ordered(messages)
    BY DEF IInv, TypeOK, Kept, OrderKept, Ordered
<1>2. {} \in SUBSET compressed
    OBVIOUS
<1>3. TextLength(messages, compressed) <= TextLength(AllPlaces, {})
    BY <1>1, <1>2, PartIsShorter
<1>4. TextLength(messages, compressed) \in Nat /\ TextLength(AllPlaces, {}) \in Nat
    BY <1>1, AllPlacesType, LengthIsSum
<1> QED BY <1>3, <1>4, TokensType DEF Tokens

LEMMA PredictedType ==
    ASSUME IInv, NEW m \in Catalog
    PROVE  PredictedCost(messages, compressed, m) \in Nat
BY TokensLeft, ExpectedType, CostType DEF PredictedCost

-----------------------------------------------------------------------------
(* The predictor and the call.                                             *)

LEMMA PredictStep == ASSUME IInv, Predict PROVE IInv'
<1>1. /\ pc = "predict" /\ pc' = "budget"
      /\ UNCHANGED <<client, wire, messages, compressed, model, original, saved>>
      /\ payload' = payload /\ reply' = reply /\ sent' = sent
    BY DEF Predict, wire, client, prompt
<1>2. PICK m : m = model
    OBVIOUS
<1>3. /\ original = NoEstimate /\ payload = NoEstimate /\ reply = NoEstimate
      /\ m \in Catalog /\ model' = m /\ model' \in Models
    BY <1>1, <1>2 DEF IInv, CostInv, TypeOK, Predicted
<1>4. \/ estimate' = PredictedCost(messages, compressed, m)
      \/ estimate' = NoEstimate
    BY <1>2 DEF Predict
<1>5. estimate' \in Nat \cup {NoEstimate} /\ original' \in Models \cup {NoEstimate}
    BY <1>1, <1>3, <1>4, PredictedType
<1>6. Predicted' = m
    BY <1>1, <1>3 DEF Predicted
<1>7. PredictedCost(messages, compressed, m)' = PredictedCost(messages, compressed, m)
    BY <1>1, SameCost
<1>8. PredictedCost(messages, compressed, Predicted)' = PredictedCost(messages, compressed, m)
    BY <1>6, <1>7 DEF PredictedCost
<1>9. CostInv'
    BY <1>1, <1>3, <1>4, <1>6, <1>8 DEF CostInv
<1> QED BY <1>1, <1>3, <1>5, <1>9, MessagesLeft DEF IInv

\* What either translation sends is what is left.
LEMMA TranslatedIsLeft ==
    ASSUME IInv, payload' \in {model_dump(messages), convert_request(messages)},
           UNCHANGED <<sent, messages>>
    PROVE  /\ payload'.system \in Seq(DOMAIN sent)
           /\ payload'.messages \in Seq([role : {"system", "user", "assistant", "tool"},
                                         content : DOMAIN sent])
           /\ SentAsLeft'
<1> DEFINE p == payload'
           turns == {k \in DOMAIN p.messages : p.messages[k].role # "system"}
<1>1. /\ sent \in Conversations /\ messages \in Seq(DOMAIN sent) /\ Ordered(messages)
    BY DEF IInv, TypeOK, Kept, OrderKept, Ordered
<1>2. Left' = Left /\ SystemsLeft' = SystemsLeft /\ OneSystem' = OneSystem
    BY DEF Left, ToSet, SystemsLeft, OneSystem
<1>3. SentAsLeft' <=>
        (p # NoEstimate /\ OneSystem =>
            /\ {p.messages[k].content : k \in turns} = Left \ SystemsLeft
            /\ \A k, l \in turns : k < l =>
                \E q, r \in DOMAIN messages :
                    /\ q < r
                    /\ messages[q] = p.messages[k].content /\ messages[r] = p.messages[l].content
            /\ \A k \in turns : (p.messages[k].role = "assistant")
                                    = (sent[p.messages[k].content].role = "assistant")
            /\ SystemsLeft = IF p.api = "anthropic" THEN ToSet(p.system)
                             ELSE {p.messages[k].content : k \in DOMAIN p.messages \ turns}
            /\ p.api = "anthropic" => turns = DOMAIN p.messages)
    BY <1>2 DEF SentAsLeft, SystemsLeft, OneSystem, Left, ToSet
<1> HIDE DEF p
<1>4. CASE p = model_dump(messages)
    <2>1. /\ p.api = "openai" /\ p.system \in Seq(DOMAIN sent)
          /\ p.messages \in Seq([role : {"system", "user", "assistant", "tool"},
                                 content : DOMAIN sent])
          /\ DOMAIN p.messages = DOMAIN messages
          /\ \A k \in DOMAIN messages :
                p.messages[k].content = messages[k] /\ p.messages[k].role = sent[messages[k]].role
        BY <1>1, <1>4, DumpType
    <2>2. {p.messages[k].content : k \in turns} = Left \ SystemsLeft
        BY <2>1 DEF Left, ToSet, SystemsLeft
    <2>3. {p.messages[k].content : k \in DOMAIN p.messages \ turns} = SystemsLeft
        BY <2>1 DEF Left, ToSet, SystemsLeft
    <2>4. \A k, l \in turns : k < l =>
            \E q, r \in DOMAIN messages :
                q < r /\ messages[q] = p.messages[k].content /\ messages[r] = p.messages[l].content
        BY <2>1
    <2>5. \A k \in turns : (p.messages[k].role = "assistant")
                                = (sent[p.messages[k].content].role = "assistant")
        BY <2>1
    <2> HIDE DEF turns
    <2> QED BY <1>3, <2>1, <2>2, <2>3, <2>4, <2>5 DEF p
<1>5. CASE p = convert_request(messages)
    <2> USE DEF Translated
    <2>1. Translated(p)
        BY <1>1, <1>5, ConvertType
    <2>2. turns = DOMAIN p.messages
        BY <2>1
    <2>3. {p.messages[k].content : k \in turns} = Left \ SystemsLeft
        BY <2>1, <2>2
    <2>4. \A k \in turns : (p.messages[k].role = "assistant")
                                = (sent[p.messages[k].content].role = "assistant")
        BY <2>1, <2>2
    <2> HIDE DEF turns
    <2> QED BY <1>3, <2>1, <2>2, <2>3, <2>4 DEF p
<1> QED BY <1>4, <1>5 DEF p

LEMMA SendStep == ASSUME IInv, Send PROVE IInv'
<1>1. /\ pc = "send" /\ pc' = "sent"
      /\ UNCHANGED <<flags, sent, asked, messages, compressed, model, original, saved, estimate, reply>>
      /\ UNCHANGED client
    BY DEF Send, client, prompt
<1>2. PICK api \in Apis :
        payload' = IF api = "anthropic" THEN convert_request(messages) ELSE model_dump(messages)
    BY DEF Send
<1>3. /\ payload'.system \in Seq(DOMAIN sent)
      /\ payload'.messages \in Seq([role : {"system", "user", "assistant", "tool"},
                                    content : DOMAIN sent])
      /\ SentAsLeft'
    BY <1>1, <1>2, TranslatedIsLeft
<1>4. payload'.api \in Apis
    <2>1. model_dump(messages).api = "openai" /\ convert_request(messages).api = "anthropic"
        BY DEF model_dump, convert_request
    <2> QED BY <1>2, <2>1, ApisAssumption
<1>5. reply = NoEstimate
    BY <1>1 DEF IInv, CostInv
<1>6. TypeOK'
    BY <1>1, <1>3, <1>4, <1>5 DEF IInv, TypeOK
<1>7. CostInv'
    <2>1. Predicted' = Predicted
        BY <1>1 DEF Predicted
    <2> QED BY <1>1, <1>5, <2>1, EstimateLeft
<1> QED BY <1>1, <1>3, <1>6, <1>7, MessagesLeft DEF IInv

LEMMA ReceiveStep == ASSUME IInv, Receive PROVE IInv'
<1>1. /\ pc = "sent" /\ pc' = "done"
      /\ UNCHANGED <<flags, sent, asked, messages, compressed, model, original, saved, estimate, payload>>
      /\ UNCHANGED client
      /\ reply' \in Replies(Tokens(messages, compressed))
    BY DEF Receive, client, prompt
<1>2. Replies(Tokens(messages, compressed))' = Replies(Tokens(messages, compressed))
    BY <1>1, SameLength DEF Replies, ExpectedOutput
<1>3. TypeOK'
    BY <1>1, <1>2 DEF IInv, TypeOK
<1>4. CostInv'
    <2>1. Predicted' = Predicted
        BY <1>1 DEF Predicted
    <2> QED BY <1>1, <2>1, EstimateLeft
<1> QED BY <1>1, <1>3, <1>4, MessagesLeft DEF IInv

LEMMA StepIInv == IInv /\ [Next]_vars => IInv'
<1> SUFFICES ASSUME IInv, [Next]_vars PROVE IInv'
    OBVIOUS
<1>1. CASE Optimize
    BY <1>1, OptimizeStep
<1>2. CASE LeaveContext \/ StartTrim \/ Route \/ RouteFails
    BY <1>2, EarlySteps
<1>3. CASE Prune
    BY <1>3, PruneStep
<1>4. CASE PruneFails
    BY <1>4, PruneFailsStep
<1>5. CASE Predict
    BY <1>5, PredictStep
<1>6. CASE Send
    BY <1>6, SendStep
<1>7. CASE Receive
    BY <1>7, ReceiveStep
<1>8. CASE Finished \/ UNCHANGED vars
    BY <1>8, StutterStep DEF Finished
<1>9. CASE Clear \/ Downgrade \/ ReceiveFails
    BY <1>9, LateSteps
<1> QED BY <1>1, <1>2, <1>3, <1>4, <1>5, <1>6, <1>7, <1>8, <1>9 DEF Next

LEMMA InvHolds == Spec => []IInv
BY InitIInv, StepIInv, PTL DEF Spec

-----------------------------------------------------------------------------
(* What is proved.                                                         *)

\* Whichever stages are enabled and whichever fail, every variable has its type: the
\* places that are left are places of the client's request, savings are no negative
\* number, a payload has the roles its API knows.
THEOREM Typed == Spec => []TypeOK
<1>1. IInv => TypeOK
    BY DEF IInv
<1> QED BY <1>1, InvHolds, PTL

\* For conversations of any length, in any order of similarity, any mixture of roles and
\* any repetitions, the trimmer keeps the system prompt, the latest messages and, of the
\* others, the nearest to the question; it leaves them in their order, but for those that
\* repeat an earlier one; and the provider is asked with what is left.
THEOREM ConversationsKept == Spec => []ConversationKept
<1>1. IInv => ConversationKept
    BY DEF IInv, Kept, ConversationKept
<1> QED BY <1>1, InvHolds, PTL

\* The savings that optimizer and trimmer report together do not exceed what is gone from
\* the text, up to the rounding of one count of tokens, however much they remove.
THEOREM SavingsAreReal == Spec => []SavingsReal
<1>1. IInv => SavingsReal
    BY DEF IInv
<1> QED BY <1>1, InvHolds, PTL

\* For all prices, lengths and counts the estimate endpoint does not quote less than the
\* pipeline predicts, and a call for which the provider does not count more than predicted
\* does not cost more, whatever cheaper model the budget exchanges for the one predicted.
THEOREM EstimatesCover == Spec => []EstimateCovers
<1>1. ASSUME IInv PROVE EstimateCovers
    <2> DEFINE n == Tokens(messages, compressed)
               all == Tokens(AllPlaces, {})
               a == reply.prompt_tokens
               x == reply.completion_tokens
               y == ExpectedOutput(n)
    <2> SUFFICES ASSUME estimate # NoEstimate
                 PROVE  /\ Predicted = asked => estimate <= QuotedCost
                        /\ /\ reply # NoEstimate /\ a <= n /\ x <= y
                           /\ model \in Catalog => /\ InputPrice[model] <= InputPrice[Predicted]
                                                   /\ OutputPrice[model] <= OutputPrice[Predicted]
                           => actual_cost(reply) <= estimate
        BY DEF EstimateCovers
    <2>1. PICK m \in Catalog : m = Predicted /\ estimate = n * InputPrice[m] + y * OutputPrice[m]
        BY <1>1 DEF IInv, TypeOK, CostInv, PredictedCost
    <2>2. n \in Nat /\ all \in Nat /\ n <= all
        BY <1>1, TokensLeft
    <2>3. QuotedCost = all * InputPrice[asked] + ExpectedOutput(all) * OutputPrice[asked]
        BY DEF QuotedCost, ExpectedOutput
    <2> HIDE DEF n, all
    <2>4. y \in Nat /\ ExpectedOutput(all) \in Nat /\ y <= ExpectedOutput(all)
        BY <2>2, ExpectedType
    <2>5. reply # NoEstimate => a \in Nat /\ x \in Nat
        <3>1. reply # NoEstimate => a \in {0, n} \cup Counts /\ x \in {0, y} \cup Counts
            BY <1>1 DEF IInv, TypeOK, Replies, n
        <3> HIDE DEF y, a, x
        <3>2. \A z \in {0, n} \cup Counts : z \in Nat
            BY <2>2, CountsAssumption
        <3>3. \A z \in {0, y} \cup Counts : z \in Nat
            BY <2>4, CountsAssumption
        <3> QED BY <3>1, <3>2, <3>3
    <2> HIDE DEF y
    <2>6. Predicted = asked => estimate <= QuotedCost
        BY <2>1, <2>2, <2>3, <2>4, CostType
    <2> HIDE DEF a, x
    <2>7. ASSUME reply # NoEstimate, a <= n, x <= y,
                 model \in Catalog => /\ InputPrice[model] <= InputPrice[m]
                                      /\ OutputPrice[model] <= OutputPrice[m]
          PROVE  actual_cost(reply) <= estimate
        <3>1. a \in Nat /\ x \in Nat
            BY <2>5, <2>7
        <3>2. CASE model \in Catalog
            <4>1. actual_cost(reply) = a * InputPrice[model] + x * OutputPrice[model]
                BY <3>2 DEF actual_cost, a, x
            <4>2. a * InputPrice[model] + x * OutputPrice[model]
                    <= n * InputPrice[m] + y * OutputPrice[m]
                BY <2>1, <2>2, <2>4, <2>7, <3>1, <3>2, DearerCosts
            <4> QED BY <2>1, <4>1, <4>2
        <3>3. CASE model \notin Catalog
            <4>1. actual_cost(reply) = 0
                BY <3>3 DEF actual_cost
            <4>2. n * InputPrice[m] + y * OutputPrice[m] \in Nat
                BY <2>1, <2>2, <2>4, CostType
            <4> QED BY <2>1, <4>1, <4>2
        <3> QED BY <3>2, <3>3
    <2> QED BY <2>1, <2>6, <2>7
<1> QED BY <1>1, InvHolds, PTL
=============================================================================
