---------------------------- MODULE DashboardProofs ----------------------------
(***************************************************************************)
(* The theorems of Analytics and Dashboard, for any number of readers and  *)
(* whatever is written between the reads of a page.  The rates and lifts   *)
(* of Analytics are sums over finite sets of boards; what they owe each    *)
(* other is proved from lemmas about sums.  To the store the dashboard is  *)
(* idle: every step is a step of MatchStore or leaves its tables alone, so *)
(* the store's theorems hold.  A page that was put together over several   *)
(* states then leans on what those states have in common: rows of a        *)
(* finalized match are frozen, and a patch some match was played on keeps  *)
(* its row, its id and, unless it is renamed, its version.                 *)
(***************************************************************************)
EXTENDS Dashboard, MatchBookProofs

-----------------------------------------------------------------------------
(* Sums.                                                                   *)

\* Induction over the subsets of a finite set.
LEMMA SubsetInduction ==
    ASSUME NEW D, IsFiniteSet(D), NEW T,
           \A s \in SUBSET D : (\A u \in SUBSET s : u # s => u \in T) => s \in T
    PROVE  \A s \in SUBSET D : s \in T
<1> SUFFICES ASSUME NEW r \in SUBSET D, r \notin T PROVE FALSE
    OBVIOUS
<1> DEFINE sizes == {n \in Nat : \E s \in SUBSET D : s \notin T /\ Cardinality(s) = n}
<1>1. \A s \in SUBSET D : IsFiniteSet(s) /\ Cardinality(s) \in Nat
    BY FS_Subset, FS_CardinalityType
<1>2. sizes \in SUBSET Nat /\ sizes # {}
    BY <1>1
<1>3. PICK n \in sizes : \A k \in sizes : n <= k
    BY <1>2, LeastElement
<1>4. PICK s \in SUBSET D : s \notin T /\ Cardinality(s) = n
    BY <1>3
<1>5. PICK u \in SUBSET s : u # s /\ u \notin T
    BY <1>4
<1>6. Cardinality(u) < Cardinality(s)
    <2>1. Cardinality(u) <= Cardinality(s) /\ (Cardinality(u) = Cardinality(s) => u = s)
        BY <1>1, <1>4, <1>5, FS_Subset
    <2>2. QED
        BY <1>1, <1>4, <1>5, <2>1
<1>7. Cardinality(u) \in sizes
    BY <1>1, <1>5
<1>8. QED
    BY <1>1, <1>3, <1>4, <1>5, <1>6, <1>7

\* The recursive function SumFunction is defined with.
Some(s) == CHOOSE x \in s : TRUE

Adds(F, iter) ==
    iter = [s \in SUBSET DOMAIN F |-> IF s = {} THEN 0 ELSE F[Some(s)] + iter[s \ {Some(s)}]]

Sums(F) == CHOOSE iter : Adds(F, iter)

LEMMA SumUnfolds == ASSUME NEW F PROVE SumFunction(F) = Sums(F)[DOMAIN F]
BY DEF SumFunction, SumFunctionOnSet, FoldFunctionOnSet, MapThenFoldSet, Adds, Some, Sums

\* The same recursion over the sets of at most n elements.
UpTo(F, n) == {s \in SUBSET DOMAIN F : Cardinality(s) <= n}
AddsUpTo(F, n, g) ==
    g = [s \in UpTo(F, n) |-> IF s = {} THEN 0 ELSE F[Some(s)] + g[s \ {Some(s)}]]

LEMMA SomeIn == ASSUME NEW s, s # {} PROVE Some(s) \in s
BY DEF Some

LEMMA SmallerSet ==
    ASSUME NEW D, IsFiniteSet(D), NEW s \in SUBSET D, NEW a \in s
    PROVE  /\ IsFiniteSet(s)
           /\ Cardinality(s) \in Nat
           /\ s \ {a} \in SUBSET D
           /\ Cardinality(s \ {a}) = Cardinality(s) - 1
BY FS_Subset, FS_CardinalityType, FS_RemoveElement

LEMMA NatInduct == ASSUME NEW T, 0 \in T, \A n \in Nat : n \in T => n + 1 \in T PROVE Nat \subseteq T
<1> SUFFICES ASSUME Nat \ T # {} PROVE FALSE
    OBVIOUS
<1>1. PICK n \in Nat \ T : \A k \in Nat \ T : n <= k
    BY LeastElement
<1>2. n - 1 \in Nat /\ n - 1 \in T
    BY <1>1
<1>3. QED
    BY <1>1, <1>2

LEMMA AddsExists ==
    ASSUME NEW F, IsFiniteSet(DOMAIN F)
    PROVE  Adds(F, Sums(F))
<1> DEFINE D == DOMAIN F
           T == {n \in Nat : \E g : AddsUpTo(F, n, g)}
<1>1. 0 \in T
    <2> DEFINE g == [s \in UpTo(F, 0) |-> 0]
    <2>1. \A s \in UpTo(F, 0) : s = {}
        <3>1. ASSUME NEW s \in SUBSET D, Cardinality(s) <= 0, s # {} PROVE FALSE
            <4>1. Cardinality(s) \in Nat /\ Cardinality(s \ {Some(s)}) = Cardinality(s) - 1
                BY <3>1, SomeIn, SmallerSet
            <4>2. Cardinality(s \ {Some(s)}) \in Nat
                BY <3>1, FS_Subset, FS_CardinalityType
            <4>3. QED
                BY <3>1, <4>1, <4>2
        <3>2. QED
            BY <3>1 DEF UpTo
    <2>2. AddsUpTo(F, 0, g)
        BY <2>1 DEF AddsUpTo
    <2>3. QED
        BY <2>2
<1>2. ASSUME NEW n \in Nat, n \in T PROVE n + 1 \in T
    <2>1. PICK g : AddsUpTo(F, n, g)
        BY <1>2
    <2> DEFINE h == [s \in UpTo(F, n + 1) |->
                        IF s = {} THEN 0 ELSE F[Some(s)] + g[s \ {Some(s)}]]
    <2>2. ASSUME NEW s \in UpTo(F, n + 1), s # {}
          PROVE  s \ {Some(s)} \in UpTo(F, n) /\ s \ {Some(s)} \in UpTo(F, n + 1)
        BY <1>2, <2>2, SomeIn, SmallerSet DEF UpTo
    <2>3. ASSUME NEW s \in UpTo(F, n) PROVE s \in UpTo(F, n + 1) /\ h[s] = g[s]
        <3>1. s \in UpTo(F, n + 1)
            <4>1. Cardinality(s) \in Nat
                BY <2>3, FS_Subset, FS_CardinalityType DEF UpTo
            <4>2. QED
                BY <1>2, <2>3, <4>1 DEF UpTo
        <3>2. g[s] = IF s = {} THEN 0 ELSE F[Some(s)] + g[s \ {Some(s)}]
            BY <2>1, <2>3 DEF AddsUpTo
        <3>3. QED
            BY <3>1, <3>2
    <2>4. ASSUME NEW s \in UpTo(F, n + 1)
          PROVE  h[s] = IF s = {} THEN 0 ELSE F[Some(s)] + h[s \ {Some(s)}]
        BY <2>2, <2>3, <2>4
    <2>5. AddsUpTo(F, n + 1, h)
        <3> HIDE DEF h
        <3>1. h = [s \in UpTo(F, n + 1) |-> h[s]]
            BY DEF h
        <3>2. QED
            BY <2>4, <3>1 DEF AddsUpTo
    <2>6. QED
        BY <2>5
<1>3. Cardinality(D) \in Nat /\ Cardinality(D) \in T
    BY <1>1, <1>2, NatInduct, FS_CardinalityType
<1>4. PICK g : AddsUpTo(F, Cardinality(D), g)
    BY <1>3
<1>5. UpTo(F, Cardinality(D)) = SUBSET D
    BY FS_Subset DEF UpTo
<1>6. Adds(F, g)
    BY <1>4, <1>5 DEF Adds, AddsUpTo
<1>7. QED
    BY <1>6 DEF Sums

LEMMA SumsOf ==
    ASSUME NEW F, IsFiniteSet(DOMAIN F), NEW s \in SUBSET DOMAIN F
    PROVE  Sums(F)[s] = IF s = {} THEN 0 ELSE F[Some(s)] + Sums(F)[s \ {Some(s)}]
BY AddsExists DEF Adds

LEMMA SumsType ==
    ASSUME NEW F, IsFiniteSet(DOMAIN F), \A x \in DOMAIN F : F[x] \in Int
    PROVE  \A s \in SUBSET DOMAIN F : Sums(F)[s] \in Int
<1> DEFINE T == {s \in SUBSET DOMAIN F : Sums(F)[s] \in Int}
<1>1. ASSUME NEW s \in SUBSET DOMAIN F, \A u \in SUBSET s : u # s => u \in T
      PROVE  s \in T
    <2>1. CASE s = {}
        BY <2>1, SumsOf
    <2>2. CASE s # {}
        <3>1. Some(s) \in s /\ Some(s) \in DOMAIN F
            BY <2>2, SomeIn
        <3>2. s \ {Some(s)} \in T
            BY <1>1, <3>1
        <3>3. Sums(F)[s] = F[Some(s)] + Sums(F)[s \ {Some(s)}]
            BY <2>2, SumsOf
        <3>4. QED
            BY <3>1, <3>2, <3>3
    <2>3. QED
        BY <2>1, <2>2
<1> HIDE DEF T
<1>2. \A s \in SUBSET DOMAIN F : s \in T
    BY <1>1, SubsetInduction
<1>3. QED
    BY <1>2 DEF T

\* The element that is added first does not matter.
LEMMA SumsTakeAny ==
    ASSUME NEW F, IsFiniteSet(DOMAIN F), \A x \in DOMAIN F : F[x] \in Int
    PROVE  \A s \in SUBSET DOMAIN F : \A a \in s : Sums(F)[s] = F[a] + Sums(F)[s \ {a}]
<1> DEFINE T == {s \in SUBSET DOMAIN F : \A a \in s : Sums(F)[s] = F[a] + Sums(F)[s \ {a}]}
<1>1. ASSUME NEW s \in SUBSET DOMAIN F, \A u \in SUBSET s : u # s => u \in T, NEW a \in s
      PROVE  Sums(F)[s] = F[a] + Sums(F)[s \ {a}]
    <2> DEFINE x == Some(s)
               rest == (s \ {x}) \ {a}
    <2>1. x \in s /\ Sums(F)[s] = F[x] + Sums(F)[s \ {x}]
        BY SomeIn, SumsOf
    <2>2. CASE x # a
        <3>1. Sums(F)[s \ {x}] = F[a] + Sums(F)[rest]
            BY <1>1, <2>1, <2>2
        <3>2. Sums(F)[s \ {a}] = F[x] + Sums(F)[(s \ {a}) \ {x}]
            BY <1>1, <2>1, <2>2
        <3>3. (s \ {a}) \ {x} = rest
            OBVIOUS
        <3>4. F[a] \in Int /\ F[x] \in Int /\ Sums(F)[rest] \in Int
            <4>1. a \in DOMAIN F /\ x \in DOMAIN F /\ rest \in SUBSET DOMAIN F
                BY <2>1
            <4>2. QED
                BY <4>1, SumsType
        <3>5. Sums(F)[s \ {a}] = F[x] + Sums(F)[rest]
            BY <3>2, <3>3
        <3>6. Sums(F)[s] = F[x] + (F[a] + Sums(F)[rest])
            BY <2>1, <3>1
        <3> HIDE DEF x, rest
        <3>7. F[x] + (F[a] + Sums(F)[rest]) = F[a] + (F[x] + Sums(F)[rest])
            BY <3>4
        <3>8. QED
            BY <3>5, <3>6, <3>7
    <2>3. QED
        BY <2>1, <2>2
<1>2. \A s \in SUBSET DOMAIN F : s \in T
    <2>1. ASSUME NEW s \in SUBSET DOMAIN F, \A u \in SUBSET s : u # s => u \in T
          PROVE  s \in T
        BY <1>1, <2>1
    <2> HIDE DEF T
    <2>2. QED
        BY <2>1, SubsetInduction
<1>3. QED
    BY <1>2

LEMMA SumsLocal ==
    ASSUME NEW F, NEW G, IsFiniteSet(DOMAIN F), DOMAIN G \subseteq DOMAIN F,
           \A x \in DOMAIN G : G[x] = F[x]
    PROVE  \A s \in SUBSET DOMAIN G : Sums(G)[s] = Sums(F)[s]
<1> DEFINE T == {s \in SUBSET DOMAIN G : Sums(G)[s] = Sums(F)[s]}
<1>1. IsFiniteSet(DOMAIN G)
    BY FS_Subset
<1>2. ASSUME NEW s \in SUBSET DOMAIN G, \A u \in SUBSET s : u # s => u \in T
      PROVE  s \in T
    <2>1. Sums(G)[s] = IF s = {} THEN 0 ELSE G[Some(s)] + Sums(G)[s \ {Some(s)}]
        BY <1>1, SumsOf
    <2>2. Sums(F)[s] = IF s = {} THEN 0 ELSE F[Some(s)] + Sums(F)[s \ {Some(s)}]
        BY SumsOf
    <2>3. QED
        BY <1>2, <2>1, <2>2, SomeIn
<1> HIDE DEF T
<1>3. \A s \in SUBSET DOMAIN G : s \in T
    BY <1>1, <1>2, SubsetInduction
<1>4. QED
    BY <1>3 DEF T


LEMMA FiniteInduction ==
    ASSUME NEW S, IsFiniteSet(S), NEW T, {} \in T,
           \A s \in SUBSET S : \A a \in S \ s : s \in T => s \cup {a} \in T
    PROVE  S \in T
<1>1. ASSUME NEW s \in SUBSET S, \A u \in SUBSET s : u # s => u \in T PROVE s \in T
    <2>1. CASE s = {}
        BY <2>1
    <2>2. CASE s # {}
        <3>1. PICK a : a \in s
            BY <2>2
        <3>2. s \ {a} \in T /\ a \in S \ (s \ {a}) /\ (s \ {a}) \cup {a} = s
            BY <1>1, <3>1
        <3>3. QED
            BY <3>2
    <2>3. QED
        BY <2>1, <2>2
<1>2. QED
    BY <1>1, SubsetInduction

LEMMA ImageFinite ==
    ASSUME NEW S, IsFiniteSet(S), NEW h
    PROVE  /\ IsFiniteSet({h[x] : x \in S})
           /\ Cardinality({h[x] : x \in S}) <= Cardinality(S)
           /\ (\A x, y \in S : h[x] = h[y] => x = y) =>
                Cardinality({h[x] : x \in S}) = Cardinality(S)
<1> DEFINE T == {h[x] : x \in S}
           f == [x \in S |-> h[x]]
<1>1. f \in Surjection(S, T)
    BY DEF Surjection
<1>2. (\A x, y \in S : h[x] = h[y] => x = y) => f \in Injection(S, T)
    BY DEF Injection, IsInjective
<1>3. QED
    BY <1>1, <1>2, FS_Surjection

LEMMA ImageSize ==
    ASSUME NEW S, IsFiniteSet(S), NEW h, \A x, y \in S : h[x] = h[y] => x = y
    PROVE  Cardinality({h[x] : x \in S}) = Cardinality(S)
BY ImageFinite

LEMMA DisjointUnion ==
    ASSUME NEW A, NEW B, IsFiniteSet(A), IsFiniteSet(B), A \cap B = {}
    PROVE  IsFiniteSet(A \cup B) /\ Cardinality(A \cup B) = Cardinality(A) + Cardinality(B)
<1>1. Cardinality(A \cup B) = Cardinality(A) + Cardinality(B) - Cardinality(A \cap B)
    BY FS_Union
<1>2. Cardinality(A \cap B) = 0
    BY FS_EmptySet
<1>3. Cardinality(A) \in Nat /\ Cardinality(B) \in Nat
    BY FS_CardinalityType
<1>4. QED
    BY <1>1, <1>2, <1>3, FS_Union

\* The sum of F over a set.
SumOn(F, S) == SumFunction([x \in S |-> F[x]])

LEMMA SumOnType ==
    ASSUME NEW F, NEW S, IsFiniteSet(S), \A x \in S : F[x] \in Int
    PROVE  SumOn(F, S) \in Int
BY SumUnfolds, SumsType DEF SumOn

LEMMA SumOnEmpty == ASSUME NEW F PROVE SumOn(F, {}) = 0
<1> DEFINE G == [x \in {} |-> F[x]]
<1>1. IsFiniteSet(DOMAIN G)
    BY FS_EmptySet
<1>2. Sums(G)[{}] = 0
    BY <1>1, SumsOf
<1>3. QED
    BY <1>2, SumUnfolds DEF SumOn

LEMMA SumOnAdd ==
    ASSUME NEW F, NEW S, IsFiniteSet(S), NEW a, a \notin S, \A x \in S \cup {a} : F[x] \in Int
    PROVE  SumOn(F, S \cup {a}) = SumOn(F, S) + F[a]
<1> DEFINE G == [x \in S \cup {a} |-> F[x]]
           H == [x \in S |-> F[x]]
<1>1. IsFiniteSet(S \cup {a})
    BY FS_AddElement
<1>2. Sums(G)[S \cup {a}] = G[a] + Sums(G)[(S \cup {a}) \ {a}]
    BY <1>1, SumsTakeAny
<1>3. (S \cup {a}) \ {a} = S
    OBVIOUS
<1>4. Sums(H)[S] = Sums(G)[S]
    BY <1>1, SumsLocal
<1>5. Sums(H)[S] \in Int
    BY SumsType
<1>6. SumOn(F, S \cup {a}) = F[a] + Sums(H)[S]
    BY <1>2, <1>3, <1>4, SumUnfolds DEF SumOn
<1>7. SumOn(F, S) = Sums(H)[S]
    BY SumUnfolds DEF SumOn
<1>8. QED
    BY <1>5, <1>6, <1>7

LEMMA SumOnSame ==
    ASSUME NEW F, NEW G, NEW S, \A x \in S : F[x] = G[x]
    PROVE  SumOn(F, S) = SumOn(G, S)
<1>1. [x \in S |-> F[x]] = [x \in S |-> G[x]]
    OBVIOUS
<1>2. QED
    BY <1>1 DEF SumOn

LEMMA SumOnUnion ==
    ASSUME NEW F, NEW A, NEW B, IsFiniteSet(A), IsFiniteSet(B), A \cap B = {},
           \A x \in A \cup B : F[x] \in Int
    PROVE  SumOn(F, A \cup B) = SumOn(F, A) + SumOn(F, B)
<1> DEFINE T == {s \in SUBSET B : SumOn(F, A \cup s) = SumOn(F, A) + SumOn(F, s)}
<1>1. {} \in T
    BY SumOnEmpty, SumOnType
<1>2. ASSUME NEW s \in SUBSET B, NEW b \in B \ s, s \in T PROVE s \cup {b} \in T
    <2>1. IsFiniteSet(s) /\ IsFiniteSet(A \cup s) /\ b \notin A \cup s
        BY <1>2, FS_Subset, FS_Union
    <2>2. SumOn(F, (A \cup s) \cup {b}) = SumOn(F, A \cup s) + F[b]
        BY <1>2, <2>1, SumOnAdd
    <2>3. SumOn(F, s \cup {b}) = SumOn(F, s) + F[b]
        BY <1>2, <2>1, SumOnAdd
    <2>4. SumOn(F, A) \in Int /\ SumOn(F, s) \in Int /\ F[b] \in Int
        BY <1>2, <2>1, SumOnType
    <2>5. (A \cup s) \cup {b} = A \cup (s \cup {b})
        OBVIOUS
    <2>6. SumOn(F, A \cup s) = SumOn(F, A) + SumOn(F, s)
        BY <1>2
    <2>7. SumOn(F, A \cup (s \cup {b})) = SumOn(F, A \cup s) + F[b]
        BY <2>2, <2>5
    <2>8. SumOn(F, A \cup (s \cup {b})) = SumOn(F, A) + SumOn(F, s \cup {b})
        BY <2>3, <2>4, <2>6, <2>7
    <2>9. QED
        BY <1>2, <2>8
<1> HIDE DEF T
<1>3. B \in T
    BY <1>1, <1>2, FiniteInduction
<1>4. QED
    BY <1>3 DEF T

\* A sum over a set is the sum over what the set maps to one by one.
LEMMA SumOnImage ==
    ASSUME NEW F, NEW G, NEW S, NEW h, IsFiniteSet(S),
           \A x, y \in S : h[x] = h[y] => x = y,
           \A x \in S : F[x] = G[h[x]] /\ F[x] \in Int
    PROVE  SumOn(F, S) = SumOn(G, {h[x] : x \in S})
<1> DEFINE Image(s) == {h[x] : x \in s}
           T == {s \in SUBSET S : SumOn(F, s) = SumOn(G, Image(s))}
<1>1. {} \in T
    <2>1. Image({}) = {}
        OBVIOUS
    <2>2. QED
        BY <2>1, SumOnEmpty
<1>2. ASSUME NEW s \in SUBSET S, NEW a \in S \ s, s \in T PROVE s \cup {a} \in T
    <2>1. IsFiniteSet(s) /\ IsFiniteSet(Image(s))
        <3>1. IsFiniteSet(s)
            BY FS_Subset
        <3>2. QED
            BY <3>1, ImageFinite
    <2>2. h[a] \notin Image(s) /\ Image(s \cup {a}) = Image(s) \cup {h[a]}
        BY <1>2
    <2>3. \A x \in s \cup {a} : F[x] \in Int
        OBVIOUS
    <2>4. \A y \in Image(s) \cup {h[a]} : G[y] \in Int
        BY <1>2
    <2>5. SumOn(F, s \cup {a}) = SumOn(F, s) + F[a]
        BY <1>2, <2>1, <2>3, SumOnAdd
    <2>6. SumOn(F, s) = SumOn(G, Image(s)) /\ F[a] = G[h[a]]
        BY <1>2
    <2> HIDE DEF Image
    <2>7. SumOn(G, Image(s) \cup {h[a]}) = SumOn(G, Image(s)) + G[h[a]]
        BY <2>1, <2>2, <2>4, SumOnAdd
    <2>8. QED
        BY <1>2, <2>2, <2>5, <2>6, <2>7
<1> HIDE DEF T
<1>3. S \in T
    BY <1>1, <1>2, FiniteInduction
<1>4. QED
    BY <1>3 DEF T

\* The elements of a set, counted by the value g gives them.
Fibre(S, g, p) == {x \in S : g[x] = p}

LEMMA CountByValue ==
    ASSUME NEW S, IsFiniteSet(S), NEW P, IsFiniteSet(P), NEW g, \A x \in S : g[x] \in P
    PROVE  SumOn([p \in P |-> Cardinality(Fibre(S, g, p))], P) = Cardinality(S)
<1> DEFINE N == [p \in P |-> Cardinality(Fibre(S, g, p))]
           Over(q) == {x \in S : g[x] \in q}
           T == {q \in SUBSET P : SumOn(N, q) = Cardinality(Over(q))}
<1>1. {} \in T
    <2>1. Over({}) = {}
        OBVIOUS
    <2>2. QED
        BY <2>1, SumOnEmpty, FS_EmptySet
<1>2. ASSUME NEW q \in SUBSET P, NEW p \in P \ q, q \in T PROVE q \cup {p} \in T
    <2>1. IsFiniteSet(q) /\ IsFiniteSet(Over(q)) /\ IsFiniteSet(Fibre(S, g, p))
        BY FS_Subset DEF Fibre
    <2>2. \A r \in P : N[r] \in Nat /\ N[r] \in Int
        BY FS_Subset, FS_CardinalityType DEF Fibre
    <2>3. SumOn(N, q \cup {p}) = SumOn(N, q) + N[p]
        <3> HIDE DEF N
        <3>1. QED
            BY <1>2, <2>1, <2>2, SumOnAdd
    <2>4. Over(q \cup {p}) = Over(q) \cup Fibre(S, g, p) /\ Over(q) \cap Fibre(S, g, p) = {}
        BY <1>2 DEF Fibre
    <2>5. Cardinality(Over(q \cup {p})) = Cardinality(Over(q)) + Cardinality(Fibre(S, g, p))
        BY <2>1, <2>4, DisjointUnion
    <2>6. N[p] = Cardinality(Fibre(S, g, p))
        OBVIOUS
    <2>7. SumOn(N, q \cup {p}) = Cardinality(Over(q \cup {p}))
        BY <1>2, <2>3, <2>5, <2>6
    <2>8. QED
        BY <1>2, <2>7
<1>3. P \in T
    <2> HIDE DEF T
    <2>1. QED
        BY <1>1, <1>2, FiniteInduction
<1>4. Over(P) = S
    OBVIOUS
<1>5. QED
    BY <1>3, <1>4

LEMMA SumOnConstant ==
    ASSUME NEW F, NEW S, IsFiniteSet(S), NEW c \in Nat, \A x \in S : F[x] = c
    PROVE  SumOn(F, S) = c * Cardinality(S)
<1> DEFINE T == {s \in SUBSET S : SumOn(F, s) = c * Cardinality(s)}
<1>1. {} \in T
    BY SumOnEmpty, FS_EmptySet
<1>2. ASSUME NEW s \in SUBSET S, NEW a \in S \ s, s \in T PROVE s \cup {a} \in T
    <2>1. IsFiniteSet(s) /\ Cardinality(s) \in Nat
        BY FS_Subset, FS_CardinalityType
    <2>2. Cardinality(s \cup {a}) = Cardinality(s) + 1
        BY <2>1, FS_AddElement
    <2>3. SumOn(F, s \cup {a}) = SumOn(F, s) + F[a]
        BY <2>1, SumOnAdd
    <2>4. SumOn(F, s) = c * Cardinality(s) /\ F[a] = c
        BY <1>2
    <2>5. c * (Cardinality(s) + 1) = c * Cardinality(s) + c
        BY <2>1
    <2>6. QED
        BY <2>2, <2>3, <2>4, <2>5
<1> HIDE DEF T
<1>3. S \in T
    BY <1>1, <1>2, FiniteInduction
<1>4. QED
    BY <1>3 DEF T

\* Every value, weighed by how often it is taken, is the sum of the values.
LEMMA WeighByValue ==
    ASSUME NEW S, IsFiniteSet(S), NEW P \in SUBSET Nat, IsFiniteSet(P),
           NEW g, \A x \in S : g[x] \in P
    PROVE  SumOn([p \in P |-> p * Cardinality(Fibre(S, g, p))], P) = SumOn(g, S)
<1>0. \A x \in S : g[x] \in Int
    <2>1. \A p \in P : p \in Int
        OBVIOUS
    <2>2. QED
        BY <2>1
<1> DEFINE W == [p \in P |-> p * Cardinality(Fibre(S, g, p))]
           Over(q) == {x \in S : g[x] \in q}
           T == {q \in SUBSET P : SumOn(W, q) = SumOn(g, Over(q))}
<1>1. {} \in T
    <2>1. Over({}) = {}
        OBVIOUS
    <2>2. QED
        BY <2>1, SumOnEmpty
<1>2. ASSUME NEW q \in SUBSET P, NEW p \in P \ q, q \in T PROVE q \cup {p} \in T
    <2>1. IsFiniteSet(q) /\ IsFiniteSet(Over(q)) /\ IsFiniteSet(Fibre(S, g, p))
        BY FS_Subset DEF Fibre
    <2>2. \A r \in P : W[r] \in Int
        <3>1. ASSUME NEW r \in P PROVE W[r] \in Int
            <4>1. Cardinality(Fibre(S, g, r)) \in Nat
                BY FS_Subset, FS_CardinalityType DEF Fibre
            <4>2. QED
                BY <4>1
        <3>2. QED
            BY <3>1
    <2>3. SumOn(W, q \cup {p}) = SumOn(W, q) + W[p]
        <3> HIDE DEF W
        <3>1. QED
            BY <2>1, <2>2, SumOnAdd
    <2>4. Over(q \cup {p}) = Over(q) \cup Fibre(S, g, p) /\ Over(q) \cap Fibre(S, g, p) = {}
        BY DEF Fibre
    <2>5. \A x \in Over(q) \cup Fibre(S, g, p) : g[x] \in Int
        <3>1. Over(q) \cup Fibre(S, g, p) \subseteq S
            BY DEF Fibre
        <3> HIDE DEF Over
        <3>2. QED
            BY <1>0, <3>1
    <2>6. SumOn(g, Over(q) \cup Fibre(S, g, p)) = SumOn(g, Over(q)) + SumOn(g, Fibre(S, g, p))
        <3> HIDE DEF Over
        <3>1. QED
            BY <2>1, <2>4, <2>5, SumOnUnion
    <2>7. SumOn(g, Fibre(S, g, p)) = p * Cardinality(Fibre(S, g, p))
        <3>1. p \in Nat /\ \A x \in Fibre(S, g, p) : g[x] = p
            BY DEF Fibre
        <3>2. QED
            BY <2>1, <3>1, SumOnConstant
    <2>8. W[p] = p * Cardinality(Fibre(S, g, p))
        OBVIOUS
    <2>9. SumOn(W, q) = SumOn(g, Over(q))
        BY <1>2
    <2> HIDE DEF W, Over
    <2>10. SumOn(W, q \cup {p}) = SumOn(g, Over(q \cup {p}))
        BY <2>3, <2>4, <2>6, <2>7, <2>8, <2>9
    <2>11. QED
        BY <2>10
<1>3. P \in T
    <2> HIDE DEF T
    <2>1. QED
        BY <1>1, <1>2, FiniteInduction
<1>4. Over(P) = S
    OBVIOUS
<1>5. QED
    BY <1>3, <1>4

-----------------------------------------------------------------------------
(* Steps of the store.                                                     *)

LEMMA PatchRowStep ==
    ASSUME NEW p \in CodexIds("patches"), NEW v
    PROVE  /\ CreatePatch(v) => Next
           /\ DeletePatch(p) => Next
           /\ UpdatePatch(p, v) => UNCHANGED store
<1>1. "patches" \in CodexTables
    BY DEF CodexTables
<1>2. QED
    BY <1>1 DEF CreatePatch, DeletePatch, UpdatePatch, Next, CodexStep

LEMMA ReadersWriteNothing == ASSUME NEW w, ShowPage(w) PROVE UNCHANGED <<store, version>>
BY DEF ShowPage, Ask, ResolvePatch, CountLineups, QueryRows, QueryPlaces, ListPatches, Leave

LEMMA DashboardStep == [DashNext]_dashVars => [Next]_store
<1> SUFFICES ASSUME [DashNext]_dashVars PROVE [Next]_store
    OBVIOUS
<1>1. CASE EditBoards
    BY <1>1 DEF EditBoards, Next
<1>2. ASSUME NEW v, CreatePatch(v) PROVE Next
    BY <1>2 DEF CreatePatch, Next, CodexStep, CodexTables
<1>3. ASSUME NEW p \in CodexIds("patches"), NEW v, UpdatePatch(p, v) PROVE UNCHANGED store
    BY <1>3, PatchRowStep
<1>4. ASSUME NEW p \in CodexIds("patches"), DeletePatch(p) PROVE Next
    BY <1>4, PatchRowStep
<1>5. ASSUME NEW w, ShowPage(w) PROVE UNCHANGED store
    BY <1>5, ReadersWriteNothing
<1>6. CASE UNCHANGED dashVars
    BY <1>6 DEF dashVars
<1>7. QED
    BY <1>1, <1>2, <1>3, <1>4, <1>5, <1>6 DEF DashNext

\* Under the dashboard and the patch editor the tables go through steps of the store alone
\* (dashboard.go and matches.go only read; codex_misc.go writes patches as the store does):
\* all that is proved of MatchStore holds here.
THEOREM DashboardKeepsStore == DashSpec => Spec
<1>1. DashInit => Init
    BY DEF DashInit
<1>2. QED
    BY <1>1, DashboardStep, PTL DEF DashSpec, Spec

\* The matches under the dashboard are the book of games: readers and the patch editor
\* add no edit of their own.
THEOREM DashboardImplementsBook == DashSpec => ImplementsBook
BY DashboardKeepsStore, StoreImplementsBook, PTL

-----------------------------------------------------------------------------
(* Pages.                                                                  *)

Stops == {"idle", "patch", "count", "rows", "places", "patches", "shown"}

\* The pages of all readers, with the fields of NoPage; a page has rows after they were
\* queried and a filter after the patch was looked up.
Pages ==
    /\ DOMAIN version = CodexIds("patches")
    /\ at \in [Readers -> Stops]
    /\ DOMAIN url = Readers /\ url = [w \in Readers |-> url[w]]
    /\ DOMAIN page = Readers /\ page = [w \in Readers |-> page[w]]
    /\ \A w \in Readers :
        /\ page[w] = [filter |-> page[w].filter, used |-> page[w].used,
                      count |-> page[w].count, rows |-> page[w].rows,
                      places |-> page[w].places, select |-> page[w].select]
        /\ at[w] \in {"idle", "patch"} => page[w] = NoPage
        /\ at[w] \in {"count", "rows"} => page[w].rows = << >>
        /\ at[w] # "idle" => url[w] \in Urls

LEMMA PagesInit == DashInit => Pages
<1> SUFFICES ASSUME DashInit PROVE Pages
    OBVIOUS
<1>1. NoPage = [filter |-> NoPage.filter, used |-> NoPage.used, count |-> NoPage.count,
                rows |-> NoPage.rows, places |-> NoPage.places, select |-> NoPage.select]
    BY DEF NoPage
<1>2. ASSUME NEW w \in Readers PROVE at[w] = "idle" /\ page[w] = NoPage
    BY DEF DashInit
<1>3. at \in [Readers -> Stops]
    BY DEF DashInit, Stops
<1>4. QED
    BY <1>1, <1>2, <1>3 DEF DashInit, Pages

LEMMA PagesStep == Pages /\ [DashNext]_dashVars => Pages'
<1> SUFFICES ASSUME Pages, [DashNext]_dashVars PROVE Pages'
    OBVIOUS
<1>1. CASE EditBoards
    BY <1>1 DEF EditBoards, Pages, dashboard
<1>2. ASSUME NEW v, CreatePatch(v) PROVE Pages'
    BY <1>2 DEF CreatePatch, Pages, dashboard
<1>3. ASSUME NEW p, NEW v, UpdatePatch(p, v) \/ DeletePatch(p) PROVE Pages'
    BY <1>3 DEF UpdatePatch, DeletePatch, Pages, dashboard
<1>4. ASSUME NEW w \in Readers, NEW u \in Urls, Ask(w, u) PROVE Pages'
    BY <1>4 DEF Ask, Move, Pages, Stops
<1>5. ASSUME NEW w \in Readers, ResolvePatch(w) PROVE Pages'
    <2>1. PICK f, used : page' = [page EXCEPT ![w].filter = f, ![w].used = used]
        BY <1>5 DEF ResolvePatch
    <2>2. page[w].rows = << >>
        BY <1>5 DEF ResolvePatch, Pages, NoPage
    <2>3. page'[w] = [filter |-> f, used |-> used, count |-> page[w].count,
                      rows |-> page[w].rows, places |-> page[w].places,
                      select |-> page[w].select]
        <3>1. page'[w] = [page[w] EXCEPT !.filter = f, !.used = used]
            BY <2>1 DEF Pages
        <3>2. page[w] = [filter |-> page[w].filter, used |-> page[w].used,
                         count |-> page[w].count, rows |-> page[w].rows,
                         places |-> page[w].places, select |-> page[w].select]
            BY DEF Pages
        <3>3. QED
            BY <3>1, <3>2
    <2>4. /\ DOMAIN page' = Readers /\ page' = [x \in Readers |-> page'[x]]
          /\ \A x \in Readers \ {w} : page'[x] = page[x]
        BY <2>1 DEF Pages
    <2>5. at' \in [Readers -> Stops] /\ at'[w] \in {"count", "rows"}
          /\ \A x \in Readers \ {w} : at'[x] = at[x]
        BY <1>5 DEF ResolvePatch, Move, Pages, Stops
    <2>6. /\ page'[w] = [filter |-> page'[w].filter, used |-> page'[w].used,
                         count |-> page'[w].count, rows |-> page'[w].rows,
                         places |-> page'[w].places, select |-> page'[w].select]
          /\ page'[w].rows = << >>
        BY <2>2, <2>3
    <2>7. UNCHANGED <<version, url>> /\ at[w] # "idle"
        BY <1>5 DEF ResolvePatch
    <2>8. QED
        BY <2>4, <2>5, <2>6, <2>7 DEF Pages
<1>6. ASSUME NEW w \in Readers, CountLineups(w) PROVE Pages'
    BY <1>6 DEF CountLineups, Move, Pages, Stops
<1>7. ASSUME NEW w \in Readers, QueryRows(w) PROVE Pages'
    BY <1>7 DEF QueryRows, Move, Pages, Stops
<1>8. ASSUME NEW w \in Readers, QueryPlaces(w) PROVE Pages'
    BY <1>8 DEF QueryPlaces, Move, Pages, Stops
<1>9. ASSUME NEW w \in Readers, ListPatches(w) PROVE Pages'
    BY <1>9 DEF ListPatches, Move, Pages, Stops
<1>10. ASSUME NEW w \in Readers, Leave(w) PROVE Pages'
    BY <1>10 DEF Leave, Move, Pages, Stops, NoPage
<1>11. CASE UNCHANGED dashVars
    BY <1>11 DEF dashVars, dashboard, Pages
<1>12. QED
    BY <1>1, <1>2, <1>3, <1>4, <1>5, <1>6, <1>7, <1>8, <1>9, <1>10, <1>11
       DEF DashNext, ShowPage

LEMMA PagesAlways == DashSpec => []Pages
BY PagesInit, PagesStep, PTL DEF DashSpec

-----------------------------------------------------------------------------
(* The patch of a page.                                                    *)

\* No operation deletes a match or moves it to another patch.
LEMMA MatchKept ==
    ASSUME Shape, [Next]_store, NEW m \in DOMAIN matches
    PROVE  m \in DOMAIN matches' /\ matches'[m].patch = matches[m].patch
<1>1. ASSUME NEW patch, NEW source, CreateMatchShell(patch, source)
      PROVE  m \in DOMAIN matches' /\ matches'[m] = matches[m]
    <2>1. PICK high \in 0..(MaxMatches - 1) :
            /\ IsHighest(high, DOMAIN matches)
            /\ matches' = Insert(matches, high + 1,
                                 [patch |-> patch, source |-> source, finalizedAt |-> 0])
        BY <1>1 DEF CreateMatchShell
    <2>2. DOMAIN matches \in SUBSET Nat /\ high \in Nat
        BY DEF Shape, TypeOK, IsTable, MatchIds
    <2>3. high + 1 # m
        BY <2>1, <2>2, HighestIsFresh
    <2>4. QED
        BY <2>1, <2>3 DEF Insert
<1>2. ASSUME NEW n, NEW now, FinalizeMatch(n, now)
      PROVE  m \in DOMAIN matches' /\ matches'[m].patch = matches[m].patch
    BY <1>2 DEF FinalizeMatch, Shape, TypeOK, IsTable, MatchRow
<1>3. CASE LineupStep \/ SlotStep \/ CodexStep
    BY <1>3, BoardStepsKeepMatches
<1>4. QED
    BY <1>1, <1>2, <1>3 DEF Next, MatchStep, store

LEMMA PlayedKept == ASSUME Shape, [Next]_store, NEW p, Played(p) PROVE Played(p)'
BY MatchKept DEF Played

LEMMA PlayedListed ==
    ASSUME Shape, HistoryKept, NEW p, Played(p)
    PROVE  p \in codex["patches"] /\ p \in CodexIds("patches") /\ p \notin {AnyPatch, UnknownPatch}
<1>1. p \in codex["patches"] /\ p \in CodexIds("patches")
    BY DEF Played, HistoryKept, Shape, TypeOK, IsTable, MatchRow
<1>2. MaxRows["patches"] \in Nat
    BY MatchStoreAssumption DEF CodexTables
<1>3. QED
    BY <1>1, <1>2 DEF CodexIds, AnyPatch, UnknownPatch

\* What PatchAsNamed needs before the page is shown: the patch of the filter has a match,
\* so that its row cannot go and its id is not handed out again, and everything drawn so
\* far names it as the URL does.
Named(w) ==
    /\ version[page[w].filter.patch] = url[w].version
    /\ page[w].select.offered # {} => page[w].select.shown = url[w].version
    /\ url[w].tab = "matches" =>
            \A m \in DOMAIN page[w].rows : page[w].rows[m].version = url[w].version

PatchPinned ==
    \A w \in Readers : page[w].used =>
        Played(page[w].filter.patch) /\ (w \notin renamed => Named(w))

LEMMA PinnedInit == DashInit => PatchPinned
BY DEF DashInit, PatchPinned, NoPage

\* The steps of other requests.
LEMMA PinnedOthers ==
    ASSUME Shape, HistoryKept, Pages, PatchPinned, [Next]_store,
           UNCHANGED dashboard, renamed \subseteq renamed',
           \A w \in Readers : page[w].used /\ w \notin renamed' =>
                version'[page[w].filter.patch] = version[page[w].filter.patch]
    PROVE  PatchPinned'
BY PlayedKept DEF PatchPinned, Named, dashboard

LEMMA PinnedCreatePatch ==
    ASSUME Shape, HistoryKept, Pages, PatchPinned, NEW v, CreatePatch(v)
    PROVE  PatchPinned'
<1>1. [Next]_store
    BY DEF CreatePatch, Next, CodexStep, CodexTables
<1>2. ASSUME NEW w \in Readers, page[w].used
      PROVE  version'[page[w].filter.patch] = version[page[w].filter.patch]
    <2>1. page[w].filter.patch \in codex["patches"] /\ page[w].filter.patch \in CodexIds("patches")
        BY <1>2, PlayedListed DEF PatchPinned
    <2>2. QED
        BY <2>1 DEF CreatePatch, Pages
<1>3. QED
    BY <1>1, <1>2, PinnedOthers DEF CreatePatch

LEMMA PinnedDeletePatch ==
    ASSUME Shape, HistoryKept, Pages, PatchPinned, NEW p \in CodexIds("patches"), DeletePatch(p)
    PROVE  PatchPinned'
<1>1. [Next]_store
    BY PatchRowStep
<1>2. ASSUME NEW w \in Readers, page[w].used
      PROVE  version'[page[w].filter.patch] = version[page[w].filter.patch]
    <2>1. page[w].filter.patch # p
        BY <1>2 DEF PatchPinned, Played, DeletePatch, DeleteCodexRow, Referenced
    <2>2. page[w].filter.patch \in CodexIds("patches")
        BY <1>2, PlayedListed DEF PatchPinned
    <2>3. QED
        BY <2>1, <2>2 DEF DeletePatch, Pages
<1>3. QED
    BY <1>1, <1>2, PinnedOthers DEF DeletePatch

LEMMA PinnedUpdatePatch ==
    ASSUME Shape, HistoryKept, Pages, PatchPinned,
           NEW p \in CodexIds("patches"), NEW v, UpdatePatch(p, v)
    PROVE  PatchPinned'
<1>1. [Next]_store
    BY PatchRowStep
<1>2. ASSUME NEW w \in Readers, page[w].used, w \notin renamed'
      PROVE  version'[page[w].filter.patch] = version[page[w].filter.patch]
    <2>1. page[w].filter.patch # p \/ version[p] = v
        BY <1>2 DEF UpdatePatch
    <2>2. page[w].filter.patch \in CodexIds("patches")
        BY <1>2, PlayedListed DEF PatchPinned
    <2>3. QED
        BY <2>1, <2>2 DEF UpdatePatch, Pages
<1>3. QED
    BY <1>1, <1>2, PinnedOthers DEF UpdatePatch

\* The steps of a reader leave the pages of the others alone.
LEMMA PinnedReader ==
    ASSUME Pages, Pages', PatchPinned, NEW w \in Readers, ShowPage(w),
           UNCHANGED renamed \/ renamed' = renamed \ {w},
           page'[w].used => Played(page[w].filter.patch)' /\ (w \notin renamed' => Named(w)')
    PROVE  PatchPinned'
<1>1. UNCHANGED <<store, version>>
    BY ReadersWriteNothing
<1>2. ASSUME NEW x \in Readers \ {w} PROVE page'[x] = page[x] /\ url'[x] = url[x]
    BY <1>2 DEF ShowPage, Ask, ResolvePatch, CountLineups, QueryRows, QueryPlaces,
                ListPatches, Leave, Pages
<1>3. matches' = matches
    BY <1>1 DEF store
<1>4. ASSUME NEW x \in Readers, page'[x].used
      PROVE  Played(page[x].filter.patch)' /\ (x \notin renamed' => Named(x)')
    <2>1. CASE x = w
        BY <1>4, <2>1
    <2>2. CASE x # w
        BY <1>1, <1>2, <1>3, <1>4, <2>2 DEF PatchPinned, Named, Played
    <2>3. QED
        BY <2>1, <2>2
<1>5. QED
    BY <1>4 DEF PatchPinned

\* What a step writes into one field of the page of its reader.
LEMMA FieldWritten ==
    ASSUME Pages, NEW w \in Readers, NEW x
    PROVE  /\ page' = [page EXCEPT ![w].count = x] =>
                /\ page'[w].filter = page[w].filter
                /\ page'[w].used = page[w].used
                /\ page'[w].rows = page[w].rows
                /\ page'[w].select = page[w].select
           /\ page' = [page EXCEPT ![w].places = x] =>
                /\ page'[w].filter = page[w].filter
                /\ page'[w].used = page[w].used
                /\ page'[w].rows = page[w].rows
                /\ page'[w].select = page[w].select
           /\ page' = [page EXCEPT ![w].rows = x] =>
                /\ page'[w].filter = page[w].filter
                /\ page'[w].used = page[w].used
                /\ page'[w].rows = x
                /\ page'[w].select = page[w].select
           /\ page' = [page EXCEPT ![w].select = x] =>
                /\ page'[w].filter = page[w].filter
                /\ page'[w].used = page[w].used
                /\ page'[w].rows = page[w].rows
                /\ page'[w].select = x
<1>1. page[w] = [filter |-> page[w].filter, used |-> page[w].used,
                 count |-> page[w].count, rows |-> page[w].rows,
                 places |-> page[w].places, select |-> page[w].select]
    BY DEF Pages
<1>2. page' = [page EXCEPT ![w].count = x] => page'[w] = [page[w] EXCEPT !.count = x]
    BY DEF Pages
<1>3. page' = [page EXCEPT ![w].places = x] => page'[w] = [page[w] EXCEPT !.places = x]
    BY DEF Pages
<1>4. page' = [page EXCEPT ![w].rows = x] => page'[w] = [page[w] EXCEPT !.rows = x]
    BY DEF Pages
<1>5. page' = [page EXCEPT ![w].select = x] => page'[w] = [page[w] EXCEPT !.select = x]
    BY DEF Pages
<1>6. QED
    BY <1>1, <1>2, <1>3, <1>4, <1>5

LEMMA SelectWritten ==
    ASSUME Pages, NEW w \in Readers, NEW x, page' = [page EXCEPT ![w].select = x]
    PROVE  /\ page'[w].filter = page[w].filter
           /\ page'[w].used = page[w].used
           /\ page'[w].rows = page[w].rows
           /\ page'[w].select = x
<1>1. page'[w] = [page[w] EXCEPT !.select = x]
    BY DEF Pages
<1>2. page[w] = [filter |-> page[w].filter, used |-> page[w].used,
                 count |-> page[w].count, rows |-> page[w].rows,
                 places |-> page[w].places, select |-> page[w].select]
    BY DEF Pages
<1>3. QED
    BY <1>1, <1>2

LEMMA RowsWritten ==
    ASSUME Pages, NEW w \in Readers, NEW x, page' = [page EXCEPT ![w].rows = x]
    PROVE  page'[w].rows = x
<1>1. page'[w] = [page[w] EXCEPT !.rows = x]
    BY DEF Pages
<1>2. page[w] = [filter |-> page[w].filter, used |-> page[w].used,
                 count |-> page[w].count, rows |-> page[w].rows,
                 places |-> page[w].places, select |-> page[w].select]
    BY DEF Pages
<1>3. QED
    BY <1>1, <1>2

\* The lookup finds a patch under the version of the URL, or none that is played.
LEMMA ResolvedPatch ==
    ASSUME Pages, NEW w \in Readers, ResolvePatch(w)
    PROVE  \E p : /\ page'[w].filter.patch = p
                  /\ page'[w].filter.source = url[w].source
                  /\ page'[w].used = Played(p)
                  /\ page'[w].rows = << >>
                  /\ page'[w].select = NoPage.select
                  /\ (p \in codex["patches"] /\ version[p] = url[w].version) \/ p \in {UnknownPatch, AnyPatch}
<1>1. PICK p : /\ page' = [page EXCEPT ![w].filter = [patch |-> p, source |-> url[w].source],
                                       ![w].used = Played(p)]
               /\ (p \in codex["patches"] /\ version[p] = url[w].version) \/ p \in {UnknownPatch, AnyPatch}
    BY DEF ResolvePatch
<1>2. page[w] = NoPage
    BY DEF ResolvePatch, Pages
<1>3. page'[w] = [NoPage EXCEPT !.filter = [patch |-> p, source |-> url[w].source],
                                !.used = Played(p)]
    BY <1>1, <1>2 DEF Pages
<1>4. /\ page'[w].filter = [patch |-> p, source |-> url[w].source]
      /\ page'[w].used = Played(p)
      /\ page'[w].rows = << >>
      /\ page'[w].select = NoPage.select
    BY <1>3 DEF NoPage
<1>5. page'[w].filter.patch = p /\ page'[w].filter.source = url[w].source
    BY <1>4
<1>6. QED
    BY <1>1, <1>4, <1>5

LEMMA PinnedResolve ==
    ASSUME Shape, HistoryKept, Pages, NEW w \in Readers, ResolvePatch(w), page'[w].used
    PROVE  Played(page[w].filter.patch)' /\ Named(w)'
<1>1. PICK p : /\ page'[w].filter.patch = p
               /\ page'[w].used = Played(p)
               /\ page'[w].rows = << >>
               /\ page'[w].select = NoPage.select
               /\ (p \in codex["patches"] /\ version[p] = url[w].version) \/ p \in {UnknownPatch, AnyPatch}
    BY ResolvedPatch
<1>2. Played(p)
    BY <1>1
<1>3. version[p] = url[w].version
    BY <1>1, <1>2, PlayedListed
<1>4. UNCHANGED <<matches, version, url>>
    BY DEF ResolvePatch, store
<1>5. NoPage.select.offered = {}
    BY DEF NoPage
<1>6. QED
    BY <1>1, <1>2, <1>3, <1>4, <1>5 DEF Played, Named

\* The rows of the match list name the patch of the filter.
LEMMA ListedVersion ==
    ASSUME NEW f, f.patch # AnyPatch, NEW state, NEW m \in DOMAIN ListMatches(f, state)
    PROVE  /\ m \in DOMAIN matches
           /\ MatchesBody(ListMatches(f, state))[m].version = version[f.patch]
BY DEF ListMatches, MatchesBody

LEMMA PinnedRows ==
    ASSUME Shape, HistoryKept, Pages, PatchPinned, NEW w \in Readers, QueryRows(w),
           page'[w].used
    PROVE  Played(page[w].filter.patch)' /\ (w \notin renamed' => Named(w)')
<1>1. /\ page'[w].filter = page[w].filter
      /\ page'[w].used = page[w].used
      /\ page'[w].rows = Table(url[w], page[w].filter)
      /\ page'[w].select = page[w].select
    BY FieldWritten DEF QueryRows
<1>2. Played(page[w].filter.patch) /\ (w \notin renamed => Named(w))
    BY <1>1 DEF PatchPinned
<1>3. UNCHANGED <<matches, version, url, renamed>>
    BY DEF QueryRows, store
<1>4. ASSUME url[w].tab = "matches", w \notin renamed, NEW m \in DOMAIN page'[w].rows
      PROVE  page'[w].rows[m].version = url[w].version
    <2>1. page'[w].rows = MatchesBody(ListMatches(page[w].filter, url[w].state))
        BY <1>1, <1>4 DEF Table
    <2>2. DOMAIN page'[w].rows = DOMAIN ListMatches(page[w].filter, url[w].state)
        BY <2>1 DEF MatchesBody
    <2>3. page[w].filter.patch # AnyPatch
        BY <1>2, PlayedListed
    <2>4. page'[w].rows[m].version = version[page[w].filter.patch]
        BY <1>4, <2>1, <2>2, <2>3, ListedVersion
    <2>5. QED
        BY <1>2, <1>4, <2>4 DEF Named
<1>5. QED
    BY <1>1, <1>2, <1>3, <1>4 DEF Played, Named

\* Both selects name the patch of a page that looked it up while it was played.
LEMMA SelectNames ==
    ASSUME Shape, HistoryKept, NEW w \in Readers, Played(page[w].filter.patch), Named(w),
           NEW listed \in {<< >>, [p \in codex["patches"] |-> version[p]]}
    PROVE  FilterRow(w, listed).offered # {} => FilterRow(w, listed).shown = url[w].version
<1>1. /\ page[w].filter.patch \in codex["patches"]
      /\ page[w].filter.patch \notin {AnyPatch, UnknownPatch}
      /\ version[page[w].filter.patch] = url[w].version
    BY PlayedListed DEF Named
<1>2. ASSUME Offered(listed) # {}
      PROVE  listed = [p \in codex["patches"] |-> version[p]]
    <2>1. Offered(<< >>) = {}
        BY DEF Offered
    <2>2. QED
        BY <1>2, <2>1
<1>3. IdSelect(page[w].filter, listed).offered # {}
        => IdSelect(page[w].filter, listed).shown = url[w].version
    BY <1>1, <1>2 DEF IdSelect
<1>4. VersionSelect(url[w], listed).offered # {}
        => VersionSelect(url[w], listed).shown = url[w].version
    <2>1. ASSUME Offered(listed) # {}
          PROVE  url[w].version \in Offered(listed)
        BY <1>1, <1>2, <2>1 DEF Offered
    <2>2. QED
        BY <2>1 DEF VersionSelect
<1>5. page[w].select.offered # {} => page[w].select.shown = url[w].version
    BY DEF Named
<1>6. CASE url[w].tab = "matches"
    BY <1>3, <1>6 DEF FilterRow
<1>7. CASE url[w].tab # "matches" /\ ~url[w].hx
    BY <1>4, <1>7 DEF FilterRow
<1>8. CASE url[w].tab # "matches" /\ url[w].hx
    BY <1>5, <1>8 DEF FilterRow
<1>9. QED
    BY <1>6, <1>7, <1>8

LEMMA PinnedList ==
    ASSUME Shape, HistoryKept, Pages, PatchPinned, NEW w \in Readers, ListPatches(w),
           page'[w].used
    PROVE  Played(page[w].filter.patch)' /\ (w \notin renamed' => Named(w)')
<1>1. PICK listed \in {<< >>, [p \in codex["patches"] |-> version[p]]} :
        page' = [page EXCEPT ![w].select = FilterRow(w, listed)]
    BY DEF ListPatches
<1>2. PICK row : row = FilterRow(w, listed)
    OBVIOUS
<1>3. /\ page'[w].filter = page[w].filter
      /\ page'[w].used = page[w].used
      /\ page'[w].rows = page[w].rows
      /\ page'[w].select = row
    BY <1>1, <1>2, SelectWritten
<1>4. Played(page[w].filter.patch) /\ (w \notin renamed => Named(w))
    BY <1>3 DEF PatchPinned
<1>5. UNCHANGED <<matches, version, url, renamed>>
    BY DEF ListPatches, store
<1>6. w \notin renamed => (row.offered # {} => row.shown = url[w].version)
    BY <1>2, <1>4, SelectNames
<1>7. QED
    BY <1>3, <1>4, <1>5, <1>6 DEF Played, Named

LEMMA PinnedStep ==
    Shape /\ HistoryKept /\ Pages /\ PatchPinned /\ [DashNext]_dashVars => PatchPinned'
<1> SUFFICES ASSUME Shape, HistoryKept, Pages, PatchPinned, [DashNext]_dashVars
             PROVE  PatchPinned'
    OBVIOUS
<1>1. Pages' /\ [Next]_store
    BY PagesStep, DashboardStep
<1>2. CASE EditBoards
    BY <1>1, <1>2, PinnedOthers DEF EditBoards
<1>3. ASSUME NEW w \in Readers, ShowPage(w) PROVE PatchPinned'
    <2>1. ASSUME page'[w].used
          PROVE  Played(page[w].filter.patch)' /\ (w \notin renamed' => Named(w)')
        <3>1. ASSUME NEW u, Ask(w, u) PROVE FALSE
            BY <2>1, <3>1 DEF Ask, Pages, NoPage
        <3>2. CASE CountLineups(w) \/ QueryPlaces(w)
            <4>1. /\ page'[w].filter = page[w].filter
                  /\ page'[w].used = page[w].used
                  /\ page'[w].rows = page[w].rows
                  /\ page'[w].select = page[w].select
                BY <3>2, FieldWritten DEF CountLineups, QueryPlaces
            <4>2. UNCHANGED <<matches, version, url, renamed>>
                BY <3>2 DEF CountLineups, QueryPlaces, store
            <4>3. QED
                BY <2>1, <4>1, <4>2 DEF PatchPinned, Named, Played
        <3>3. CASE Leave(w)
            BY <2>1, <3>3 DEF Leave, Pages, NoPage
        <3>4. QED
            BY <1>3, <2>1, <3>1, <3>2, <3>3, PinnedResolve, PinnedRows, PinnedList DEF ShowPage
    <2>2. UNCHANGED renamed \/ renamed' = renamed \ {w}
        BY <1>3 DEF ShowPage, Ask, ResolvePatch, CountLineups, QueryRows, QueryPlaces,
                    ListPatches, Leave
    <2>3. QED
        BY <1>1, <1>3, <2>1, <2>2, PinnedReader
<1>4. CASE UNCHANGED dashVars
    BY <1>1, <1>4, PinnedOthers DEF dashVars
<1>5. QED
    BY <1>2, <1>3, <1>4, PinnedCreatePatch, PinnedUpdatePatch, PinnedDeletePatch DEF DashNext

LEMMA StoreUnderDashboard == DashSpec => [](Shape /\ HistoryKept /\ FinalizedLegal)
BY DashboardKeepsStore, ShapeAlways, HistoryAlwaysKept, FinalizedStaysLegal, PTL

\* dashboard.go looks a version up once and reads by patch id from then on: a page about a
\* patch that was played shows that patch in every part, although it is read over several
\* states in which patches are deleted and ids handed out again.
THEOREM PatchStaysAsNamed == DashSpec => []PatchAsNamed
<1>1. Pages /\ PatchPinned => PatchAsNamed
    BY DEF Pages, PatchPinned, PatchAsNamed, Named, Shown
<1>2. DashSpec => []PatchPinned
    BY PinnedInit, PinnedStep, StoreUnderDashboard, PagesAlways, PTL DEF DashSpec
<1>3. QED
    BY <1>1, <1>2, PagesAlways, PTL

-----------------------------------------------------------------------------
(* Final rows of the match list.                                           *)

\* What the finalize rule asks for fills the pips.
LEMMA LegalFillsPips ==
    ASSUME Shape, NEW m \in DOMAIN matches, Legal(m)
    PROVE  Cardinality(LineupsOf(m)) = RequiredTotal(matches[m].source)
<1>1. IsFiniteSet(LineupsOf(m))
    BY LineupsFinite DEF Shape
<1>2. CASE matches[m].source = "me"
    <2>1. PICK l : LineupsOf(m) = {l}
        BY <1>2 DEF Legal
    <2>2. QED
        BY <1>2, <2>1, FS_Singleton DEF RequiredTotal
<1>3. CASE matches[m].source # "me"
    <2>1. \A p \in Placements : \E l \in LineupsOf(m) :
                \A k \in LineupsOf(m) : lineups[k].placement = p <=> k = l
        BY <1>3 DEF Legal
    <2> DEFINE placed == [l \in LineupsOf(m) |-> lineups[l].placement]
    <2>2. \A l \in LineupsOf(m) : lineups[l].placement \in Placements
        BY DEF Shape, TypeOK, IsTable, LineupRow, LineupsOf
    <2>3. placed \in Surjection(LineupsOf(m), Placements)
        BY <2>1, <2>2 DEF Surjection
    <2>4. placed \in Injection(LineupsOf(m), Placements)
        BY <2>1, <2>2 DEF Injection, IsInjective
    <2>5. Cardinality(LineupsOf(m)) = Cardinality(Placements)
        BY <1>1, <2>3, <2>4, FS_Surjection
    <2>6. Cardinality(Placements) = MaxPlacement
        BY FS_Interval, DomainAssumption DEF Placements
    <2>7. QED
        BY <1>3, <2>5, <2>6 DEF RequiredTotal
<1>4. QED
    BY <1>2, <1>3

\* What FinalRowsStay says of one row, and that the match is final.
Settled(m, row) ==
    /\ m \in DOMAIN matches
    /\ matches[m].finalizedAt > 0
    /\ row.source = matches[m].source
    /\ row.pips = <<Cardinality(LineupsOf(m)), RequiredTotal(row.source)>>
    /\ row.pips[1] = row.pips[2]

FinalRows ==
    \A w \in Readers : url[w].tab = "matches" =>
        \A m \in DOMAIN page[w].rows :
            page[w].rows[m].state = "final" => Settled(m, page[w].rows[m])

LEMMA FinalRowsInit == DashInit => FinalRows
BY DEF DashInit, FinalRows, NoUrl

\* Whatever is written, a settled row stays one.
LEMMA SettledKept ==
    ASSUME Shape, [Next]_store, NEW m, NEW row, Settled(m, row)
    PROVE  Settled(m, row)'
<1>1. CASE Next
    <2>1. m \in DOMAIN matches /\ matches[m].finalizedAt > 0
        BY DEF Settled
    <2>2. PICK t : Open(t) /\ EditsOnly(t)
        BY <1>1, EditsOneMatch
    <2>3. m # t
        BY <2>1, <2>2 DEF Open
    <2>4. Shape'
        BY ShapeStep
    <2>5. /\ m \in DOMAIN matches'
          /\ matches'[m] = matches[m]
          /\ LineupsOf(m)' = LineupsOf(m)
        BY <2>1, <2>2, <2>3, <2>4, OtherMatchKept
    <2>6. QED
        BY <2>5 DEF Settled
<1>2. CASE UNCHANGED store
    <2>1. matches' = matches /\ lineups' = lineups
        BY <1>2 DEF store
    <2>2. LineupsOf(m)' = LineupsOf(m)
        BY <2>1 DEF LineupsOf
    <2>3. QED
        BY <2>1, <2>2 DEF Settled
<1>3. QED
    BY <1>1, <1>2

\* A row that the query calls final is settled.
LEMMA ListedSettled ==
    ASSUME Shape, FinalizedLegal, NEW f, NEW state, NEW m \in DOMAIN ListMatches(f, state),
           MatchesBody(ListMatches(f, state))[m].state = "final"
    PROVE  Settled(m, MatchesBody(ListMatches(f, state))[m])
<1> DEFINE row == MatchesBody(ListMatches(f, state))[m]
<1>1. m \in DOMAIN matches
    BY DEF ListMatches
<1>2. /\ row.state = MatchState(matches[m])
      /\ row.source = matches[m].source
      /\ row.pips = <<Cardinality(LineupsOf(m)), RequiredTotal(matches[m].source)>>
    BY DEF ListMatches, MatchesBody
<1>3. matches[m].finalizedAt > 0
    BY <1>2 DEF MatchState
<1>4. Cardinality(LineupsOf(m)) = RequiredTotal(matches[m].source)
    BY <1>1, <1>3, LegalFillsPips DEF FinalizedLegal, Legal
<1>5. QED
    BY <1>1, <1>2, <1>3, <1>4 DEF Settled

LEMMA FinalRowsStep ==
    Shape /\ FinalizedLegal /\ Pages /\ FinalRows /\ [DashNext]_dashVars => FinalRows'
<1> SUFFICES ASSUME Shape, FinalizedLegal, Pages, FinalRows, [DashNext]_dashVars
             PROVE  FinalRows'
    OBVIOUS
<1>1. [Next]_store
    BY DashboardStep
<1>2. ASSUME NEW w \in Readers, url'[w].tab = "matches", NEW m \in DOMAIN page'[w].rows,
             page'[w].rows[m].state = "final",
             page'[w].rows = page[w].rows, url'[w] = url[w]
      PROVE  Settled(m, page[w].rows[m])'
    <2>1. PICK row : row = page[w].rows[m]
        OBVIOUS
    <2>2. Settled(m, row)
        BY <1>2, <2>1 DEF FinalRows
    <2>3. Settled(m, row)'
        BY <1>1, <2>2, SettledKept
    <2>4. QED
        BY <1>2, <2>1, <2>3
<1>3. ASSUME UNCHANGED <<url, page>> PROVE FinalRows'
    BY <1>2, <1>3 DEF FinalRows
<1>4. ASSUME NEW x \in Readers, ShowPage(x), NEW w \in Readers, url'[w].tab = "matches",
             NEW m \in DOMAIN page'[w].rows, page'[w].rows[m].state = "final"
      PROVE  Settled(m, page[w].rows[m])'
    <2>1. CASE w # x
        <3>1. page'[w] = page[w] /\ url'[w] = url[w]
            BY <1>4, <2>1 DEF ShowPage, Ask, ResolvePatch, CountLineups, QueryRows, QueryPlaces,
                              ListPatches, Leave, Pages
        <3>2. QED
            BY <1>2, <1>4, <3>1
    <2>2. CASE w = x /\ QueryRows(w)
        <3>1. page'[w].rows = Table(url[w], page[w].filter)
            <4>1. page' = [page EXCEPT ![w].rows = Table(url[w], page[w].filter)]
                BY <2>2 DEF QueryRows
            <4>2. QED
                BY <4>1, RowsWritten
        <3>2. page'[w].rows = MatchesBody(ListMatches(page[w].filter, url[w].state))
            <4>1. url[w].tab = "matches"
                BY <1>4, <2>2 DEF QueryRows
            <4>2. QED
                BY <3>1, <4>1 DEF Table
        <3>3. DOMAIN page'[w].rows = DOMAIN ListMatches(page[w].filter, url[w].state)
            BY <3>2 DEF MatchesBody
        <3>4. Settled(m, page'[w].rows[m])
            BY <1>4, <3>2, <3>3, ListedSettled
        <3>5. UNCHANGED <<matches, lineups>>
            BY <2>2 DEF QueryRows, store
        <3>6. QED
            BY <3>4, <3>5 DEF Settled, LineupsOf
    <2>3. CASE w = x /\ (CountLineups(w) \/ QueryPlaces(w) \/ ListPatches(w))
        <3>1. PICK v : \/ page' = [page EXCEPT ![w].count = v]
                       \/ page' = [page EXCEPT ![w].places = v]
                       \/ page' = [page EXCEPT ![w].select = v]
            <4>1. CASE CountLineups(w)
                BY <4>1 DEF CountLineups
            <4>2. CASE QueryPlaces(w)
                BY <4>2 DEF QueryPlaces
            <4>3. CASE ListPatches(w)
                BY <4>3 DEF ListPatches
            <4>4. QED
                BY <2>3, <4>1, <4>2, <4>3
        <3>2. page'[w].rows = page[w].rows /\ url' = url
            BY <2>3, <3>1, FieldWritten DEF CountLineups, QueryPlaces, ListPatches
        <3>3. QED
            BY <1>2, <1>4, <3>2
    <2>4. CASE w = x /\ ResolvePatch(w)
        <3>1. page'[w].rows = << >>
            BY <2>4, ResolvedPatch
        <3>2. QED
            BY <1>4, <3>1
    <2>5. CASE w = x /\ Leave(w)
        BY <1>4, <2>5 DEF Leave, Pages, NoUrl
    <2>6. ASSUME w = x, NEW u, Ask(w, u) PROVE FALSE
        BY <1>4, <2>6 DEF Ask, Pages, NoPage
    <2>7. QED
        BY <1>4, <2>1, <2>2, <2>3, <2>4, <2>5, <2>6 DEF ShowPage
<1>5. QED
    <2>1. EditBoards \/ UNCHANGED dashVars => UNCHANGED <<url, page>>
        BY DEF EditBoards, dashVars, dashboard
    <2>2. \A v : CreatePatch(v) => UNCHANGED <<url, page>>
        BY DEF CreatePatch, dashboard
    <2>3. \A p, v : UpdatePatch(p, v) \/ DeletePatch(p) => UNCHANGED <<url, page>>
        BY DEF UpdatePatch, DeletePatch, dashboard
    <2>4. ASSUME NEW x \in Readers, ShowPage(x) PROVE FinalRows'
        BY <1>4, <2>4 DEF FinalRows
    <2>5. QED
        BY <1>3, <2>1, <2>2, <2>3, <2>4 DEF DashNext

\* The match list (matches.go) calls a match final only when its lineups are complete, and
\* a row it calls final stays true as long as the list is on the screen: the count of the
\* lineups was joined in the same query, and no later write reaches the match.
THEOREM FinalRowsStayTrue == DashSpec => []FinalRowsStay
<1>1. FinalRows => FinalRowsStay
    BY DEF FinalRows, FinalRowsStay, Settled
<1>2. DashSpec => []FinalRows
    BY FinalRowsInit, FinalRowsStep, StoreUnderDashboard, PagesAlways, PTL DEF DashSpec
<1>3. QED
    BY <1>1, <1>2, PTL

LEMMA TablesFinite ==
    ASSUME Shape
    PROVE  IsFiniteSet(DOMAIN lineups) /\ IsFiniteSet(DOMAIN slots)
<1>1. IsFiniteSet(LineupIds) /\ IsFiniteSet(SlotIds)
    BY FS_Interval, MatchStoreAssumption DEF LineupIds, SlotIds
<1>2. DOMAIN lineups \subseteq LineupIds /\ DOMAIN slots \subseteq SlotIds
    BY DEF Shape, TypeOK, IsTable
<1>3. QED
    BY <1>1, <1>2, FS_Subset

\* "pick rate: share of lineups in view that played the hero" (frontend-design.md:341):
\* stats.sql counts cells, and they are as many as the lineups when no board in view has
\* the hero twice.
THEOREM PickRateAlwaysShare == Spec => []PickRateIsShare
<1>1. ASSUME Shape PROVE PickRateIsShare
    <2> SUFFICES ASSUME NEW f \in Filters, NEW h \in DOMAIN HeroPerformance(f),
                        \A s, t \in Picks(f, h) : slots[s].lineup = slots[t].lineup => s = t
                 PROVE  LET playing == {slots[s].lineup : s \in Picks(f, h)}
                        IN /\ SameValue(PickRate(HeroRow(f, h)),
                                        Rate(Cardinality(playing), LineupsInView(f)))
                           /\ Cardinality(playing) <= LineupsInView(f)
        BY DEF PickRateIsShare
    <2> DEFINE playing == {slots[s].lineup : s \in Picks(f, h)}
               lineupOf == [s \in Picks(f, h) |-> slots[s].lineup]
    <2>1. IsFiniteSet(Picks(f, h)) /\ IsFiniteSet(Scope(f))
        BY <1>1, TablesFinite, FS_Subset DEF Picks, CellsInView, Scope
    <2>2. lineupOf \in Surjection(Picks(f, h), playing)
        BY DEF Surjection
    <2>3. lineupOf \in Injection(Picks(f, h), playing)
        BY DEF Injection, IsInjective
    <2>4. Cardinality(playing) = Cardinality(Picks(f, h))
        BY <2>1, <2>2, <2>3, FS_Surjection
    <2>5. playing \subseteq Scope(f)
        BY DEF Picks, CellsInView
    <2>6. Cardinality(playing) <= Cardinality(Scope(f))
        BY <2>1, <2>5, FS_Subset
    <2>7. PickRate(HeroRow(f, h)) = Rate(Cardinality(playing), LineupsInView(f))
        BY <2>4 DEF PickRate, HeroRow
    <2>8. QED
        BY <2>6, <2>7 DEF SameValue, LineupsInView
<1>2. QED
    BY <1>1, ShapeAlways, PTL

LEMMA PlacesKnown ==
    ASSUME Shape
    PROVE  /\ \A l \in DOMAIN lineups : lineups[l].placement \in Placements
           /\ \A s \in DOMAIN slots : PlaceOf(s) \in Placements
BY DEF Shape, TypeOK, OwnersExist, IsTable, LineupRow, PlaceOf

LEMMA PlacementsFinite == IsFiniteSet(Placements) /\ Placements \subseteq Nat
BY FS_Interval, DomainAssumption DEF Placements

\* The bars of a row add up to what was counted: what is counted is paired with one place.
LEMMA FinishesTotal ==
    ASSUME NEW S, IsFiniteSet(S), NEW g, \A x \in S : g[x] \in Placements
    PROVE  Total8(Finishes({<<x, g[x]>> : x \in S})) = Cardinality(S)
<1> DEFINE places == {<<x, g[x]>> : x \in S}
           pair == [x \in S |-> <<x, g[x]>>]
           second == [y \in places |-> y[2]]
           N == [p \in Placements |-> Cardinality(Fibre(places, second, p))]
<1>1. places = {pair[x] : x \in S}
    OBVIOUS
<1>2. \A x, y \in S : pair[x] = pair[y] => x = y
    OBVIOUS
<1>3. IsFiniteSet(places) /\ Cardinality(places) = Cardinality(S)
    <2> HIDE DEF pair, places
    <2>1. QED
        BY <1>1, <1>2, ImageFinite
<1>4. SumOn(N, Placements) = Cardinality(places)
    <2>1. \A y \in places : second[y] \in Placements
        OBVIOUS
    <2> HIDE DEF second, places
    <2>2. QED
        BY <1>3, <2>1, PlacementsFinite, CountByValue
<1>5. Finishes(places) = [p \in Placements |-> N[p]]
    BY DEF Finishes, Fibre
<1>6. QED
    BY <1>3, <1>4, <1>5 DEF Total8, SumOn

\* One bar counts what was counted at its place.
LEMMA BarCount ==
    ASSUME NEW S, IsFiniteSet(S), NEW g, NEW p \in Placements
    PROVE  Finishes({<<x, g[x]>> : x \in S})[p] = Cardinality(Fibre(S, g, p))
<1> DEFINE places == {<<x, g[x]>> : x \in S}
           pair == [x \in Fibre(S, g, p) |-> <<x, g[x]>>]
<1>1. {y \in places : y[2] = p} = {pair[x] : x \in Fibre(S, g, p)}
    <2>1. ASSUME NEW x \in Fibre(S, g, p) PROVE pair[x] \in places /\ pair[x][2] = p
        BY DEF Fibre
    <2>2. ASSUME NEW y \in places, y[2] = p
          PROVE  \E x \in Fibre(S, g, p) : y = pair[x]
        <3>1. PICK x \in S : y = <<x, g[x]>>
            OBVIOUS
        <3>2. x \in Fibre(S, g, p)
            BY <2>2, <3>1 DEF Fibre
        <3>3. QED
            BY <3>1, <3>2
    <2> HIDE DEF pair, places
    <2>3. QED
        BY <2>1, <2>2
<1>2. \A x, y \in Fibre(S, g, p) : pair[x] = pair[y] => x = y
    OBVIOUS
<1>3. IsFiniteSet(Fibre(S, g, p))
    BY FS_Subset DEF Fibre
<1>4. Cardinality({pair[x] : x \in Fibre(S, g, p)}) = Cardinality(Fibre(S, g, p))
    <2> HIDE DEF pair
    <2>1. QED
        BY <1>2, <1>3, ImageFinite
<1>5. Finishes(places)[p] = Cardinality({y \in places : y[2] = p})
    BY DEF Finishes
<1>6. QED
    BY <1>1, <1>4, <1>5

LEMMA ScopeParts ==
    ASSUME Shape, NEW f
    PROVE  /\ IsFiniteSet(Scope(f)) /\ Scope(f) \subseteq DOMAIN lineups
           /\ IsFiniteSet(CellsInView(f)) /\ CellsInView(f) \subseteq DOMAIN slots
BY TablesFinite, FS_Subset DEF Scope, CellsInView

LEMMA HeldFinite == ASSUME Shape, NEW f, NEW i PROVE IsFiniteSet(HeldRows(f, i))
<1>1. IsFiniteSet(1..MaxStack)
    BY FS_Interval, MatchStoreAssumption
<1>2. IsFiniteSet(CellsInView(f) \X (1..MaxStack))
    BY <1>1, ScopeParts, FS_Product
<1>3. QED
    BY <1>2, FS_Subset DEF HeldRows

LEMMA HeroBars == ASSUME Shape, NEW f, NEW h PROVE HeroBarsAgree(HeroRow(f, h))
<1> DEFINE S == Picks(f, h)
           g == [s \in S |-> PlaceOf(s)]
           row == HeroRow(f, h)
<1>1. IsFiniteSet(S) /\ S \subseteq DOMAIN slots
    BY ScopeParts, FS_Subset DEF Picks
<1>2. \A s \in S : g[s] \in Placements
    BY <1>1, PlacesKnown
<1>3. row.finishes = Finishes({<<s, g[s]>> : s \in S})
    <2>1. {<<s, PlaceOf(s)>> : s \in S} = {<<s, g[s]>> : s \in S}
        OBVIOUS
    <2>2. QED
        BY <2>1 DEF HeroRow
<1>4. row.picks = Cardinality(S) /\ row.avgPlace.sum = SumOn(g, S)
    BY DEF HeroRow, MeanCell, SumOn
<1>5. row.top4 = Cardinality({s \in S : g[s] \in TopPlaces})
    <2>1. {s \in S : PlaceOf(s) \in TopPlaces} = {s \in S : g[s] \in TopPlaces}
        OBVIOUS
    <2>2. QED
        BY <2>1 DEF HeroRow
<1> HIDE DEF S, g, row
<1>6. Total8(row.finishes) = row.picks
    BY <1>1, <1>2, <1>3, <1>4, FinishesTotal
<1>7. \A p \in Placements : row.finishes[p] = Cardinality(Fibre(S, g, p))
    BY <1>1, <1>3, BarCount
<1>8. SumFunction([p \in TopPlaces |-> row.finishes[p]]) = row.top4
    <2> DEFINE top == {s \in S : g[s] \in TopPlaces}
               N == [p \in TopPlaces |-> Cardinality(Fibre(top, g, p))]
    <2>1. IsFiniteSet(top) /\ \A s \in top : g[s] \in TopPlaces
        BY <1>1, FS_Subset
    <2>2. TopPlaces \subseteq Placements /\ IsFiniteSet(TopPlaces)
        <3>1. MaxPlacement \div 2 \in Nat /\ MaxPlacement \div 2 <= MaxPlacement
            BY DomainAssumption
        <3>2. QED
            BY <3>1, FS_Interval, DomainAssumption DEF TopPlaces, Placements
    <2>3. \A p \in TopPlaces : Fibre(top, g, p) = Fibre(S, g, p)
        BY DEF Fibre
    <2>4. \A p \in TopPlaces : row.finishes[p] = N[p]
        BY <1>7, <2>2, <2>3
    <2>5. [p \in TopPlaces |-> row.finishes[p]] = [p \in TopPlaces |-> N[p]]
        <3> HIDE DEF N
        <3>1. QED
            BY <2>4
    <2>6. SumOn(N, TopPlaces) = Cardinality(top)
        <3> HIDE DEF top
        <3>1. QED
            BY <2>1, <2>2, CountByValue
    <2>7. row.top4 = Cardinality(top)
        BY <1>5
    <2> HIDE DEF N, top
    <2>8. QED
        BY <2>5, <2>6, <2>7 DEF SumOn
<1>9. SumFunction([p \in Placements |-> p * row.finishes[p]]) = row.avgPlace.sum
    <2> DEFINE W == [p \in Placements |-> p * Cardinality(Fibre(S, g, p))]
    <2>1. [p \in Placements |-> p * row.finishes[p]] = [p \in Placements |-> W[p]]
        BY <1>7
    <2>2. SumOn(W, Placements) = SumOn(g, S)
        BY <1>1, <1>2, PlacementsFinite, WeighByValue
    <2> HIDE DEF W
    <2>3. QED
        BY <1>4, <2>1, <2>2 DEF SumOn
<1>10. QED
    BY <1>6, <1>8, <1>9 DEF HeroBarsAgree, row

LEMMA SynergyBars ==
    ASSUME Shape, NEW f, NEW y, NEW c
    PROVE  Total8(SynergyRow(f, y, c).finishes) = SynergyRow(f, y, c).lineups
<1> DEFINE fielding == {l \in Scope(f) : Cardinality(Units(l, y)) >= c}
           g == [l \in fielding |-> lineups[l].placement]
<1>1. IsFiniteSet(fielding) /\ fielding \subseteq DOMAIN lineups
    BY ScopeParts, FS_Subset
<1>2. \A l \in fielding : g[l] \in Placements
    BY <1>1, PlacesKnown
<1>3. {<<l, lineups[l].placement>> : l \in fielding} = {<<l, g[l]>> : l \in fielding}
    OBVIOUS
<1>4. Total8(Finishes({<<l, g[l]>> : l \in fielding})) = Cardinality(fielding)
    <2> HIDE DEF g, fielding
    <2>1. QED
        BY <1>1, <1>2, FinishesTotal
<1>5. QED
    BY <1>3, <1>4 DEF SynergyRow

LEMMA ItemBars ==
    ASSUME Shape, NEW f, NEW i
    PROVE  Total8(ItemRow(f, i).finishes) = ItemRow(f, i).slotsWith
<1> DEFINE held == HeldRows(f, i)
           g == [h \in held |-> PlaceOf(h[1])]
<1>1. IsFiniteSet(held)
    BY HeldFinite
<1>2. \A h \in held : g[h] \in Placements
    BY ScopeParts, PlacesKnown DEF HeldRows
<1>3. {<<h, PlaceOf(h[1])>> : h \in held} = {<<h, g[h]>> : h \in held}
    OBVIOUS
<1>4. Total8(Finishes({<<h, g[h]>> : h \in held})) = Cardinality(held)
    <2> HIDE DEF g, held
    <2>1. QED
        BY <1>1, <1>2, FinishesTotal
<1>5. QED
    BY <1>3, <1>4 DEF ItemRow

LEMMA RelicBars ==
    ASSUME Shape, NEW f, NEW r
    PROVE  Total8(RelicRow(f, r).finishes) = RelicRow(f, r).lineups
<1> DEFINE holding == Holding(f, r)
           g == [l \in holding |-> lineups[l].placement]
<1>1. IsFiniteSet(holding) /\ holding \subseteq DOMAIN lineups
    BY ScopeParts, FS_Subset DEF Holding
<1>2. \A l \in holding : g[l] \in Placements
    BY <1>1, PlacesKnown
<1>3. {<<l, lineups[l].placement>> : l \in holding} = {<<l, g[l]>> : l \in holding}
    OBVIOUS
<1>4. Total8(Finishes({<<l, g[l]>> : l \in holding})) = Cardinality(holding)
    <2> HIDE DEF g, holding
    <2>1. QED
        BY <1>1, <1>2, FinishesTotal
<1>5. QED
    BY <1>3, <1>4 DEF RelicRow

LEMMA PlacesAddUp ==
    ASSUME Shape, NEW f
    PROVE  PlacesTotal(NetworthByPlacement(f)) = LineupsInView(f)
<1> DEFINE S == Scope(f)
           g == [l \in S |-> lineups[l].placement]
           P == {q \in Placements : {l \in S : lineups[l].placement = q} # {}}
           N == [p \in P |-> Cardinality(Fibre(S, g, p))]
           table == NetworthByPlacement(f)
<1>1. IsFiniteSet(S) /\ S \subseteq DOMAIN lineups
    BY ScopeParts
<1>2. IsFiniteSet(P) /\ \A l \in S : g[l] \in P
    BY <1>1, PlacementsFinite, PlacesKnown, FS_Subset
<1>3. SumOn(N, P) = Cardinality(S)
    <2> HIDE DEF g, P, S
    <2>1. QED
        BY <1>1, <1>2, CountByValue
<1>4. DOMAIN table = P /\ \A p \in P : table[p].n = N[p]
    BY DEF NetworthByPlacement, Fibre
<1>5. [p \in DOMAIN table |-> table[p].n] = [p \in P |-> N[p]]
    <2> HIDE DEF table, P, N
    <2>1. QED
        BY <1>4
<1>6. QED
    BY <1>3, <1>5 DEF PlacesTotal, SumOn, LineupsInView

\* service.go and the queries: the eight bars of every row stand for its whole sample, each
\* cell or lineup under one place, and the networth table for all lineups in view; a hero's
\* top 4 and average are those of its bars.
THEOREM SamplesAlwaysAddUp == Spec => []SamplesAddUp
<1>1. ASSUME Shape PROVE SamplesAddUp
    <2> SUFFICES ASSUME NEW f \in Filters
                 PROVE  /\ \A h \in DOMAIN HeroPerformance(f) :
                                HeroBarsAgree(HeroPerformance(f)[h])
                        /\ \A yc \in DOMAIN SynergyPerformance(f) :
                                Total8(SynergyPerformance(f)[yc].finishes)
                                    = SynergyPerformance(f)[yc].lineups
                        /\ \A i \in DOMAIN ItemPerformance(f) :
                                Total8(ItemPerformance(f)[i].finishes)
                                    = ItemPerformance(f)[i].slotsWith
                        /\ \A r \in DOMAIN RelicPerformance(f) :
                                Total8(RelicPerformance(f)[r].finishes)
                                    = RelicPerformance(f)[r].lineups
                        /\ PlacesTotal(NetworthByPlacement(f)) = LineupsInView(f)
        BY DEF SamplesAddUp
    <2>1. \A h \in DOMAIN HeroPerformance(f) : HeroPerformance(f)[h] = HeroRow(f, h)
        BY DEF HeroPerformance
    <2>2. \A yc \in DOMAIN SynergyPerformance(f) :
                SynergyPerformance(f)[yc] = SynergyRow(f, yc[1], yc[2])
        BY DEF SynergyPerformance
    <2>3. \A i \in DOMAIN ItemPerformance(f) : ItemPerformance(f)[i] = ItemRow(f, i)
        BY DEF ItemPerformance
    <2>4. \A r \in DOMAIN RelicPerformance(f) : RelicPerformance(f)[r] = RelicRow(f, r)
        BY DEF RelicPerformance
    <2>5. QED
        BY <1>1, <2>1, <2>2, <2>3, <2>4, HeroBars, SynergyBars, ItemBars, RelicBars, PlacesAddUp
<1>2. QED
    BY <1>1, ShapeAlways, PTL

\* The placements of a set of lineups, as a sum.
PlaceOfLineup == [l \in DOMAIN lineups |-> lineups[l].placement]

LEMMA PlacesAreInts == ASSUME Shape PROVE \A l \in DOMAIN lineups : PlaceOfLineup[l] \in Int
<1>1. \A l \in DOMAIN lineups : lineups[l].placement \in Placements
    BY PlacesKnown
<1>2. \A p \in Placements : p \in Int
    BY DomainAssumption DEF Placements
<1>3. QED
    BY <1>1, <1>2 DEF PlaceOfLineup

LEMMA MeanIsSum ==
    ASSUME Shape, NEW ls \in SUBSET DOMAIN lineups
    PROVE  /\ MeanPlace(ls) = [n |-> Cardinality(ls), sum |-> SumOn(PlaceOfLineup, ls)]
           /\ MeanPlace(ls).n \in Nat
           /\ MeanPlace(ls).sum \in Int
<1>1. [l \in ls |-> lineups[l].placement] = [l \in ls |-> PlaceOfLineup[l]]
    BY DEF PlaceOfLineup
<1>2. MeanPlace(ls) = [n |-> Cardinality(ls), sum |-> SumOn(PlaceOfLineup, ls)]
    BY <1>1 DEF MeanPlace, SumOn
<1>3. IsFiniteSet(ls) /\ Cardinality(ls) \in Nat
    BY TablesFinite, FS_Subset, FS_CardinalityType
<1>4. \A l \in ls : PlaceOfLineup[l] \in Int
    BY PlacesAreInts
<1>5. SumOn(PlaceOfLineup, ls) \in Int
    BY <1>3, <1>4, SumOnType
<1>6. QED
    BY <1>2, <1>3, <1>5

LEMMA MeanOfParts ==
    ASSUME Shape, NEW A \in SUBSET DOMAIN lineups, NEW B \in SUBSET DOMAIN lineups, A \cap B = {}
    PROVE  /\ MeanPlace(A \cup B).n = MeanPlace(A).n + MeanPlace(B).n
           /\ MeanPlace(A \cup B).sum = MeanPlace(A).sum + MeanPlace(B).sum
<1>1. IsFiniteSet(A) /\ IsFiniteSet(B)
    BY TablesFinite, FS_Subset
<1>2. \A l \in A \cup B : PlaceOfLineup[l] \in Int
    BY PlacesAreInts
<1>3. Cardinality(A \cup B) = Cardinality(A) + Cardinality(B)
    BY <1>1, DisjointUnion
<1>4. SumOn(PlaceOfLineup, A \cup B) = SumOn(PlaceOfLineup, A) + SumOn(PlaceOfLineup, B)
    BY <1>1, <1>2, SumOnUnion
<1>5. A \cup B \in SUBSET DOMAIN lineups
    OBVIOUS
<1>6. QED
    BY <1>3, <1>4, <1>5, MeanIsSum

\* service.go liftOverRest: what relics.sql does not select, the lineups without the relic,
\* is what is left of the field, in number and in the sum of their placements.
THEOREM RelicLiftAlwaysExact == Spec => []RelicLiftExact
<1>1. ASSUME Shape PROVE RelicLiftExact
    <2> SUFFICES ASSUME NEW f \in Filters, NEW r \in DOMAIN RelicPerformance(f)
                 PROVE  SameValue(RelicRow(f, r).lift,
                                  IF Scope(f) \ Holding(f, r) = {} THEN Zero
                                  ELSE Less(MeanPlace(Holding(f, r)),
                                            MeanPlace(Scope(f) \ Holding(f, r))))
        BY DEF RelicLiftExact
    <2> DEFINE with == Holding(f, r)
               without == Scope(f) \ with
               field == MeanPlace(Scope(f))
    <2>1. /\ with \in SUBSET DOMAIN lineups /\ without \in SUBSET DOMAIN lineups
          /\ with \cap without = {} /\ with \cup without = Scope(f)
        BY <1>1, ScopeParts DEF Holding
    <2>2. /\ field.n = MeanPlace(with).n + MeanPlace(without).n
          /\ field.sum = MeanPlace(with).sum + MeanPlace(without).sum
        <3> HIDE DEF with, without
        <3>1. QED
            BY <1>1, <2>1, MeanOfParts
    <2>3. /\ MeanPlace(with).n \in Nat /\ MeanPlace(with).sum \in Int
          /\ MeanPlace(without).n \in Nat /\ MeanPlace(without).sum \in Int
          /\ MeanPlace(without).n = Cardinality(without)
          /\ MeanPlace(without) = [n |-> MeanPlace(without).n, sum |-> MeanPlace(without).sum]
        <3> HIDE DEF with, without
        <3>1. QED
            BY <1>1, <2>1, MeanIsSum
    <2>4. MeanPlace(without).n = 0 <=> without = {}
        <3>1. IsFiniteSet(without)
            BY <1>1, <2>1, TablesFinite, FS_Subset
        <3>2. QED
            BY <2>3, <3>1, FS_EmptySet
    <2>5. RelicRow(f, r).lift = LiftOverRest(field, MeanPlace(with))
        BY DEF RelicRow, Field
    <2>6. LiftOverRest(field, MeanPlace(with))
            = IF without = {} THEN Zero ELSE Less(MeanPlace(with), MeanPlace(without))
        <3> HIDE DEF with, without, field
        <3>1. field.n = MeanPlace(with).n <=> without = {}
            BY <2>2, <2>3, <2>4
        <3>2. /\ field.sum - MeanPlace(with).sum = MeanPlace(without).sum
              /\ field.n - MeanPlace(with).n = MeanPlace(without).n
            BY <2>2, <2>3
        <3>3. QED
            BY <3>1, <3>2 DEF LiftOverRest, Less
    <2>7. QED
        BY <2>5, <2>6 DEF SameValue
<1>2. QED
    BY <1>1, ShapeAlways, PTL

-----------------------------------------------------------------------------
(* The field of pro matches.                                               *)

\* Twice the sum of 1..q.
LEMMA TriangleStep ==
    ASSUME NEW q \in Nat, NEW s \in Int, 2 * s = q * (q + 1)
    PROVE  2 * (s + (q + 1)) = (q + 1) * ((q + 1) + 1)
OBVIOUS

\* A finalized pro match has one lineup under each placement.
LEMMA ProMatchMean ==
    ASSUME Shape, NEW m \in DOMAIN matches, Legal(m), matches[m].source = "pro"
    PROVE  /\ Cardinality(LineupsOf(m)) = MaxPlacement
           /\ 2 * SumOn(PlaceOfLineup, LineupsOf(m)) = MaxPlacement * (MaxPlacement + 1)
<1> DEFINE Q == {q \in Nat : q > MaxPlacement \/
                    2 * SumOn(PlaceOfLineup, {l \in LineupsOf(m) : lineups[l].placement <= q})
                        = q * (q + 1)}
           Below(q) == {l \in LineupsOf(m) : lineups[l].placement <= q}
<1>0. LineupsOf(m) \subseteq DOMAIN lineups
    BY DEF LineupsOf
<1>1. \A p \in Placements : \E l \in LineupsOf(m) :
            \A k \in LineupsOf(m) : lineups[k].placement = p <=> k = l
    BY DEF Legal
<1>2. \A l \in LineupsOf(m) : /\ lineups[l].placement \in Placements
                              /\ lineups[l].placement \in Nat \ {0}
                              /\ lineups[l].placement <= MaxPlacement
                              /\ PlaceOfLineup[l] = lineups[l].placement
    BY <1>0, PlacesKnown, DomainAssumption DEF Placements, PlaceOfLineup
<1>3. 0 \in Q
    <2>1. Below(0) = {}
        BY <1>2
    <2>2. SumOn(PlaceOfLineup, Below(0)) = 0
        BY <2>1, SumOnEmpty
    <2>3. QED
        BY <2>2
<1>4. ASSUME NEW q \in Nat, q \in Q PROVE q + 1 \in Q
    <2>1. CASE q + 1 > MaxPlacement
        BY <2>1
    <2>2. CASE q + 1 <= MaxPlacement
        <3>1. q + 1 \in Placements
            BY <2>2, DomainAssumption DEF Placements
        <3>2. PICK l \in LineupsOf(m) : \A k \in LineupsOf(m) : lineups[k].placement = q + 1 <=> k = l
            BY <1>1, <3>1
        <3>3. l \notin Below(q) /\ Below(q + 1) = Below(q) \cup {l}
            BY <1>2, <3>2
        <3>4. IsFiniteSet(Below(q)) /\ \A k \in Below(q) \cup {l} : PlaceOfLineup[k] \in Int
            BY <1>2, LineupsFinite, FS_Subset DEF Shape
        <3>5. PlaceOfLineup[l] = q + 1
            BY <1>2, <3>2
        <3> HIDE DEF Below
        <3>6. SumOn(PlaceOfLineup, Below(q + 1)) = SumOn(PlaceOfLineup, Below(q)) + (q + 1)
            BY <3>3, <3>4, <3>5, SumOnAdd
        <3>7. SumOn(PlaceOfLineup, Below(q)) \in Int
            BY <3>4, SumOnType
        <3>8. 2 * SumOn(PlaceOfLineup, Below(q)) = q * (q + 1)
            BY <1>4, <2>2, DomainAssumption DEF Below
        <3>9. 2 * SumOn(PlaceOfLineup, Below(q + 1)) = (q + 1) * ((q + 1) + 1)
            BY <3>6, <3>7, <3>8, TriangleStep
        <3>10. Below(q + 1) = {k \in LineupsOf(m) : lineups[k].placement <= q + 1}
            BY DEF Below
        <3>11. q + 1 \in Nat
            OBVIOUS
        <3>12. QED
            BY <3>9, <3>10, <3>11
    <2>3. QED
        BY <1>4, <2>1, <2>2, DomainAssumption
<1>5. MaxPlacement \in Q
    <2> HIDE DEF Q
    <2>1. QED
        BY <1>3, <1>4, NatInduct, DomainAssumption
<1>6. Below(MaxPlacement) = LineupsOf(m)
    BY <1>2
<1>7. Cardinality(LineupsOf(m)) = MaxPlacement
    BY LegalFillsPips DEF RequiredTotal
<1>8. QED
    BY <1>5, <1>6, <1>7, DomainAssumption

LEMMA MultipleDivides ==
    ASSUME NEW a \in Nat \ {0}, NEW k \in Nat
    PROVE  (a * k) % a = 0
OBVIOUS

LEMMA FieldStep ==
    ASSUME NEW a \in Nat, NEW s \in Int, NEW t \in Int, NEW k \in Nat,
           2 * s = (a + 1) * (a * k), 2 * t = a * (a + 1)
    PROVE  2 * (s + t) = (a + 1) * (a * (k + 1)) /\ a * k + a = a * (k + 1)
OBVIOUS

\* The lineups of a set of finalized pro matches.
LEMMA ProMatchesMean ==
    ASSUME Shape, NEW M \in SUBSET DOMAIN matches,
           \A m \in M : Legal(m) /\ matches[m].source = "pro"
    PROVE  \E k \in Nat :
             /\ Cardinality({l \in DOMAIN lineups : lineups[l].match \in M}) = MaxPlacement * k
             /\ 2 * SumOn(PlaceOfLineup, {l \in DOMAIN lineups : lineups[l].match \in M})
                    = (MaxPlacement + 1) * (MaxPlacement * k)
<1> DEFINE Of(N) == {l \in DOMAIN lineups : lineups[l].match \in N}
           Sized(N, k) ==
                /\ Cardinality(Of(N)) = MaxPlacement * k
                /\ 2 * SumOn(PlaceOfLineup, Of(N)) = (MaxPlacement + 1) * (MaxPlacement * k)
           T == {N \in SUBSET M : \E k \in Nat : Sized(N, k)}
<1>1. IsFiniteSet(M)
    <2>1. IsFiniteSet(MatchIds)
        BY FS_Interval, MatchStoreAssumption DEF MatchIds
    <2>2. M \subseteq MatchIds
        BY DEF Shape, TypeOK, IsTable
    <2>3. QED
        BY <2>1, <2>2, FS_Subset
<1>2. {} \in T
    <2>1. Of({}) = {}
        OBVIOUS
    <2>2. Cardinality({}) = 0 /\ SumOn(PlaceOfLineup, {}) = 0
        BY FS_EmptySet, SumOnEmpty
    <2>3. MaxPlacement * 0 = 0 /\ (MaxPlacement + 1) * (MaxPlacement * 0) = 0
        BY DomainAssumption
    <2>4. Cardinality(Of({})) = 0 /\ SumOn(PlaceOfLineup, Of({})) = 0
        BY <2>1, <2>2
    <2>5. Sized({}, 0)
        BY <2>3, <2>4
    <2>6. QED
        BY <2>5
<1>3. ASSUME NEW N \in SUBSET M, NEW m \in M \ N, N \in T PROVE N \cup {m} \in T
    <2>1. PICK k \in Nat : Sized(N, k)
        BY <1>3
    <2>2. Of(N \cup {m}) = Of(N) \cup LineupsOf(m) /\ Of(N) \cap LineupsOf(m) = {}
        BY <1>3 DEF LineupsOf
    <2>3. IsFiniteSet(Of(N)) /\ IsFiniteSet(LineupsOf(m))
        BY TablesFinite, FS_Subset DEF LineupsOf
    <2>4. \A l \in Of(N) \cup LineupsOf(m) : PlaceOfLineup[l] \in Int
        BY PlacesAreInts DEF LineupsOf
    <2>5. /\ Cardinality(LineupsOf(m)) = MaxPlacement
          /\ 2 * SumOn(PlaceOfLineup, LineupsOf(m)) = MaxPlacement * (MaxPlacement + 1)
        BY <1>3, ProMatchMean
    <2>6. /\ Cardinality(Of(N)) = MaxPlacement * k
          /\ 2 * SumOn(PlaceOfLineup, Of(N)) = (MaxPlacement + 1) * (MaxPlacement * k)
        BY <2>1
    <2> HIDE DEF Of
    <2>7. Cardinality(Of(N \cup {m})) = MaxPlacement * k + MaxPlacement
        BY <2>2, <2>3, <2>5, <2>6, DisjointUnion
    <2>8. SumOn(PlaceOfLineup, Of(N \cup {m}))
            = SumOn(PlaceOfLineup, Of(N)) + SumOn(PlaceOfLineup, LineupsOf(m))
        <3>1. PICK A : A = Of(N)
            OBVIOUS
        <3>2. PICK B : B = LineupsOf(m)
            OBVIOUS
        <3>3. PICK F : F = PlaceOfLineup
            OBVIOUS
        <3>4. /\ IsFiniteSet(A) /\ IsFiniteSet(B) /\ A \cap B = {}
              /\ \A x \in A \cup B : F[x] \in Int
            BY <2>2, <2>3, <2>4, <3>1, <3>2, <3>3
        <3>5. SumOn(F, A \cup B) = SumOn(F, A) + SumOn(F, B)
            BY <3>4, SumOnUnion
        <3>6. QED
            BY <2>2, <3>1, <3>2, <3>3, <3>5
    <2>9. SumOn(PlaceOfLineup, Of(N)) \in Int /\ SumOn(PlaceOfLineup, LineupsOf(m)) \in Int
        BY <2>3, <2>4, SumOnType
    <2>10. MaxPlacement \in Nat
        BY DomainAssumption
    <2>11. /\ 2 * (SumOn(PlaceOfLineup, Of(N)) + SumOn(PlaceOfLineup, LineupsOf(m)))
                = (MaxPlacement + 1) * (MaxPlacement * (k + 1))
           /\ MaxPlacement * k + MaxPlacement = MaxPlacement * (k + 1)
        BY <2>5, <2>6, <2>9, <2>10, FieldStep
    <2>12. Sized(N \cup {m}, k + 1)
        BY <2>7, <2>8, <2>11
    <2>13. k + 1 \in Nat
        OBVIOUS
    <2> HIDE DEF Sized
    <2>14. QED
        BY <1>3, <2>12, <2>13
<1>4. M \in T
    <2> HIDE DEF T
    <2>1. QED
        BY <1>1, <1>2, <1>3, FiniteInduction
<1>5. QED
    BY <1>4

\* "a pro filter yields a lineup count divisible by 8 and a field average of exactly 4.5"
\* (frontend-design.md:110), whatever the patch filter and however the matches were edited
\* before they were finalized.
THEOREM ProFieldAlwaysExact == Spec => []ProFieldExact
<1>1. ASSUME Shape, FinalizedLegal PROVE ProFieldExact
    <2> SUFFICES ASSUME NEW f \in Filters, f.source = "pro"
                 PROVE  /\ LineupsInView(f) % MaxPlacement = 0
                        /\ 2 * Field(f).sum = (MaxPlacement + 1) * Field(f).n
        BY DEF ProFieldExact
    <2> DEFINE M == {m \in DOMAIN matches : /\ matches[m].finalizedAt > 0
                                            /\ f.patch \in {AnyPatch, matches[m].patch}
                                            /\ matches[m].source = "pro"}
               Of == {l \in DOMAIN lineups : lineups[l].match \in M}
    <2>1. Scope(f) = Of
        BY <1>1 DEF Scope, AnySource, Shape, OwnersExist
    <2>2. \A m \in M : Legal(m) /\ matches[m].source = "pro"
        BY <1>1 DEF FinalizedLegal, Legal
    <2>3. PICK k \in Nat :
            /\ Cardinality(Of) = MaxPlacement * k
            /\ 2 * SumOn(PlaceOfLineup, Of) = (MaxPlacement + 1) * (MaxPlacement * k)
        <3> HIDE DEF M
        <3>1. M \in SUBSET DOMAIN matches
            BY DEF M
        <3>2. QED
            BY <1>1, <2>2, <3>1, ProMatchesMean
    <2>4. Field(f) = [n |-> Cardinality(Of), sum |-> SumOn(PlaceOfLineup, Of)]
        <3>1. Of \in SUBSET DOMAIN lineups
            OBVIOUS
        <3> HIDE DEF Of
        <3>2. QED
            BY <1>1, <2>1, <3>1, MeanIsSum DEF Field
    <2> HIDE DEF Of
    <2>5. LineupsInView(f) = MaxPlacement * k
        BY <2>1, <2>3 DEF LineupsInView
    <2>6. (MaxPlacement * k) % MaxPlacement = 0
        BY DomainAssumption, MultipleDivides
    <2>7. 2 * Field(f).sum = (MaxPlacement + 1) * Field(f).n
        BY <2>3, <2>4
    <2>8. QED
        BY <2>5, <2>6, <2>7
<1>2. QED
    BY <1>1, ShapeAlways, FinalizedStaysLegal, PTL

-----------------------------------------------------------------------------
(* The item lift.                                                          *)

\* Pairs that begin with different cells have the mean of those cells.
LEMMA MeanOfFirsts ==
    ASSUME Shape, NEW ps, IsFiniteSet(ps), \A p \in ps : p[1] \in DOMAIN slots,
           \A p, q \in ps : p[1] = q[1] => p = q
    PROVE  MeanPair(ps) = MeanCell({p[1] : p \in ps})
<1> DEFINE F == [p \in ps |-> PlaceOf(p[1])]
           h == [p \in ps |-> p[1]]
           cells == {h[p] : p \in ps}
           G == [s \in cells |-> PlaceOf(s)]
<1>1. cells = {p[1] : p \in ps}
    OBVIOUS
<1>2. \A p \in ps : F[p] = G[h[p]] /\ F[p] \in Int
    <2>1. \A s \in DOMAIN slots : PlaceOf(s) \in Int
        BY PlacesKnown, DomainAssumption DEF Placements
    <2>2. QED
        BY <2>1
<1>3. \A p, q \in ps : h[p] = h[q] => p = q
    OBVIOUS
<1>4. Cardinality(cells) = Cardinality(ps)
    <2> HIDE DEF h
    <2>1. Cardinality({h[p] : p \in ps}) = Cardinality(ps)
        BY <1>3, ImageSize
    <2>2. QED
        BY <2>1
<1>5. SumOn(F, ps) = SumOn(G, cells)
    <2> HIDE DEF F, G, h
    <2>1. QED
        BY <1>2, <1>3, SumOnImage
<1>6. [p \in ps |-> F[p]] = F /\ [s \in cells |-> G[s]] = G
    OBVIOUS
<1>7. SumFunction(F) = SumFunction(G)
    <2> HIDE DEF F, G
    <2>1. QED
        BY <1>5, <1>6 DEF SumOn
<1>8. QED
    BY <1>1, <1>4, <1>7 DEF MeanPair, MeanCell

LEMMA HeldSlots ==
    ASSUME Shape, NEW f, NEW i \in CodexIds("items")
    PROVE  /\ {h[1] : h \in HeldRows(f, i)} = SlotsHolding(f, i)
           /\ \A h \in HeldRows(f, i) : h[1] \in CellsInView(f)
<1>1. \A s \in CellsInView(f) : slotItems[s][i] \in 0..MaxStack /\ MaxStack \in Nat
    BY ScopeParts, MatchStoreAssumption DEF Shape, TypeOK, OwnersExist, IsTable, ItemCounts
<1>2. ASSUME NEW h \in HeldRows(f, i) PROVE h[1] \in SlotsHolding(f, i) /\ h[1] \in CellsInView(f)
    BY <1>1 DEF HeldRows, SlotsHolding
<1>3. ASSUME NEW s \in SlotsHolding(f, i) PROVE \E h \in HeldRows(f, i) : h[1] = s
    <2>1. <<s, 1>> \in HeldRows(f, i)
        BY <1>1 DEF HeldRows, SlotsHolding
    <2>2. QED
        BY <2>1
<1>4. QED
    BY <1>2, <1>3

LEMMA BaselineSlots ==
    ASSUME Shape, NEW f, NEW i \in CodexIds("items")
    PROVE  /\ {bh[1] : bh \in BaselineRows(f, i)} = SlotsWithout(f, i)
           /\ \A bh \in BaselineRows(f, i) : bh[1] \in CellsInView(f)
<1>1. \A s \in CellsInView(f) : slotItems[s][i] \in 0..MaxStack /\ MaxStack \in Nat
    BY ScopeParts, MatchStoreAssumption DEF Shape, TypeOK, OwnersExist, IsTable, ItemCounts
<1>2. ASSUME NEW bh \in BaselineRows(f, i)
      PROVE  bh[1] \in SlotsWithout(f, i) /\ bh[1] \in CellsInView(f)
    <2>1. /\ bh[1] \in CellsInView(f) /\ bh[2] \in HeldRows(f, i)
          /\ slots[bh[1]].hero = slots[bh[2][1]].hero /\ slotItems[bh[1]][i] = 0
        BY DEF BaselineRows
    <2>2. bh[2][1] \in SlotsHolding(f, i)
        BY <2>1, HeldSlots
    <2>3. bh[1] \notin SlotsHolding(f, i)
        BY <2>1 DEF SlotsHolding
    <2>4. QED
        BY <2>1, <2>2, <2>3 DEF SlotsWithout
<1>3. ASSUME NEW b \in SlotsWithout(f, i) PROVE \E bh \in BaselineRows(f, i) : bh[1] = b
    <2>1. PICK s \in SlotsHolding(f, i) : slots[s].hero = slots[b].hero
        BY DEF SlotsWithout
    <2>2. PICK h \in HeldRows(f, i) : h[1] = s
        BY <2>1, HeldSlots
    <2>3. b \in CellsInView(f) /\ slotItems[b][i] = 0
        BY <1>1 DEF SlotsWithout, SlotsHolding
    <2>4. <<b, h>> \in BaselineRows(f, i)
        BY <2>1, <2>2, <2>3 DEF BaselineRows
    <2>5. QED
        BY <2>4
<1>4. QED
    BY <1>2, <1>3

\* "average placement of slots holding the item minus the average placement of the same hero
\* in slots without it" (frontend-design.md:347): items.sql counts every copy of the item
\* and pairs it with every cell of its hero; while no hero in view has the item twice, that
\* is each slot once.
THEOREM ItemLiftAlwaysExact == Spec => []ItemLiftExact
<1>1. ASSUME Shape PROVE ItemLiftExact
    <2> SUFFICES ASSUME NEW f \in Filters, NEW i \in DOMAIN ItemPerformance(f),
                        \A s, t \in HeldRows(f, i) :
                            slots[s[1]].hero = slots[t[1]].hero => s = t
                 PROVE  SameValue(ItemRow(f, i).lift, DefinedItemLift(f, i))
        BY DEF ItemLiftExact
    <2> DEFINE held == HeldRows(f, i)
               base == BaselineRows(f, i)
    <2>1. i \in CodexIds("items")
        BY <1>1 DEF ItemPerformance, Shape, TypeOK, CodexTables
    <2>2. CellsInView(f) \subseteq DOMAIN slots
        BY <1>1, ScopeParts
    <2>3. MeanPair(held) = MeanCell(SlotsHolding(f, i))
        <3>1. IsFiniteSet(held)
            BY <1>1, HeldFinite
        <3>2. /\ \A h \in held : h[1] \in DOMAIN slots
              /\ {h[1] : h \in held} = SlotsHolding(f, i)
            BY <1>1, <2>1, <2>2, HeldSlots
        <3>3. \A g, h \in held : g[1] = h[1] => g = h
            OBVIOUS
        <3>4. MeanPair(held) = MeanCell({h[1] : h \in held})
            BY <1>1, <3>1, <3>2, <3>3, MeanOfFirsts
        <3>5. QED
            BY <3>2, <3>4
    <2>4. MeanPair(base) = MeanCell(SlotsWithout(f, i))
        <3>1. IsFiniteSet(base)
            <4>1. IsFiniteSet(CellsInView(f) \X HeldRows(f, i))
                BY <1>1, ScopeParts, HeldFinite, FS_Product
            <4>2. QED
                BY <4>1, FS_Subset DEF BaselineRows
        <3>2. /\ \A bh \in base : bh[1] \in DOMAIN slots
              /\ {bh[1] : bh \in base} = SlotsWithout(f, i)
            BY <1>1, <2>1, <2>2, BaselineSlots
        <3>3. ASSUME NEW a \in base, NEW b \in base, a[1] = b[1] PROVE a = b
            <4>1. /\ a = <<a[1], a[2]>> /\ b = <<b[1], b[2]>>
                  /\ a[2] \in held /\ b[2] \in held
                  /\ slots[a[1]].hero = slots[a[2][1]].hero
                  /\ slots[b[1]].hero = slots[b[2][1]].hero
                BY DEF BaselineRows
            <4>2. a[2] = b[2]
                BY <3>3, <4>1
            <4>3. QED
                BY <3>3, <4>1, <4>2
        <3>4. MeanPair(base) = MeanCell({bh[1] : bh \in base})
            BY <1>1, <3>1, <3>2, <3>3, MeanOfFirsts
        <3>5. QED
            BY <3>2, <3>4
    <2>5. base = {} <=> SlotsWithout(f, i) = {}
        <3>1. {bh[1] : bh \in base} = SlotsWithout(f, i)
            BY <1>1, <2>1, BaselineSlots
        <3>2. QED
            BY <3>1
    <2>6. ItemRow(f, i).lift = DefinedItemLift(f, i)
        BY <2>3, <2>4, <2>5 DEF ItemRow, DefinedItemLift
    <2>7. QED
        BY <2>6 DEF SameValue
<1>2. QED
    BY <1>1, ShapeAlways, PTL

-----------------------------------------------------------------------------
(* The hero page.                                                          *)

LEMMA ViewSize ==
    ASSUME Shape, NEW f
    PROVE  LineupsInView(f) \in Nat
BY ScopeParts, FS_CardinalityType DEF LineupsInView

\* No write takes a lineup out of a view: those in it are of finalized matches.
LEMMA ViewGrows ==
    ASSUME Shape, [Next]_store, NEW f
    PROVE  /\ LineupsInView(f) \in Nat
           /\ LineupsInView(f)' \in Nat
           /\ LineupsInView(f) <= LineupsInView(f)'
<1>1. Shape'
    BY ShapeStep
<1>2. Scope(f) \subseteq Scope(f)'
    <2> SUFFICES ASSUME NEW l \in Scope(f) PROVE l \in Scope(f)'
        OBVIOUS
    <2>1. CASE UNCHANGED store
        BY <2>1 DEF store, Scope
    <2>2. CASE Next
        <3>1. PICK t : Open(t) /\ EditsOnly(t)
            BY <2>2, EditsOneMatch
        <3>2. l \in DOMAIN lineups /\ matches[lineups[l].match].finalizedAt > 0
            BY DEF Scope
        <3>3. lineups[l].match \in DOMAIN matches \ {t}
            BY <3>1, <3>2 DEF Open, Shape, OwnersExist
        <3>4. /\ matches'[lineups[l].match] = matches[lineups[l].match]
              /\ l \in DOMAIN lineups' /\ lineups'[l] = lineups[l]
            BY <3>1, <3>2, <3>3 DEF EditsOnly
        <3>5. QED
            BY <3>4 DEF Scope
    <2>3. QED
        BY <2>1, <2>2
<1>3. IsFiniteSet(Scope(f)')
    <2>1. IsFiniteSet(LineupIds)
        BY FS_Interval, MatchStoreAssumption DEF LineupIds
    <2>2. Scope(f)' \subseteq LineupIds
        BY <1>1 DEF Scope, Shape, TypeOK, IsTable
    <2>3. QED
        BY <2>1, <2>2, FS_Subset
<1>4. Cardinality(Scope(f)) <= Cardinality(Scope(f)')
    BY <1>2, <1>3, FS_Subset
<1>5. Cardinality(Scope(f)) \in Nat /\ Cardinality(Scope(f)') \in Nat
    BY <1>2, <1>3, FS_Subset, FS_CardinalityType
<1>6. QED
    BY <1>4, <1>5 DEF LineupsInView


\* The invariant behind PageGrows, for a page that is still being put together: what was
\* read so far is in order, and the last of it is no more than is in view now.
Growing(w) ==
    /\ at[w] \in {"rows", "places", "patches", "shown"} =>
            /\ page[w].count \in Nat
            /\ page[w].count <= LineupsInView(page[w].filter)
    /\ \A h \in DOMAIN page[w].rows :
            LET seen == page[w].rows[h].pick.den
            IN /\ seen \in Nat
               /\ page[w].count <= seen
               /\ seen <= LineupsInView(page[w].filter)
               /\ at[w] \in {"patches", "shown"} => seen <= PlacesTotal(page[w].places)

PagesGrow == \A w \in Readers : url[w].tab = "heroes" => Growing(w)

LEMMA GrowInit == DashInit => PagesGrow
BY DEF DashInit, PagesGrow, NoUrl

\* The page of a reader that takes no step.
LEMMA GrowingKept ==
    ASSUME Shape, [Next]_store, Pages, NEW w \in Readers, Growing(w),
           page'[w] = page[w], at'[w] = at[w]
    PROVE  Growing(w)'
<1>1. PICK g : g = page[w].filter
    OBVIOUS
<1>2. /\ LineupsInView(g) \in Nat /\ LineupsInView(g)' \in Nat
      /\ LineupsInView(g) <= LineupsInView(g)'
    BY ViewGrows
<1>3. LineupsInView(page[w].filter)' = LineupsInView(g)'
    BY <1>1
<1>4. PlacesTotal(page[w].places)' = PlacesTotal(page[w].places)
    BY DEF PlacesTotal
<1>5. QED
    BY <1>1, <1>2, <1>3, <1>4 DEF Growing

\* The denominator of every pick rate of a page is the number of lineups in view.
LEMMA PickDenominator ==
    ASSUME Shape, NEW f, NEW h \in DOMAIN HeroTable(HeroPerformance(f))
    PROVE  HeroTable(HeroPerformance(f))[h].pick.den = LineupsInView(f)
<1>1. h \in DOMAIN HeroPerformance(f) /\ HeroPerformance(f)[h] = HeroRow(f, h) /\ Picks(f, h) # {}
    BY DEF HeroTable, HeroPerformance
<1>2. Scope(f) # {}
    BY <1>1 DEF Picks, CellsInView
<1>3. LineupsInView(f) # 0
    BY <1>2, ScopeParts, FS_EmptySet DEF LineupsInView
<1>4. HeroTable(HeroPerformance(f))[h].pick = PickRate(HeroRow(f, h))
    BY <1>1 DEF HeroTable
<1>5. HeroRow(f, h).lineupsInView = LineupsInView(f)
    BY DEF HeroRow
<1>6. PickRate(HeroRow(f, h)).den = LineupsInView(f)
    BY <1>3, <1>5 DEF PickRate, Rate
<1>7. QED
    BY <1>4, <1>6

LEMMA GrowCount ==
    ASSUME Shape, Pages, NEW w \in Readers, CountLineups(w)
    PROVE  Growing(w)'
<1>1. PICK n \in {0, LineupsInView(page[w].filter)} : page' = [page EXCEPT ![w].count = n]
    BY DEF CountLineups
<1>2. /\ page'[w].filter = page[w].filter
      /\ page'[w].rows = page[w].rows
    BY <1>1, FieldWritten
<1>3. page'[w].count = n
    <2>1. page[w] = [filter |-> page[w].filter, used |-> page[w].used,
                     count |-> page[w].count, rows |-> page[w].rows,
                     places |-> page[w].places, select |-> page[w].select]
        BY DEF Pages
    <2>2. page'[w] = [page[w] EXCEPT !.count = n]
        BY <1>1 DEF Pages
    <2>3. QED
        BY <2>1, <2>2
<1>4. page[w].rows = << >>
    BY DEF CountLineups, Pages
<1>5. UNCHANGED <<matches, lineups>>
    BY DEF CountLineups, store
<1>6. LineupsInView(page[w].filter)' = LineupsInView(page[w].filter)
    BY <1>2, <1>5 DEF LineupsInView, Scope
<1>7. LineupsInView(page[w].filter) \in Nat
    BY ViewSize
<1>8. QED
    BY <1>1, <1>2, <1>3, <1>4, <1>6, <1>7 DEF Growing

LEMMA GrowRows ==
    ASSUME Shape, Pages, NEW w \in Readers, QueryRows(w), url[w].tab = "heroes", Growing(w)
    PROVE  Growing(w)'
<1>1. page' = [page EXCEPT ![w].rows = HeroTable(HeroPerformance(page[w].filter))]
    BY DEF QueryRows, Table
<1>2. /\ page'[w].filter = page[w].filter
      /\ page'[w].rows = HeroTable(HeroPerformance(page[w].filter))
    BY <1>1, FieldWritten
<1>3. page'[w].count = page[w].count
    <2>1. page[w] = [filter |-> page[w].filter, used |-> page[w].used,
                     count |-> page[w].count, rows |-> page[w].rows,
                     places |-> page[w].places, select |-> page[w].select]
        BY DEF Pages
    <2>2. page'[w] = [page[w] EXCEPT !.rows = HeroTable(HeroPerformance(page[w].filter))]
        BY <1>1 DEF Pages
    <2>3. QED
        BY <2>1, <2>2
<1>4. UNCHANGED <<matches, lineups>> /\ at[w] = "rows" /\ at'[w] = "places"
    BY DEF QueryRows, store, Move, Pages
<1>5. LineupsInView(page[w].filter)' = LineupsInView(page[w].filter)
    BY <1>2, <1>4 DEF LineupsInView, Scope
<1>6. LineupsInView(page[w].filter) \in Nat
    BY ViewSize
<1>7. \A h \in DOMAIN page'[w].rows : page'[w].rows[h].pick.den = LineupsInView(page[w].filter)
    BY <1>2, PickDenominator
<1>8. page[w].count \in Nat /\ page[w].count <= LineupsInView(page[w].filter)
    BY <1>4 DEF Growing
<1>9. QED
    BY <1>3, <1>4, <1>5, <1>6, <1>7, <1>8 DEF Growing

LEMMA GrowPlaces ==
    ASSUME Shape, Pages, NEW w \in Readers, QueryPlaces(w), Growing(w)
    PROVE  Growing(w)'
<1> DEFINE table == NetworthTable(w, NetworthByPlacement(page[w].filter))
<1>1. page' = [page EXCEPT ![w].places = table] /\ at[w] = "places" /\ at'[w] = "patches"
    BY DEF QueryPlaces, Move, Pages
<1>2. /\ page'[w].filter = page[w].filter
      /\ page'[w].rows = page[w].rows
    BY <1>1, FieldWritten
<1>3. page'[w].count = page[w].count /\ page'[w].places = table
    <2>1. page[w] = [filter |-> page[w].filter, used |-> page[w].used,
                     count |-> page[w].count, rows |-> page[w].rows,
                     places |-> page[w].places, select |-> page[w].select]
        BY DEF Pages
    <2>2. page'[w] = [page[w] EXCEPT !.places = table]
        BY <1>1 DEF Pages
    <2> HIDE DEF table
    <2>3. QED
        BY <2>1, <2>2
<1>4. UNCHANGED <<matches, lineups>>
    BY DEF QueryPlaces, store
<1>5. LineupsInView(page[w].filter)' = LineupsInView(page[w].filter)
    BY <1>2, <1>4 DEF LineupsInView, Scope
<1>6. DOMAIN page[w].rows # {} => PlacesTotal(page'[w].places) = LineupsInView(page[w].filter)
    BY <1>3, PlacesAddUp DEF NetworthTable
<1>7. PlacesTotal(page[w].places)' = PlacesTotal(page'[w].places)
    BY DEF PlacesTotal
<1>8. /\ page[w].count \in Nat
      /\ page[w].count <= LineupsInView(page[w].filter)
      /\ \A h \in DOMAIN page[w].rows :
            /\ page[w].rows[h].pick.den \in Nat
            /\ page[w].count <= page[w].rows[h].pick.den
            /\ page[w].rows[h].pick.den <= LineupsInView(page[w].filter)
    BY <1>1 DEF Growing
<1> HIDE DEF table
<1>9. QED
    BY <1>2, <1>3, <1>5, <1>6, <1>7, <1>8 DEF Growing

LEMMA GrowList ==
    ASSUME Shape, Pages, NEW w \in Readers, ListPatches(w), Growing(w)
    PROVE  Growing(w)'
<1>1. PICK select : page' = [page EXCEPT ![w].select = select]
    BY DEF ListPatches
<1>2. /\ page'[w].filter = page[w].filter
      /\ page'[w].rows = page[w].rows
    BY <1>1, FieldWritten
<1>3. page'[w].count = page[w].count /\ page'[w].places = page[w].places
    <2>1. page[w] = [filter |-> page[w].filter, used |-> page[w].used,
                     count |-> page[w].count, rows |-> page[w].rows,
                     places |-> page[w].places, select |-> page[w].select]
        BY DEF Pages
    <2>2. page'[w] = [page[w] EXCEPT !.select = select]
        BY <1>1 DEF Pages
    <2>3. QED
        BY <2>1, <2>2
<1>4. UNCHANGED <<matches, lineups>> /\ at[w] = "patches"
    BY DEF ListPatches, store
<1>5. LineupsInView(page[w].filter)' = LineupsInView(page[w].filter)
    BY <1>2, <1>4 DEF LineupsInView, Scope
<1>6. PlacesTotal(page[w].places)' = PlacesTotal(page[w].places)
    BY <1>3 DEF PlacesTotal
<1>7. QED
    BY <1>2, <1>3, <1>4, <1>5, <1>6 DEF Growing

\* A page that has no count and no rows yet.
LEMMA GrowEarly ==
    ASSUME Pages', NEW w \in Readers, at'[w] \in {"idle", "patch", "count"}
    PROVE  Growing(w)'
<1>1. page'[w].rows = << >>
    BY DEF Pages, NoPage
<1>2. QED
    BY <1>1 DEF Growing

LEMMA GrowStep == Shape /\ Pages /\ PagesGrow /\ [DashNext]_dashVars => PagesGrow'
<1> SUFFICES ASSUME Shape, Pages, PagesGrow, [DashNext]_dashVars, NEW w \in Readers,
                    url'[w].tab = "heroes"
             PROVE  Growing(w)'
    BY DEF PagesGrow
<1>1. Pages' /\ [Next]_store
    BY PagesStep, DashboardStep
<1>2. CASE UNCHANGED <<at[w], url[w], page[w]>>
    BY <1>1, <1>2, GrowingKept DEF PagesGrow
<1>3. CASE EditBoards \/ UNCHANGED dashVars
    BY <1>2, <1>3 DEF EditBoards, dashVars, dashboard
<1>4. ASSUME NEW v, NEW p, CreatePatch(v) \/ UpdatePatch(p, v) \/ DeletePatch(p)
      PROVE  Growing(w)'
    BY <1>2, <1>4 DEF CreatePatch, UpdatePatch, DeletePatch, dashboard
<1>5. ASSUME NEW x \in Readers, x # w, ShowPage(x) PROVE Growing(w)'
    <2>1. UNCHANGED <<at[w], url[w], page[w]>>
        BY <1>5 DEF ShowPage, Ask, ResolvePatch, CountLineups, QueryRows, QueryPlaces,
                    ListPatches, Leave, Pages, Move
    <2>2. QED
        BY <1>2, <2>1
<1>6. ASSUME ShowPage(w) PROVE Growing(w)'
    <2>1. ASSUME NEW u, Ask(w, u) PROVE Growing(w)'
        <3>1. at'[w] = "patch"
            BY <2>1 DEF Ask, Move, Pages
        <3>2. QED
            BY <1>1, <3>1, GrowEarly
    <2>2. CASE ResolvePatch(w)
        <3>1. at'[w] = "count"
            BY <2>2 DEF ResolvePatch, Move, Pages
        <3>2. QED
            BY <1>1, <3>1, GrowEarly
    <2>3. CASE Leave(w)
        BY <2>3 DEF Leave, Pages, NoUrl
    <2>4. url[w].tab = "heroes" => Growing(w)
        BY DEF PagesGrow
    <2>5. CountLineups(w) \/ QueryRows(w) \/ QueryPlaces(w) \/ ListPatches(w)
            => url[w].tab = "heroes"
        BY DEF CountLineups, QueryRows, QueryPlaces, ListPatches
    <2>6. QED
        BY <1>6, <2>1, <2>2, <2>3, <2>4, <2>5, GrowCount, GrowRows, GrowPlaces, GrowList
           DEF ShowPage
<1>7. QED
    BY <1>3, <1>4, <1>5, <1>6 DEF DashNext

\* dashboard.go reads the count, the rows and the networth table in three batches.  However
\* the writes of other requests fall between them, the numbers disagree one way only: each
\* part of the hero page knows the lineups of the parts above it.
THEOREM PageAlwaysGrows == DashSpec => []PageGrows
<1>1. Pages /\ PagesGrow => PageGrows
    BY DEF Pages, PagesGrow, Growing, PageGrows, Shown
<1>2. DashSpec => []PagesGrow
    BY GrowInit, GrowStep, StoreUnderDashboard, PagesAlways, PTL DEF DashSpec
<1>3. QED
    BY <1>1, <1>2, PagesAlways, PTL
=============================================================================
