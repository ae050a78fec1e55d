-------------------------- MODULE OperatorTheorems --------------------------
(***************************************************************************)
(* Facts about the operators that the components share: sums over finite   *)
(* sets, defined by recursion over the subsets of a set; selections from a *)
(* sequence, defined by recursion over its places, of which there is only  *)
(* one; sequences put together and sequences of sequences made flat; least *)
(* members, and members in order; and what a credential pool and the       *)
(* router answer and keep, for any of them.                                *)
(*                                                                         *)
(* Induction is over a set, in place of a predicate: whatever is shown of  *)
(* the members of a set of numbers, or of a set of sets, step by step,     *)
(* holds of all.                                                           *)
(***************************************************************************)
EXTENDS CircuitOps, PoolOps, SequencesExt, FiniteSetTheorems, WellFoundedInduction, TLAPS

LEMMA NumberInduction ==
    ASSUME NEW I, 0 \in I, \A n \in Nat : n \in I => n + 1 \in I
    PROVE  \A n \in Nat : n \in I
<1> DEFINE T == {n \in Nat : n \notin I}
<1>1. ASSUME T # {} PROVE FALSE
    <2>1. \E x \in T : \A y \in T : ~(<<y, x>> \in OpToRel(<, Nat))
        BY <1>1, NatLessThanWellFounded, WFMin, Zenon
    <2>2. PICK x \in T : \A y \in T : ~(<<y, x>> \in OpToRel(<, Nat))
        BY <2>1
    <2>3. x \in Nat \ {0} /\ x \notin I
        OBVIOUS
    <2>4. x - 1 \in Nat /\ x - 1 \notin I
        BY <2>3
    <2>5. <<x - 1, x>> \in OpToRel(<, Nat)
        BY <2>3, <2>4 DEF OpToRel
    <2> QED BY <2>2, <2>4, <2>5
<1> QED BY <1>1

\* What a finite set has if it has it whenever it has it without one member,
\* whichever that is.
LEMMA RemovalInduction ==
    ASSUME NEW S, IsFiniteSet(S), NEW I,
           \A T \in SUBSET S : (\A x \in T : T \ {x} \in I) => T \in I
    PROVE  S \in I
<1> DEFINE Bad == {T \in SUBSET S : T \notin I}
<1>1. ASSUME Bad # {} PROVE FALSE
    <2>1. IsWellFoundedOn(StrictSubsetOrdering(S), SUBSET S)
        BY FS_StrictSubsetOrderingWellFounded, FS_FiniteSubsetsOfFinite
    <2>2. \E T \in Bad : \A U \in Bad : ~(<<U, T>> \in StrictSubsetOrdering(S))
        <3>1. Bad \subseteq SUBSET S
            OBVIOUS
        <3> HIDE DEF Bad
        <3> QED BY <1>1, <2>1, <3>1, WFMin, Zenon
    <2>3. PICK T \in Bad : \A U \in Bad : ~(<<U, T>> \in StrictSubsetOrdering(S))
        BY <2>2
    <2>4. ASSUME NEW x \in T PROVE T \ {x} \in I
        <3>1. <<T \ {x}, T>> \in StrictSubsetOrdering(S)
            BY DEF StrictSubsetOrdering
        <3> QED BY <2>3, <3>1
    <2> QED BY <2>3, <2>4
<1> QED BY <1>1

-----------------------------------------------------------------------------
(* The recursion behind a sum has exactly one solution.                    *)

Picked(s) == CHOOSE x \in s : TRUE

Sums(f, D, h) ==
    h = [s \in D |-> IF s = {} THEN 0 ELSE f[Picked(s)] + h[s \ {Picked(s)}]]

LEMMA SumIsSolved ==
    ASSUME NEW f, NEW S PROVE SumOver(f, S) = (CHOOSE h : Sums(f, SUBSET S, h))[S]
BY DEF SumOver, Sets!MapThenSumSet, Sets!MapThenFoldSet, Sums, Picked

LEMMA PickedIsMember == ASSUME NEW s, s # {} PROVE Picked(s) \in s
BY DEF Picked

LEMMA SolutionExists ==
    ASSUME NEW f, NEW S, IsFiniteSet(S)
    PROVE  \E h : Sums(f, SUBSET S, h)
<1> DEFINE D(n) == {s \in SUBSET S : Cardinality(s) <= n}
           I == {n \in Nat : \E h : Sums(f, D(n), h)}
<1>0. \A s \in SUBSET S : IsFiniteSet(s) /\ Cardinality(s) \in Nat
    BY FS_Subset, FS_CardinalityType
<1>1. 0 \in I
    <2>1. D(0) = {{}}
        BY <1>0, FS_EmptySet
    <2>2. Sums(f, D(0), [s \in D(0) |-> 0])
        BY <2>1 DEF Sums
    <2> QED BY <2>2
<1>2. ASSUME NEW n \in Nat, n \in I PROVE n + 1 \in I
    <2>1. PICK h : Sums(f, D(n), h)
        BY <1>2
    <2> DEFINE g == [s \in D(n + 1) |-> IF s = {} THEN 0 ELSE f[Picked(s)] + h[s \ {Picked(s)}]]
    <2>2. ASSUME NEW s \in D(n + 1), s # {} PROVE s \ {Picked(s)} \in D(n)
        <3>1. Picked(s) \in s
            BY <2>2, PickedIsMember
        <3>2. Cardinality(s \ {Picked(s)}) = Cardinality(s) - 1
            BY <1>0, <3>1, FS_RemoveElement
        <3> QED BY <1>0, <3>1, <3>2
    <2>3. D(n) \subseteq D(n + 1)
        BY <1>0
    <2> DEFINE E == D(n + 1)
    <2>4. Sums(f, E, g)
        <3> HIDE DEF D, E
        <3>1. \A s \in D(n) : h[s] = IF s = {} THEN 0 ELSE f[Picked(s)] + h[s \ {Picked(s)}]
            BY <2>1, Zenon DEF Sums
        <3>2. \A s \in E : g[s] = IF s = {} THEN 0 ELSE f[Picked(s)] + h[s \ {Picked(s)}]
            BY DEF E
        <3>3. \A s \in D(n) : g[s] = h[s]
            BY <2>3, <3>1, <3>2 DEF E
        <3>4. \A s \in E : s # {} => g[s \ {Picked(s)}] = h[s \ {Picked(s)}]
            BY <2>2, <3>3 DEF E
        <3>5. g = [s \in E |-> g[s]]
            BY DEF E
        <3> HIDE DEF g
        <3>6. \A s \in E : g[s] = IF s = {} THEN 0 ELSE f[Picked(s)] + g[s \ {Picked(s)}]
            BY <3>2, <3>4
        <3> QED BY <3>5, <3>6 DEF Sums
    <2>5. \E k : Sums(f, D(n + 1), k)
        <3> HIDE DEF g, D
        <3> QED BY <2>4
    <2> QED BY <2>5
<1> HIDE DEF I
<1>3. Cardinality(S) \in I
    BY <1>0, <1>1, <1>2, NumberInduction
<1>4. D(Cardinality(S)) = SUBSET S
    <2>1. \A s \in SUBSET S : Cardinality(s) <= Cardinality(S)
        BY FS_Subset
    <2> QED BY <2>1
<1> QED BY <1>3, <1>4 DEF I

LEMMA SolutionIsUnique ==
    ASSUME NEW f, NEW S, IsFiniteSet(S), NEW D, NEW E, NEW g, NEW h,
           Sums(f, D, g), Sums(f, E, h), SUBSET S \subseteq D, SUBSET S \subseteq E
    PROVE  g[S] = h[S]
<1> DEFINE I == {T \in SUBSET S : g[T] = h[T]}
<1>1. ASSUME NEW T \in SUBSET S, \A x \in T : T \ {x} \in I PROVE T \in I
    <2>1. T \in D /\ T \in E
        OBVIOUS
    <2>2. /\ g[T] = IF T = {} THEN 0 ELSE f[Picked(T)] + g[T \ {Picked(T)}]
          /\ h[T] = IF T = {} THEN 0 ELSE f[Picked(T)] + h[T \ {Picked(T)}]
        BY <2>1, Zenon DEF Sums
    <2>3. T # {} => g[T \ {Picked(T)}] = h[T \ {Picked(T)}]
        BY <1>1, PickedIsMember
    <2> QED BY <2>2, <2>3
<1> HIDE DEF I
<1>2. S \in I
    BY <1>1, RemovalInduction
<1> QED BY <1>2 DEF I

\* A sum is that of what is left when a member is picked, and that member's.
LEMMA SumPicks ==
    ASSUME NEW f, NEW S, IsFiniteSet(S), S # {}
    PROVE  SumOver(f, S) = f[Picked(S)] + SumOver(f, S \ {Picked(S)})
<1> DEFINE T == S \ {Picked(S)}
           g == CHOOSE h : Sums(f, SUBSET S, h)
           k == CHOOSE h : Sums(f, SUBSET T, h)
<1>1. IsFiniteSet(T)
    BY FS_Subset
<1>2. Sums(f, SUBSET S, g)
    BY SolutionExists
<1>3. Sums(f, SUBSET T, k)
    BY <1>1, SolutionExists
<1>4. g[T] = k[T]
    <2> HIDE DEF g, k
    <2>1. SUBSET T \subseteq SUBSET S
        OBVIOUS
    <2> HIDE DEF T
    <2> QED BY <1>1, <1>2, <1>3, <2>1, SolutionIsUnique
<1>5. SumOver(f, S) = g[S] /\ SumOver(f, T) = k[T]
    BY SumIsSolved
<1>6. g[S] = f[Picked(S)] + g[T]
    <2> HIDE DEF g
    <2>1. S \in SUBSET S
        OBVIOUS
    <2> QED BY <1>2, <2>1, Zenon DEF Sums
<1> QED BY <1>4, <1>5, <1>6

LEMMA SumOfNone == ASSUME NEW f PROVE SumOver(f, {}) = 0
<1>1. Sums(f, SUBSET {}, CHOOSE h : Sums(f, SUBSET {}, h))
    BY SolutionExists, FS_EmptySet
<1>2. {} \in SUBSET {}
    OBVIOUS
<1>3. (CHOOSE h : Sums(f, SUBSET {}, h))[{}] = 0
    BY <1>1, <1>2, Zenon DEF Sums
<1> QED BY <1>3, SumIsSolved

-----------------------------------------------------------------------------
(* What is used of sums.                                                   *)

LEMMA SumType ==
    ASSUME NEW f, NEW S, IsFiniteSet(S), \A x \in S : f[x] \in Int
    PROVE  SumOver(f, S) \in Int
<1> DEFINE I == {T \in SUBSET S : SumOver(f, T) \in Int}
<1>1. ASSUME NEW T \in SUBSET S, \A x \in T : T \ {x} \in I PROVE T \in I
    <2>1. CASE T = {}
        BY <2>1, SumOfNone
    <2>2. CASE T # {}
        <3>1. Picked(T) \in T /\ T \ {Picked(T)} \in I
            BY <1>1, <2>2, PickedIsMember
        <3>2. SumOver(f, T) = f[Picked(T)] + SumOver(f, T \ {Picked(T)})
            BY <2>2, SumPicks, FS_Subset
        <3> QED BY <3>1, <3>2
    <2> QED BY <2>1, <2>2
<1> HIDE DEF I
<1>2. S \in I
    BY <1>1, RemovalInduction
<1> QED BY <1>2 DEF I

\* Any member may come first.
LEMMA SumRemoves ==
    ASSUME NEW f, NEW S, IsFiniteSet(S), \A x \in S : f[x] \in Int, NEW x \in S
    PROVE  SumOver(f, S) = f[x] + SumOver(f, S \ {x})
<1> DEFINE I == {T \in SUBSET S : \A y \in T : SumOver(f, T) = f[y] + SumOver(f, T \ {y})}
<1>1. ASSUME NEW T \in SUBSET S, \A y \in T : T \ {y} \in I, NEW y \in T
      PROVE  SumOver(f, T) = f[y] + SumOver(f, T \ {y})
    <2> DEFINE c == Picked(T)
    <2>1. c \in T /\ SumOver(f, T) = f[c] + SumOver(f, T \ {c})
        BY PickedIsMember, SumPicks, FS_Subset
    <2> HIDE DEF c
    <2>2. CASE y # c
        <3>1. SumOver(f, T \ {c}) = f[y] + SumOver(f, (T \ {c}) \ {y})
            BY <1>1, <2>1, <2>2
        <3>2. SumOver(f, T \ {y}) = f[c] + SumOver(f, (T \ {y}) \ {c})
            BY <1>1, <2>1, <2>2
        <3>3. (T \ {y}) \ {c} = (T \ {c}) \ {y}
            OBVIOUS
        <3>4. SumOver(f, (T \ {c}) \ {y}) \in Int
            BY SumType, FS_Subset
        <3>5. f[c] \in Int /\ f[y] \in Int
            BY <2>1
        <3>6. SumOver(f, T \ {y}) = f[c] + SumOver(f, (T \ {c}) \ {y})
            BY <3>2, <3>3, Zenon
        <3> QED BY <2>1, <3>1, <3>4, <3>5, <3>6
    <2> QED BY <2>1, <2>2
<1>2. ASSUME NEW T \in SUBSET S, \A y \in T : T \ {y} \in I PROVE T \in I
    BY <1>1, <1>2
<1> HIDE DEF I
<1>3. S \in I
    BY <1>2, RemovalInduction
<1> QED BY <1>3 DEF I

LEMMA SumAgrees ==
    ASSUME NEW S, IsFiniteSet(S), NEW f, NEW g, \A x \in S : f[x] = g[x]
    PROVE  SumOver(f, S) = SumOver(g, S)
<1> DEFINE I == {T \in SUBSET S : SumOver(f, T) = SumOver(g, T)}
<1>1. ASSUME NEW T \in SUBSET S, \A x \in T : T \ {x} \in I PROVE T \in I
    <2>1. CASE T = {}
        BY <2>1, SumOfNone
    <2>2. CASE T # {}
        <3>1. Picked(T) \in T /\ T \ {Picked(T)} \in I
            BY <1>1, <2>2, PickedIsMember
        <3>2. /\ SumOver(f, T) = f[Picked(T)] + SumOver(f, T \ {Picked(T)})
              /\ SumOver(g, T) = g[Picked(T)] + SumOver(g, T \ {Picked(T)})
            BY <2>2, SumPicks, FS_Subset
        <3> QED BY <3>1, <3>2
    <2> QED BY <2>1, <2>2
<1> HIDE DEF I
<1>2. S \in I
    BY <1>1, RemovalInduction
<1> QED BY <1>2 DEF I

LEMMA SumAdds ==
    ASSUME NEW f, NEW S, IsFiniteSet(S), \A x \in S : f[x] \in Int, NEW y, y \notin S, f[y] \in Int
    PROVE  SumOver(f, S \cup {y}) = SumOver(f, S) + f[y]
<1>1. IsFiniteSet(S \cup {y}) /\ (S \cup {y}) \ {y} = S
    BY FS_AddElement
<1>2. SumOver(f, S \cup {y}) = f[y] + SumOver(f, (S \cup {y}) \ {y})
    <2>1. \A x \in S \cup {y} : f[x] \in Int
        OBVIOUS
    <2> QED BY <1>1, <2>1, SumRemoves
<1>3. SumOver(f, S) \in Int
    BY SumType
<1>4. SumOver(f, S \cup {y}) = f[y] + SumOver(f, S)
    BY <1>1, <1>2, Zenon
<1> QED BY <1>3, <1>4

LEMMA SumParts ==
    ASSUME NEW f, NEW S, IsFiniteSet(S), \A x \in S : f[x] \in Int, NEW U \in SUBSET S
    PROVE  SumOver(f, S) = SumOver(f, U) + SumOver(f, S \ U)
<1> DEFINE I == {T \in SUBSET U : SumOver(f, S) = SumOver(f, T) + SumOver(f, S \ T)}
<1>1. ASSUME NEW T \in SUBSET U, \A x \in T : T \ {x} \in I PROVE T \in I
    <2>1. CASE T = {}
        BY <2>1, SumOfNone, SumType
    <2>2. ASSUME NEW x \in T PROVE T \in I
        <3>1. SumOver(f, S) = SumOver(f, T \ {x}) + SumOver(f, S \ (T \ {x}))
            BY <1>1
        <3>2. SumOver(f, T) = f[x] + SumOver(f, T \ {x})
            BY FS_Subset, SumRemoves
        <3>3. SumOver(f, S \ (T \ {x})) = f[x] + SumOver(f, (S \ (T \ {x})) \ {x})
            BY FS_Subset, SumRemoves
        <3>4. (S \ (T \ {x})) \ {x} = S \ T
            OBVIOUS
        <3>5. SumOver(f, T \ {x}) \in Int /\ SumOver(f, S \ T) \in Int
            BY FS_Subset, SumType
        <3>6. f[x] \in Int /\ SumOver(f, S) \in Int
            BY SumType
        <3>7. SumOver(f, S) = SumOver(f, T) + SumOver(f, S \ T)
            <4>1. SumOver(f, S \ (T \ {x})) = f[x] + SumOver(f, S \ T)
                BY <3>3, <3>4, Zenon
            <4> QED BY <3>1, <3>2, <3>5, <3>6, <4>1
        <3> QED BY <3>7
    <2> QED BY <2>1, <2>2
<1>2. IsFiniteSet(U)
    BY FS_Subset
<1> HIDE DEF I
<1>3. U \in I
    BY <1>1, <1>2, RemovalInduction
<1> QED BY <1>3 DEF I

\* A sum of natural numbers, and what one of them changes.
LEMMA SumIsNatural ==
    ASSUME NEW f, NEW S, IsFiniteSet(S), \A x \in S : f[x] \in Nat
    PROVE  SumOver(f, S) \in Nat
<1> DEFINE I == {T \in SUBSET S : SumOver(f, T) \in Nat}
<1>1. ASSUME NEW T \in SUBSET S, \A x \in T : T \ {x} \in I PROVE T \in I
    <2>1. CASE T = {}
        BY <2>1, SumOfNone
    <2>2. CASE T # {}
        <3>1. Picked(T) \in T /\ T \ {Picked(T)} \in I
            BY <1>1, <2>2, PickedIsMember
        <3>2. SumOver(f, T) = f[Picked(T)] + SumOver(f, T \ {Picked(T)})
            BY <2>2, SumPicks, FS_Subset
        <3> QED BY <3>1, <3>2
    <2> QED BY <2>1, <2>2
<1> HIDE DEF I
<1>2. S \in I
    BY <1>1, RemovalInduction
<1> QED BY <1>2 DEF I

LEMMA SumOfZeros ==
    ASSUME NEW f, NEW S, IsFiniteSet(S), \A x \in S : f[x] = 0
    PROVE  SumOver(f, S) = 0
<1> DEFINE I == {T \in SUBSET S : SumOver(f, T) = 0}
<1>1. ASSUME NEW T \in SUBSET S, \A x \in T : T \ {x} \in I PROVE T \in I
    <2>1. CASE T = {}
        BY <2>1, SumOfNone
    <2>2. CASE T # {}
        <3>1. Picked(T) \in T /\ T \ {Picked(T)} \in I
            BY <1>1, <2>2, PickedIsMember
        <3>2. SumOver(f, T) = f[Picked(T)] + SumOver(f, T \ {Picked(T)})
            BY <2>2, SumPicks, FS_Subset
        <3> QED BY <3>1, <3>2
    <2> QED BY <2>1, <2>2
<1> HIDE DEF I
<1>2. S \in I
    BY <1>1, RemovalInduction
<1> QED BY <1>2 DEF I

LEMMA SumChanges ==
    ASSUME NEW S, IsFiniteSet(S), NEW f, NEW g, \A x \in S : f[x] \in Int /\ g[x] \in Int,
           NEW y \in S, \A x \in S \ {y} : f[x] = g[x]
    PROVE  SumOver(g, S) = SumOver(f, S) + g[y] - f[y]
<1>1. SumOver(f, S) = f[y] + SumOver(f, S \ {y})
    BY SumRemoves
<1>2. SumOver(g, S) = g[y] + SumOver(g, S \ {y})
    BY SumRemoves
<1>3. IsFiniteSet(S \ {y})
    BY FS_Subset
<1>4. SumOver(f, S \ {y}) = SumOver(g, S \ {y}) /\ SumOver(f, S \ {y}) \in Int
    BY <1>3, SumAgrees, SumType
<1> QED BY <1>1, <1>2, <1>4
-----------------------------------------------------------------------------
(* Sequences and selections from them.                                     *)

LEMMA ElementType == ASSUME NEW T, NEW s \in Seq(T), NEW i \in DOMAIN s PROVE s[i] \in T
OBVIOUS

LEMMA PlacesOf ==
    ASSUME NEW T, NEW s \in Seq(T)
    PROVE  /\ Len(s) \in Nat /\ DOMAIN s = 1 .. Len(s) /\ DOMAIN s \subseteq Nat
           /\ s = <<>> <=> DOMAIN s = {}
<1>1. Len(s) \in Nat /\ DOMAIN s = 1 .. Len(s)
    OBVIOUS
<1>2. s = <<>> <=> Len(s) = 0
    BY <1>1
<1>3. Len(s) = 0 <=> 1 .. Len(s) = {}
    <2>1. Len(s) # 0 => 1 \in 1 .. Len(s)
        BY <1>1
    <2>2. 1 .. 0 = {}
        OBVIOUS
    <2> QED BY <2>1, <2>2
<1>4. DOMAIN s \subseteq Nat
    BY <1>1
<1> QED BY <1>1, <1>2, <1>3, <1>4

Keeps(s, places, n, h) ==
    h = [i \in 0 .. n |->
            IF i = 0 THEN <<>>
            ELSE IF i \in places THEN Append(h[i - 1], s[i])
            ELSE h[i - 1]]

LEMMA SelectIsSolved ==
    ASSUME NEW s, NEW places
    PROVE  Select(s, places) = (CHOOSE h : Keeps(s, places, Len(s), h))[Len(s)]
BY DEF Select, Keeps

LEMMA KeepingExists ==
    ASSUME NEW s, NEW places, NEW n \in Nat PROVE \E h : Keeps(s, places, n, h)
<1> DEFINE I == {m \in Nat : \E h : Keeps(s, places, m, h)}
<1>1. 0 \in I
    <2>1. Keeps(s, places, 0, [i \in 0 .. 0 |-> <<>>])
        BY DEF Keeps
    <2> QED BY <2>1
<1>2. ASSUME NEW m \in Nat, m \in I PROVE m + 1 \in I
    <2>1. PICK h : Keeps(s, places, m, h)
        BY <1>2
    <2> DEFINE next(i) == IF i = 0 THEN <<>>
                          ELSE IF i \in places THEN Append(h[i - 1], s[i])
                          ELSE h[i - 1]
               g == [i \in 0 .. m + 1 |-> next(i)]
    <2>2. \A i \in 0 .. m : h[i] = next(i)
        BY <2>1 DEF Keeps
    <2>3. \A i \in 0 .. m : g[i] = h[i]
        BY <2>2
    <2>4. ASSUME NEW i \in 0 .. m + 1, i # 0 PROVE g[i - 1] = h[i - 1]
        <3>1. i - 1 \in 0 .. m
            BY <2>4
        <3> HIDE DEF g
        <3> QED BY <2>3, <3>1
    <2>5. g = [i \in 0 .. m + 1 |->
                IF i = 0 THEN <<>>
                ELSE IF i \in places THEN Append(g[i - 1], s[i])
                ELSE g[i - 1]]
        <3>1. \A i \in 0 .. m + 1 :
                next(i) = IF i = 0 THEN <<>>
                          ELSE IF i \in places THEN Append(g[i - 1], s[i])
                          ELSE g[i - 1]
            <4> HIDE DEF g
            <4> QED BY <2>4
        <3>2. g = [i \in 0 .. m + 1 |-> g[i]] /\ \A i \in 0 .. m + 1 : g[i] = next(i)
            OBVIOUS
        <3> HIDE DEF g, next
        <3> QED BY <3>1, <3>2
    <2> HIDE DEF g
    <2> QED BY <2>5 DEF Keeps
<1> HIDE DEF I
<1>3. n \in I
    BY <1>1, <1>2, NumberInduction
<1> QED BY <1>3 DEF I

\* r is what is at the places of s up to n, in the same order.
IsSelection(s, places, n, r) ==
    \E p \in [1 .. Len(r) -> 1 .. n] :
        /\ \A j \in 1 .. Len(r) : p[j] \in places /\ r[j] = s[p[j]]
        /\ \A j, k \in 1 .. Len(r) : j < k => p[j] < p[k]
        /\ \A i \in 1 .. n : i \in places => \E j \in 1 .. Len(r) : p[j] = i

LEMMA SelectionGrows ==
    ASSUME NEW T, NEW s \in Seq(T), NEW places, NEW n \in Nat, n + 1 <= Len(s),
           NEW r \in Seq(T), IsSelection(s, places, n, r)
    PROVE  /\ n + 1 \notin places => IsSelection(s, places, n + 1, r)
           /\ n + 1 \in places =>
                /\ Append(r, s[n + 1]) \in Seq(T)
                /\ IsSelection(s, places, n + 1, Append(r, s[n + 1]))
<1>1. PICK p \in [1 .. Len(r) -> 1 .. n] :
        /\ \A j \in 1 .. Len(r) : p[j] \in places /\ r[j] = s[p[j]]
        /\ \A j, k \in 1 .. Len(r) : j < k => p[j] < p[k]
        /\ \A i \in 1 .. n : i \in places => \E j \in 1 .. Len(r) : p[j] = i
    BY DEF IsSelection
<1>2. ASSUME n + 1 \notin places PROVE IsSelection(s, places, n + 1, r)
    <2>1. p \in [1 .. Len(r) -> 1 .. n + 1]
        BY <1>1
    <2>2. \A i \in 1 .. n + 1 : i \in places => i \in 1 .. n
        BY <1>2
    <2>3. \A i \in 1 .. n + 1 : i \in places => \E j \in 1 .. Len(r) : p[j] = i
        BY <1>1, <2>2
    <2> QED BY <1>1, <2>1, <2>3 DEF IsSelection
<1>3. ASSUME n + 1 \in places
      PROVE  /\ Append(r, s[n + 1]) \in Seq(T)
             /\ IsSelection(s, places, n + 1, Append(r, s[n + 1]))
    <2> DEFINE q == [j \in 1 .. Len(r) + 1 |-> IF j <= Len(r) THEN p[j] ELSE n + 1]
               t == Append(r, s[n + 1])
    <2>1. s[n + 1] \in T /\ Len(r) \in Nat
        OBVIOUS
    <2>2. /\ t \in Seq(T) /\ Len(t) = Len(r) + 1
          /\ \A j \in 1 .. Len(r) : t[j] = r[j]
          /\ t[Len(r) + 1] = s[n + 1]
        BY <2>1
    <2> HIDE DEF t
    <2>3. /\ \A j \in 1 .. Len(r) : q[j] = p[j] /\ p[j] \in 1 .. n
          /\ q[Len(r) + 1] = n + 1
          /\ q \in [1 .. Len(r) + 1 -> 1 .. n + 1]
        <3>1. ASSUME NEW j \in 1 .. Len(r)
              PROVE  /\ j \in 1 .. Len(r) + 1 /\ j <= Len(r)
                     /\ p[j] \in 1 .. n /\ p[j] \in 1 .. n + 1
            BY <2>1
        <3>2. Len(r) + 1 \in 1 .. Len(r) + 1 /\ ~(Len(r) + 1 <= Len(r)) /\ n + 1 \in 1 .. n + 1
            BY <2>1
        <3>3. \A j \in 1 .. Len(r) : q[j] = p[j] /\ p[j] \in 1 .. n
            BY <3>1
        <3>4. q[Len(r) + 1] = n + 1
            BY <3>2
        <3>5. \A j \in 1 .. Len(r) + 1 : (IF j <= Len(r) THEN p[j] ELSE n + 1) \in 1 .. n + 1
            BY <2>1, <3>1, <3>2
        <3> QED BY <3>3, <3>4, <3>5
    <2> HIDE DEF q
    <2>4. \A j \in 1 .. Len(r) + 1 : j \in 1 .. Len(r) \/ j = Len(r) + 1
        BY <2>1
    <2>5. \A j \in 1 .. Len(t) : q[j] \in places /\ t[j] = s[q[j]]
        BY <1>1, <1>3, <2>2, <2>3, <2>4
    <2>6. ASSUME NEW j \in 1 .. Len(t), NEW k \in 1 .. Len(t), j < k
          PROVE  q[j] < q[k]
        <3>1. j \in 1 .. Len(r)
            BY <2>1, <2>2, <2>6
        <3>2. CASE k \in 1 .. Len(r)
            BY <1>1, <2>3, <2>6, <3>1, <3>2
        <3>3. CASE k = Len(r) + 1
            BY <2>3, <3>1, <3>3
        <3> QED BY <2>2, <2>4, <3>2, <3>3
    <2>7. ASSUME NEW i \in 1 .. n + 1, i \in places
          PROVE  \E j \in 1 .. Len(t) : q[j] = i
        <3>1. CASE i = n + 1
            BY <2>1, <2>2, <2>3, <3>1
        <3>2. CASE i \in 1 .. n
            <4>1. PICK j \in 1 .. Len(r) : p[j] = i
                BY <1>1, <2>7, <3>2
            <4>2. j \in 1 .. Len(t) /\ q[j] = i
                BY <2>1, <2>2, <2>3, <4>1
            <4> QED BY <4>2
        <3> QED BY <3>1, <3>2
    <2>8. q \in [1 .. Len(t) -> 1 .. n + 1]
        BY <2>2, <2>3
    <2>9. IsSelection(s, places, n + 1, t)
        BY <2>5, <2>6, <2>7, <2>8 DEF IsSelection
    <2> QED BY <2>2, <2>9 DEF t
<1> QED BY <1>2, <1>3

\* A selection is what its name says: the elements at the places, all of them,
\* nothing else, in the order they had.
LEMMA Selects ==
    ASSUME NEW T, NEW s \in Seq(T), NEW places
    PROVE  /\ Select(s, places) \in Seq(T)
           /\ IsSelection(s, places, Len(s), Select(s, places))
<1>1. Len(s) \in Nat
    OBVIOUS
<1> DEFINE h == CHOOSE k : Keeps(s, places, Len(s), k)
           I == {n \in Nat : n <= Len(s) => h[n] \in Seq(T) /\ IsSelection(s, places, n, h[n])}
<1>2. Keeps(s, places, Len(s), h)
    BY <1>1, KeepingExists
<1>3. Select(s, places) = h[Len(s)]
    BY SelectIsSolved
<1> HIDE DEF h
<1>4. \A i \in 0 .. Len(s) :
        h[i] = IF i = 0 THEN <<>>
               ELSE IF i \in places THEN Append(h[i - 1], s[i])
               ELSE h[i - 1]
    BY <1>2, Zenon DEF Keeps
<1>5. 0 \in I
    <2>1. h[0] = <<>>
        BY <1>1, <1>4
    <2>2. <<>> \in Seq(T) /\ Len(<<>>) = 0
        OBVIOUS
    <2>3. IsSelection(s, places, 0, <<>>)
        <3>0. 1 .. 0 = {} /\ 1 .. Len(<<>>) = {}
            BY <2>2
        <3>1. [i \in {} |-> 0] \in [1 .. Len(<<>>) -> 1 .. 0]
            BY <3>0
        <3> QED BY <3>0, <3>1 DEF IsSelection
    <2> QED BY <2>1, <2>2, <2>3
<1>6. ASSUME NEW n \in Nat, n \in I PROVE n + 1 \in I
    <2> SUFFICES ASSUME n + 1 <= Len(s)
                 PROVE  h[n + 1] \in Seq(T) /\ IsSelection(s, places, n + 1, h[n + 1])
        OBVIOUS
    <2>1. h[n] \in Seq(T) /\ IsSelection(s, places, n, h[n])
        BY <1>1, <1>6
    <2>2. h[n + 1] = IF n + 1 \in places THEN Append(h[n], s[n + 1]) ELSE h[n]
        <3>1. n + 1 \in 0 .. Len(s) /\ n + 1 # 0 /\ (n + 1) - 1 = n
            BY <1>1
        <3> QED BY <1>4, <3>1
    <2> QED BY <2>1, <2>2, SelectionGrows
<1> HIDE DEF I
<1>7. Len(s) \in I
    BY <1>1, <1>5, <1>6, NumberInduction
<1> QED BY <1>1, <1>3, <1>7 DEF I

\* In terms of elements.
Members(s) == {s[i] : i \in DOMAIN s}

LEMMA SelectedMembers ==
    ASSUME NEW T, NEW s \in Seq(T), NEW places
    PROVE  Members(Select(s, places)) = {s[i] : i \in places \cap DOMAIN s}
<1> DEFINE r == Select(s, places)
<1>1. r \in Seq(T) /\ IsSelection(s, places, Len(s), r)
    BY Selects
<1> HIDE DEF r
<1>2. PICK p \in [1 .. Len(r) -> 1 .. Len(s)] :
        /\ \A j \in 1 .. Len(r) : p[j] \in places /\ r[j] = s[p[j]]
        /\ \A i \in 1 .. Len(s) : i \in places => \E j \in 1 .. Len(r) : p[j] = i
    BY <1>1 DEF IsSelection
<1>3. DOMAIN r = 1 .. Len(r) /\ DOMAIN s = 1 .. Len(s)
    BY <1>1, PlacesOf
<1>4. ASSUME NEW j \in 1 .. Len(r)
      PROVE  \E i \in places \cap (1 .. Len(s)) : r[j] = s[i]
    <2>1. p[j] \in 1 .. Len(s) /\ p[j] \in places /\ r[j] = s[p[j]]
        BY <1>2
    <2> QED BY <2>1
<1>5. ASSUME NEW i \in 1 .. Len(s), i \in places
      PROVE  \E j \in 1 .. Len(r) : r[j] = s[i]
    <2>1. PICK j \in 1 .. Len(r) : p[j] = i
        BY <1>2, <1>5
    <2> QED BY <1>2, <2>1
<1>6. \A i \in places \cap (1 .. Len(s)) : \E j \in 1 .. Len(r) : r[j] = s[i]
    BY <1>5
<1> DEFINE P == 1 .. Len(r)
           Q == 1 .. Len(s)
<1>7. DOMAIN r = P /\ DOMAIN s = Q
    BY <1>3
<1>8. /\ \A j \in P : \E i \in places \cap Q : r[j] = s[i]
      /\ \A i \in places \cap Q : \E j \in P : r[j] = s[i]
    BY <1>4, <1>6
<1> HIDE DEF P, Q
<1>9. {r[j] : j \in P} = {s[i] : i \in places \cap Q}
    BY <1>8
<1>10. Members(r) = {s[i] : i \in places \cap DOMAIN s}
    BY <1>7, <1>9 DEF Members
<1> QED BY <1>10 DEF r

\* No element is twice in a sequence.
Distinct(s) == \A i, j \in 1 .. Len(s) : s[i] = s[j] => i = j

LEMMA SelectionIsDistinct ==
    ASSUME NEW T, NEW s \in Seq(T), NEW places, Distinct(s)
    PROVE  Distinct(Select(s, places))
<1> DEFINE r == Select(s, places)
<1>1. r \in Seq(T) /\ IsSelection(s, places, Len(s), r)
    BY Selects
<1> HIDE DEF r
<1>2. Len(r) \in Nat /\ Len(s) \in Nat
    BY <1>1
<1>3. PICK p \in [1 .. Len(r) -> 1 .. Len(s)] :
        /\ \A j \in 1 .. Len(r) : r[j] = s[p[j]]
        /\ \A j, k \in 1 .. Len(r) : j < k => p[j] < p[k]
    BY <1>1 DEF IsSelection
<1>4. ASSUME NEW i \in 1 .. Len(r), NEW j \in 1 .. Len(r), r[i] = r[j], i < j
      PROVE  FALSE
    <2>1. p[i] \in 1 .. Len(s) /\ p[j] \in 1 .. Len(s) /\ p[i] < p[j]
        BY <1>3, <1>4
    <2>2. s[p[i]] = s[p[j]]
        BY <1>3, <1>4
    <2> QED BY <1>2, <2>1, <2>2 DEF Distinct
<1>5. ASSUME NEW i \in 1 .. Len(r), NEW j \in 1 .. Len(r), r[i] = r[j] PROVE i = j
    <2>1. ~(i < j) /\ ~(j < i)
        BY <1>4, <1>5
    <2> QED BY <1>2, <2>1
<1> QED BY <1>5 DEF r, Distinct

\* Without its first element a sequence has the others.
LEMMA TailOf ==
    ASSUME NEW T, NEW s \in Seq(T), s # <<>>
    PROVE  /\ Head(s) \in T /\ Head(s) \in Members(s)
           /\ Tail(s) \in Seq(T) /\ Members(Tail(s)) \subseteq Members(s)
           /\ Distinct(s) => Distinct(Tail(s)) /\ Members(Tail(s)) = Members(s) \ {Head(s)}
<1> DEFINE t == Tail(s)
<1>1. /\ Len(s) \in Nat /\ Len(s) # 0 /\ Head(s) = s[1] /\ 1 \in 1 .. Len(s)
      /\ t \in Seq(T) /\ Len(t) = Len(s) - 1
    OBVIOUS
<1>2. Head(s) \in T
    OBVIOUS
<1>3. \A i \in 1 .. Len(t) : t[i] = s[i + 1] /\ i + 1 \in 1 .. Len(s)
    BY <1>1
<1>4. DOMAIN t = 1 .. Len(t) /\ DOMAIN s = 1 .. Len(s)
    BY <1>1, PlacesOf
<1> HIDE DEF t
<1>5. Members(t) = {t[i] : i \in 1 .. Len(t)} /\ Members(s) = {s[i] : i \in 1 .. Len(s)}
    BY <1>4 DEF Members
<1>6. Head(s) \in Members(s)
    BY <1>1, <1>5
<1>7. Members(t) \subseteq Members(s)
    BY <1>3, <1>5
<1>8. ASSUME Distinct(s) PROVE Distinct(t) /\ Members(t) = Members(s) \ {Head(s)}
    <2>1. ASSUME NEW i \in 1 .. Len(t), NEW j \in 1 .. Len(t), t[i] = t[j] PROVE i = j
        <3>1. s[i + 1] = s[j + 1] /\ i + 1 \in 1 .. Len(s) /\ j + 1 \in 1 .. Len(s)
            BY <1>3, <2>1
        <3>2. i + 1 = j + 1
            BY <1>8, <3>1 DEF Distinct
        <3> QED BY <3>2
    <2>2. ASSUME NEW i \in 1 .. Len(t) PROVE t[i] # Head(s)
        <3>1. t[i] = s[i + 1] /\ i + 1 \in 1 .. Len(s) /\ i + 1 # 1
            BY <1>3
        <3> QED BY <1>1, <1>8, <3>1 DEF Distinct
    <2>3. ASSUME NEW i \in 1 .. Len(s), s[i] # Head(s) PROVE \E j \in 1 .. Len(t) : t[j] = s[i]
        <3>1. i - 1 \in 1 .. Len(t) /\ (i - 1) + 1 = i
            BY <1>1, <2>3
        <3> QED BY <1>3, <3>1
    <2> QED BY <1>5, <1>7, <2>1, <2>2, <2>3 DEF Distinct
<1> QED BY <1>1, <1>2, <1>6, <1>7, <1>8 DEF t

-----------------------------------------------------------------------------
(* Least members.                                                          *)

\* A set of natural numbers that is not empty has a least member.
LEMMA LeastMember ==
    ASSUME NEW S, S \subseteq Nat, S # {}
    PROVE  Sets!Min(S) \in S /\ \A y \in S : Sets!Min(S) <= y
<1>1. \E x \in S : \A y \in S : ~(<<y, x>> \in OpToRel(<, Nat))
    BY NatLessThanWellFounded, WFMin, Zenon
<1>2. PICK x \in S : \A y \in S : ~(<<y, x>> \in OpToRel(<, Nat))
    BY <1>1
<1>3. \A y \in S : x <= y
    <2> SUFFICES ASSUME NEW y \in S PROVE x <= y
        OBVIOUS
    <2>1. <<y, x>> \in Nat \X Nat /\ ~(<<y, x>> \in OpToRel(<, Nat))
        BY <1>2
    <2>2. ~(y < x)
        BY <2>1 DEF OpToRel
    <2>3. x \in Nat /\ y \in Nat
        OBVIOUS
    <2> QED BY <2>2, <2>3
<1> QED BY <1>3 DEF Sets!Min

\* Something of a set that is not empty has the least value.
LEMMA LeastValue ==
    ASSUME NEW S, S # {}, NEW f, \A x \in S : f[x] \in Nat
    PROVE  \E x \in S : \A y \in S : f[x] <= f[y]
<1> DEFINE V == {f[x] : x \in S}
<1>1. V \subseteq Nat /\ V # {}
    OBVIOUS
<1> HIDE DEF V
<1>2. PICK v \in V : \A w \in V : v <= w
    BY <1>1, LeastMember
<1>3. PICK x \in S : f[x] = v
    BY DEF V
<1>4. \A y \in S : f[y] \in V
    BY DEF V
<1> QED BY <1>2, <1>3, <1>4

\* And, of a finite set, the greatest.
LEMMA GreatestValue ==
    ASSUME NEW S, IsFiniteSet(S), S # {}, NEW f, \A x \in S : f[x] \in Int
    PROVE  \E x \in S : \A y \in S : f[y] <= f[x]
<1> DEFINE I == {T \in SUBSET S : T = {} \/ \E x \in T : \A y \in T : f[y] <= f[x]}
<1>1. ASSUME NEW T \in SUBSET S, \A x \in T : T \ {x} \in I PROVE T \in I
    <2> SUFFICES ASSUME T # {} PROVE \E x \in T : \A y \in T : f[y] <= f[x]
        OBVIOUS
    <2>1. PICK x \in T : TRUE
        OBVIOUS
    <2>2. CASE T \ {x} = {}
        <3>1. \A y \in T : y = x
            BY <2>2
        <3> QED BY <2>1, <3>1
    <2>3. CASE T \ {x} # {}
        <3>1. PICK z \in T \ {x} : \A y \in T \ {x} : f[y] <= f[z]
            BY <1>1, <2>1, <2>3
        <3>2. CASE f[x] <= f[z]
            <4>1. \A y \in T : f[y] <= f[z]
                BY <3>1, <3>2
            <4> QED BY <3>1, <4>1
        <3>3. CASE ~(f[x] <= f[z])
            <4>1. f[x] \in Int /\ \A y \in T : f[y] \in Int
                BY <2>1
            <4>2. \A y \in T : f[y] <= f[x]
                BY <3>1, <3>3, <4>1
            <4> QED BY <2>1, <4>2
        <3> QED BY <3>2, <3>3
    <2> QED BY <2>2, <2>3
<1> HIDE DEF I
<1>2. S \in I
    BY <1>1, RemovalInduction
<1> QED BY <1>2 DEF I

LEMMA GreatestMember ==
    ASSUME NEW S, IsFiniteSet(S), S \subseteq Int, S # {}
    PROVE  Sets!Max(S) \in S /\ \A y \in S : y <= Sets!Max(S)
<1> DEFINE f == [x \in S |-> x]
<1>1. \A x \in S : f[x] \in Int
    OBVIOUS
<1>2. \A x \in S : f[x] = x
    OBVIOUS
<1> HIDE DEF f
<1>3. \E x \in S : \A y \in S : f[y] <= f[x]
    BY <1>1, GreatestValue
<1>4. \E x \in S : \A y \in S : y <= x
    BY <1>2, <1>3
<1>5. \E x \in S : \A y \in S : x >= y
    BY <1>4
<1>6. Sets!Max(S) \in S /\ \A y \in S : Sets!Max(S) >= y
    BY <1>5, Zenon DEF Sets!Max
<1> QED BY <1>6

-----------------------------------------------------------------------------
(* Sequences of whatever elements, put together.                           *)

IsSeq(s) == s \in Seq(Members(s))

LEMMA AnySeq == ASSUME NEW T, NEW s \in Seq(T) PROVE IsSeq(s)
<1>1. Len(s) \in Nat /\ DOMAIN s = 1 .. Len(s) /\ s = [i \in 1 .. Len(s) |-> s[i]]
    OBVIOUS
<1>2. \A i \in 1 .. Len(s) : s[i] \in Members(s)
    BY <1>1 DEF Members
<1> DEFINE M == Members(s)
<1> HIDE DEF M
<1>3. s \in [1 .. Len(s) -> M]
    BY <1>1, <1>2 DEF M
<1>4. s \in Seq(M)
    BY <1>1, <1>3
<1> QED BY <1>4 DEF M, IsSeq

LEMMA PlacesIn ==
    ASSUME NEW s, IsSeq(s)
    PROVE  /\ Len(s) \in Nat /\ DOMAIN s = 1 .. Len(s)
           /\ Members(s) = {s[i] : i \in 1 .. Len(s)}
           /\ s = <<>> <=> Len(s) = 0
           /\ s = <<>> <=> Members(s) = {}
<1>1. Len(s) \in Nat /\ DOMAIN s = 1 .. Len(s)
    BY DEF IsSeq
<1>2. s = <<>> <=> Len(s) = 0
    BY DEF IsSeq
<1>3. Members(s) = {s[i] : i \in 1 .. Len(s)}
    BY <1>1 DEF Members
<1>4. Len(s) = 0 <=> Members(s) = {}
    <2>1. CASE Len(s) = 0
        <3>1. 1 .. Len(s) = {}
            BY <2>1
        <3> QED BY <2>1, <3>1, <1>3
    <2>2. CASE Len(s) # 0
        <3>1. 1 \in 1 .. Len(s)
            BY <1>1, <2>2
        <3> QED BY <2>2, <3>1, <1>3
    <2> QED BY <2>1, <2>2
<1> QED BY <1>1, <1>2, <1>3, <1>4

LEMMA SeqByPlaces ==
    ASSUME NEW n \in Nat, NEW f, f = [i \in 1 .. n |-> f[i]]
    PROVE  IsSeq(f) /\ Len(f) = n
<1> DEFINE T == {f[i] : i \in 1 .. n}
<1>1. \A i \in 1 .. n : f[i] \in T
    OBVIOUS
<1> HIDE DEF T
<1>2. f \in [1 .. n -> T]
    BY <1>1
<1>3. f \in Seq(T) /\ Len(f) = n
    BY <1>2
<1> QED BY <1>3, AnySeq

LEMMA EmptyIsSeq == IsSeq(<<>>) /\ Members(<<>>) = {}
<1>1. <<>> \in Seq({})
    OBVIOUS
<1>2. IsSeq(<<>>)
    BY <1>1, AnySeq
<1> QED BY <1>2, PlacesIn

LEMMA OneIsSeq ==
    ASSUME NEW x
    PROVE  IsSeq(<<x>>) /\ Members(<<x>>) = {x} /\ Len(<<x>>) = 1 /\ <<x>>[1] = x
<1>1. <<x>> \in Seq({x}) /\ Len(<<x>>) = 1 /\ <<x>>[1] = x
    OBVIOUS
<1>2. IsSeq(<<x>>)
    BY <1>1, AnySeq
<1>3. Members(<<x>>) = {<<x>>[i] : i \in 1 .. 1}
    BY <1>1, <1>2, PlacesIn
<1>4. \A i \in 1 .. 1 : i = 1
    OBVIOUS
<1>5. Members(<<x>>) = {x}
    BY <1>1, <1>3, <1>4
<1> QED BY <1>1, <1>2, <1>5

\* A sequence of length one.
LEMMA TheOnly ==
    ASSUME NEW s, IsSeq(s), Len(s) = 1
    PROVE  s = <<s[1]>>
BY DEF IsSeq

LEMMA Concat ==
    ASSUME NEW s, IsSeq(s), NEW t, IsSeq(t)
    PROVE  /\ IsSeq(s \o t) /\ Len(s \o t) = Len(s) + Len(t)
           /\ \A i \in 1 .. Len(s) : (s \o t)[i] = s[i]
           /\ \A i \in 1 .. Len(t) : (s \o t)[Len(s) + i] = t[i]
           /\ Members(s \o t) = Members(s) \cup Members(t)
           /\ s \o <<>> = s /\ <<>> \o s = s
<1> DEFINE T == Members(s) \cup Members(t)
           u == s \o t
<1>0. s \in Seq(T) /\ t \in Seq(T)
    <2>1. s \in Seq(Members(s)) /\ t \in Seq(Members(t))
        BY DEF IsSeq
    <2> DEFINE A == Members(s)
               B == Members(t)
    <2>2. s \in Seq(A) /\ t \in Seq(B)
        BY <2>1
    <2> HIDE DEF A, B
    <2>3. s \in Seq(A \cup B) /\ t \in Seq(A \cup B)
        BY <2>2
    <2> QED BY <2>3 DEF A, B
<1> HIDE DEF T
<1>1. /\ u \in Seq(T) /\ Len(u) = Len(s) + Len(t)
      /\ \A i \in 1 .. Len(s) : u[i] = s[i]
      /\ \A i \in 1 .. Len(t) : u[Len(s) + i] = t[i]
    BY <1>0
<1>2. s \o <<>> = s /\ <<>> \o s = s
    BY <1>0
<1> HIDE DEF u
<1>3. IsSeq(u)
    BY <1>1, AnySeq
<1>4. Len(s) \in Nat /\ Len(t) \in Nat
    BY PlacesIn
<1>5. \A i \in 1 .. Len(u) : i \in 1 .. Len(s) \/ (i - Len(s) \in 1 .. Len(t) /\ i = Len(s) + (i - Len(s)))
    BY <1>1, <1>4
<1>6. \A i \in 1 .. Len(u) : u[i] \in Members(s) \cup Members(t)
    <2> TAKE i \in 1 .. Len(u)
    <2>1. CASE i \in 1 .. Len(s)
        BY <1>1, <2>1, PlacesIn
    <2>2. CASE i - Len(s) \in 1 .. Len(t) /\ i = Len(s) + (i - Len(s))
        <3>1. u[i] = t[i - Len(s)]
            BY <1>1, <2>2
        <3> QED BY <2>2, <3>1, PlacesIn
    <2> QED BY <1>5, <2>1, <2>2
<1>7. \A i \in 1 .. Len(s) : i \in 1 .. Len(u)
    BY <1>1, <1>4
<1>8. \A i \in 1 .. Len(t) : Len(s) + i \in 1 .. Len(u)
    BY <1>1, <1>4
<1>9. Members(s) \subseteq Members(u)
    BY <1>1, <1>3, <1>7, PlacesIn
<1>10. Members(t) \subseteq Members(u)
    <2>1. ASSUME NEW i \in 1 .. Len(t) PROVE t[i] \in Members(u)
        <3>1. u[Len(s) + i] = t[i] /\ Len(s) + i \in 1 .. Len(u)
            BY <1>1, <1>8
        <3>2. u[Len(s) + i] \in Members(u)
            BY <1>3, <3>1, PlacesIn
        <3> QED BY <3>1, <3>2
    <2> QED BY <2>1, PlacesIn
<1>11. Members(u) \subseteq Members(s) \cup Members(t)
    BY <1>3, <1>6, PlacesIn
<1>12. Members(u) = Members(s) \cup Members(t)
    BY <1>9, <1>10, <1>11
<1> QED BY <1>1, <1>2, <1>3, <1>12 DEF u

\* A selection, whatever the elements.
LEMMA SelectedFrom ==
    ASSUME NEW s, IsSeq(s), NEW places
    PROVE  /\ IsSeq(Select(s, places))
           /\ IsSelection(s, places, Len(s), Select(s, places))
           /\ Members(Select(s, places)) = {s[i] : i \in places \cap DOMAIN s}
<1>1. s \in Seq(Members(s))
    BY DEF IsSeq
<1> QED BY <1>1, Selects, SelectedMembers, AnySeq

\* There is one selection only: the places are in it in their order.
LEMMA SelectionsBegin ==
    ASSUME NEW s, NEW places, NEW n \in Nat,
           NEW r, IsSeq(r), NEW t, IsSeq(t),
           NEW p \in [1 .. Len(r) -> 1 .. n], NEW q \in [1 .. Len(t) -> 1 .. n],
           \A j \in 1 .. Len(r) : p[j] \in places,
           \A j, k \in 1 .. Len(r) : j < k => p[j] < p[k],
           \A i \in 1 .. n : i \in places => \E j \in 1 .. Len(t) : q[j] = i,
           \A j, k \in 1 .. Len(t) : j < k => q[j] < q[k],
           NEW k \in Nat, \A j \in 1 .. k : j <= Len(r) /\ j <= Len(t) /\ p[j] = q[j],
           k + 1 <= Len(r)
    PROVE  k + 1 <= Len(t) /\ q[k + 1] <= p[k + 1]
<1>1. Len(r) \in Nat /\ Len(t) \in Nat
    BY PlacesIn
<1>2. k + 1 \in 1 .. Len(r)
    BY <1>1
<1>3. p[k + 1] \in 1 .. n /\ p[k + 1] \in places
    BY <1>2
<1>4. PICK j \in 1 .. Len(t) : q[j] = p[k + 1]
    BY <1>3
<1>5. ~(j <= k)
    <2> SUFFICES ASSUME j <= k PROVE FALSE
        OBVIOUS
    <2>1. j \in 1 .. k /\ j \in 1 .. Len(r) /\ j < k + 1
        BY <1>1, <1>4
    <2>2. p[j] = q[j] /\ p[j] < p[k + 1] /\ p[j] \in 1 .. n
        BY <1>2, <2>1
    <2> QED BY <1>3, <1>4, <2>2
<1>6. j \in Nat /\ k + 1 <= Len(t) /\ k + 1 \in 1 .. Len(t) /\ (k + 1 = j \/ k + 1 < j)
    BY <1>1, <1>4, <1>5
<1>7. q[k + 1] \in 1 .. n /\ q[j] \in 1 .. n
    BY <1>4, <1>6
<1> QED BY <1>4, <1>6, <1>7

LEMMA SelectionIsUnique ==
    ASSUME NEW s, NEW places, NEW n \in Nat, NEW r, IsSeq(r), NEW t, IsSeq(t),
           IsSelection(s, places, n, r), IsSelection(s, places, n, t)
    PROVE  r = t
<1>1. Len(r) \in Nat /\ Len(t) \in Nat
    BY PlacesIn
<1>2. PICK p \in [1 .. Len(r) -> 1 .. n] :
        /\ \A j \in 1 .. Len(r) : p[j] \in places /\ r[j] = s[p[j]]
        /\ \A j, k \in 1 .. Len(r) : j < k => p[j] < p[k]
        /\ \A i \in 1 .. n : i \in places => \E j \in 1 .. Len(r) : p[j] = i
    BY DEF IsSelection
<1>3. PICK q \in [1 .. Len(t) -> 1 .. n] :
        /\ \A j \in 1 .. Len(t) : q[j] \in places /\ t[j] = s[q[j]]
        /\ \A j, k \in 1 .. Len(t) : j < k => q[j] < q[k]
        /\ \A i \in 1 .. n : i \in places => \E j \in 1 .. Len(t) : q[j] = i
    BY DEF IsSelection
<1> DEFINE Same(k) == \A j \in 1 .. k : j <= Len(r) /\ j <= Len(t) /\ p[j] = q[j]
           I == {k \in Nat : k <= Len(r) \/ k <= Len(t) => Same(k)}
<1>4. 0 \in I
    OBVIOUS
<1>5. ASSUME NEW k \in Nat, k \in I PROVE k + 1 \in I
    <2> SUFFICES ASSUME k + 1 <= Len(r) \/ k + 1 <= Len(t) PROVE Same(k + 1)
        OBVIOUS
    <2>1. Same(k)
        BY <1>1, <1>5
    <2>2. k + 1 <= Len(r) => k + 1 <= Len(t) /\ q[k + 1] <= p[k + 1]
        BY <1>2, <1>3, <2>1, SelectionsBegin
    <2>3. k + 1 <= Len(t) => k + 1 <= Len(r) /\ p[k + 1] <= q[k + 1]
        <3>1. \A j \in 1 .. k : j <= Len(t) /\ j <= Len(r) /\ q[j] = p[j]
            BY <2>1
        <3> QED BY <1>2, <1>3, <3>1, SelectionsBegin
    <2>4. k + 1 \in 1 .. Len(r) /\ k + 1 \in 1 .. Len(t)
        BY <1>1, <2>2, <2>3
    <2>5. p[k + 1] = q[k + 1]
        <3>1. p[k + 1] \in 1 .. n /\ q[k + 1] \in 1 .. n
            BY <1>2, <1>3, <2>4
        <3> QED BY <2>2, <2>3, <3>1
    <2>6. \A j \in 1 .. k + 1 : j \in 1 .. k \/ j = k + 1
        OBVIOUS
    <2> QED BY <2>1, <2>2, <2>3, <2>5, <2>6
<1> HIDE DEF I
<1>6. Len(r) \in I /\ Len(t) \in I
    BY <1>1, <1>4, <1>5, NumberInduction
<1>7. Same(Len(r)) /\ Same(Len(t))
    BY <1>1, <1>6 DEF I
<1>8. Len(r) = Len(t)
    <2>1. Len(r) # 0 => Len(r) \in 1 .. Len(r)
        BY <1>1
    <2>2. Len(t) # 0 => Len(t) \in 1 .. Len(t)
        BY <1>1
    <2> QED BY <1>1, <1>7, <2>1, <2>2
<1>9. \A j \in 1 .. Len(r) : r[j] = t[j]
    BY <1>2, <1>3, <1>7, <1>8
<1> QED BY <1>8, <1>9 DEF IsSeq

-----------------------------------------------------------------------------
(* Sequences of sequences.                                                 *)

Flattens(ss, n, f) ==
    f = [i \in 1 .. n |-> IF i = 1 THEN ss[i] ELSE f[i - 1] \o ss[i]]

LEMMA FlatteningIsSolved ==
    ASSUME NEW ss, Len(ss) # 0
    PROVE  FlattenSeq(ss) = (CHOOSE f : Flattens(ss, Len(ss), f))[Len(ss)]
BY DEF FlattenSeq, Flattens

LEMMA FlatteningExists ==
    ASSUME NEW ss, NEW n \in Nat PROVE \E f : Flattens(ss, n, f)
<1> DEFINE I == {m \in Nat : \E f : Flattens(ss, m, f)}
<1>1. 0 \in I
    <2>1. [i \in 1 .. 0 |-> <<>>] = [i \in 1 .. 0 |->
            IF i = 1 THEN ss[i] ELSE [j \in 1 .. 0 |-> <<>>][i - 1] \o ss[i]]
        OBVIOUS
    <2> QED BY <2>1, Zenon DEF Flattens
<1>2. ASSUME NEW m \in Nat, m \in I PROVE m + 1 \in I
    <2>1. PICK f : Flattens(ss, m, f)
        BY <1>2
    <2> DEFINE next(i) == IF i = 1 THEN ss[i] ELSE f[i - 1] \o ss[i]
               g == [i \in 1 .. m + 1 |-> next(i)]
    <2>2. \A i \in 1 .. m : f[i] = next(i)
        BY <2>1 DEF Flattens
    <2>3. \A i \in 1 .. m : g[i] = f[i]
        <3>1. \A i \in 1 .. m : i \in 1 .. m + 1
            OBVIOUS
        <3> QED BY <2>2, <3>1
    <2>4. ASSUME NEW i \in 1 .. m + 1, i # 1 PROVE g[i - 1] = f[i - 1]
        <3>1. i - 1 \in 1 .. m
            BY <2>4
        <3> HIDE DEF g
        <3> QED BY <2>3, <3>1
    <2>5. g = [i \in 1 .. m + 1 |-> IF i = 1 THEN ss[i] ELSE g[i - 1] \o ss[i]]
        <3>1. \A i \in 1 .. m + 1 : next(i) = IF i = 1 THEN ss[i] ELSE g[i - 1] \o ss[i]
            <4> HIDE DEF g
            <4> QED BY <2>4
        <3>2. g = [i \in 1 .. m + 1 |-> g[i]] /\ \A i \in 1 .. m + 1 : g[i] = next(i)
            OBVIOUS
        <3> HIDE DEF g, next
        <3> QED BY <3>1, <3>2, ZenonT(30)
    <2> HIDE DEF g
    <2>6. Flattens(ss, m + 1, g)
        BY <2>5, Zenon DEF Flattens
    <2>7. m + 1 \in Nat
        OBVIOUS
    <2> QED BY <2>6, <2>7
<1> HIDE DEF I
<1>3. n \in I
    BY <1>1, <1>2, NumberInduction
<1> QED BY <1>3 DEF I

\* off[i] is where the parts up to i end.
Offsets(ss, off) ==
    /\ off \in [0 .. Len(ss) -> Nat] /\ off[0] = 0
    /\ \A i \in 1 .. Len(ss) : off[i] = off[i - 1] + Len(ss[i])

LEMMA OffsetsGrow ==
    ASSUME NEW ss, IsSeq(ss), \A i \in 1 .. Len(ss) : IsSeq(ss[i]), NEW off, Offsets(ss, off),
           NEW i \in 0 .. Len(ss), NEW j \in 0 .. Len(ss), i <= j
    PROVE  off[i] <= off[j]
<1>0. Len(ss) \in Nat
    BY PlacesIn
<1> DEFINE I == {m \in Nat : m <= Len(ss) => \A k \in 0 .. m : off[k] <= off[m]}
<1>1. 0 \in I
    BY <1>0 DEF Offsets
<1>2. ASSUME NEW m \in Nat, m \in I PROVE m + 1 \in I
    <2> SUFFICES ASSUME m + 1 <= Len(ss), NEW k \in 0 .. m + 1 PROVE off[k] <= off[m + 1]
        OBVIOUS
    <2>1. m + 1 \in 1 .. Len(ss) /\ (m + 1) - 1 = m /\ m \in 0 .. Len(ss) /\ k \in 0 .. Len(ss)
        BY <1>0
    <2>2. off[m + 1] = off[m] + Len(ss[m + 1])
        BY <2>1 DEF Offsets
    <2>3. Len(ss[m + 1]) \in Nat
        BY <2>1, PlacesIn
    <2>4. off[m] \in Nat /\ off[k] \in Nat
        BY <2>1 DEF Offsets
    <2>5. CASE k = m + 1
        BY <2>2, <2>3, <2>4, <2>5
    <2>6. CASE k \in 0 .. m
        <3>1. off[k] <= off[m]
            BY <1>0, <1>2, <2>6
        <3> QED BY <2>2, <2>3, <2>4, <3>1
    <2> QED BY <2>5, <2>6
<1> HIDE DEF I
<1>3. j \in I
    BY <1>0, <1>1, <1>2, NumberInduction
<1>4. j <= Len(ss) /\ i \in 0 .. j
    BY <1>0
<1> QED BY <1>3, <1>4 DEF I

\* flat is ss[1] to ss[m] one after the other, whose ends are off.
Flat(ss, off, m, flat) ==
    /\ Len(flat) = off[m]
    /\ \A i \in 1 .. m : \A n \in 1 .. Len(ss[i]) :
        off[i - 1] + n \in 1 .. off[m] /\ flat[off[i - 1] + n] = ss[i][n]
    /\ \A k \in 1 .. off[m] :
        \E i \in 1 .. m : \E n \in 1 .. Len(ss[i]) : k = off[i - 1] + n

LEMMA FlatGrows ==
    ASSUME NEW ss, IsSeq(ss), \A i \in 1 .. Len(ss) : IsSeq(ss[i]), NEW off, Offsets(ss, off),
           NEW m \in Nat, m + 1 <= Len(ss), NEW flat, IsSeq(flat), Flat(ss, off, m, flat)
    PROVE  Flat(ss, off, m + 1, flat \o ss[m + 1])
<1> DEFINE t == ss[m + 1]
           u == flat \o t
<1>0. Len(ss) \in Nat /\ Len(flat) = off[m]
    BY PlacesIn DEF Flat
<1>1. m + 1 \in 1 .. Len(ss) /\ (m + 1) - 1 = m /\ m \in 0 .. Len(ss) /\ m + 1 \in 0 .. Len(ss)
    BY <1>0
<1>2. off[m] \in Nat /\ off[m + 1] \in Nat
    BY <1>1 DEF Offsets
<1>3. IsSeq(t) /\ Len(t) \in Nat /\ off[m + 1] = off[m] + Len(t)
    BY <1>1, PlacesIn DEF Offsets
<1> HIDE DEF t
<1>4. /\ Len(u) = off[m + 1]
      /\ \A k \in 1 .. off[m] : u[k] = flat[k]
      /\ \A n \in 1 .. Len(t) : u[off[m] + n] = t[n]
    <2>1. /\ Len(u) = Len(flat) + Len(t)
          /\ \A k \in 1 .. Len(flat) : u[k] = flat[k]
          /\ \A n \in 1 .. Len(t) : u[Len(flat) + n] = t[n]
        BY <1>3, Concat, ZenonT(30)
    <2> HIDE DEF u
    <2> QED BY <1>0, <1>3, <2>1
<1> HIDE DEF u
<1>5. ASSUME NEW i \in 1 .. m + 1, NEW n \in 1 .. Len(ss[i])
      PROVE  off[i - 1] + n \in 1 .. off[m + 1] /\ u[off[i - 1] + n] = ss[i][n]
    <2>1. CASE i = m + 1
        <3>1. n \in 1 .. Len(t) /\ i - 1 = m /\ ss[i] = t
            BY <2>1 DEF t
        <3>2. off[m] + n \in 1 .. off[m + 1]
            BY <1>2, <1>3, <3>1
        <3> QED BY <1>4, <3>1, <3>2
    <2>2. CASE i \in 1 .. m
        <3>1. off[i - 1] + n \in 1 .. off[m] /\ flat[off[i - 1] + n] = ss[i][n]
            BY <2>2 DEF Flat
        <3>2. off[i - 1] + n \in 1 .. off[m + 1]
            BY <1>2, <1>3, <3>1
        <3> QED BY <1>4, <3>1, <3>2
    <2> QED BY <2>1, <2>2
<1>6. ASSUME NEW k \in 1 .. off[m + 1]
      PROVE  \E i \in 1 .. m + 1 : \E n \in 1 .. Len(ss[i]) : k = off[i - 1] + n
    <2>1. CASE k \in 1 .. off[m]
        <3>1. PICK i \in 1 .. m : \E n \in 1 .. Len(ss[i]) : k = off[i - 1] + n
            BY <2>1 DEF Flat
        <3>2. i \in 1 .. m + 1
            OBVIOUS
        <3> QED BY <3>1, <3>2
    <2>2. CASE k \notin 1 .. off[m]
        <3>1. k - off[m] \in 1 .. Len(t) /\ k = off[m] + (k - off[m])
            BY <1>2, <1>3, <2>2
        <3>2. m + 1 \in 1 .. m + 1 /\ k - off[m] \in 1 .. Len(ss[m + 1])
            BY <3>1 DEF t
        <3> QED BY <1>1, <3>1, <3>2
    <2> QED BY <2>1, <2>2
<1> QED BY <1>4, <1>5, <1>6 DEF Flat, u, t

LEMMA Flattened ==
    ASSUME NEW ss, IsSeq(ss), \A i \in 1 .. Len(ss) : IsSeq(ss[i])
    PROVE  /\ IsSeq(FlattenSeq(ss))
           /\ \E off : Offsets(ss, off) /\ Flat(ss, off, Len(ss), FlattenSeq(ss))
<1> DEFINE N == Len(ss)
           f == CHOOSE g : Flattens(ss, Len(ss), g)
           h == [i \in 0 .. N |-> IF i = 0 THEN <<>> ELSE f[i]]
           off == [i \in 0 .. N |-> Len(h[i])]
<1>0. N \in Nat
    BY PlacesIn
<1>1. Flattens(ss, Len(ss), f)
    BY <1>0, FlatteningExists
<1>2. FlattenSeq(ss) = h[N]
    <2>1. CASE N = 0
        <3>1. ss = <<>>
            BY <2>1, PlacesIn
        <3>2. h[N] = <<>>
            BY <1>0, <2>1
        <3>3. FlattenSeq(ss) = ss
            BY <2>1 DEF FlattenSeq
        <3> QED BY <3>1, <3>2, <3>3
    <2>2. CASE N # 0
        <3>1. h[N] = f[N]
            BY <1>0, <2>2
        <3> HIDE DEF h
        <3> QED BY <2>2, <3>1, FlatteningIsSolved
    <2> QED BY <2>1, <2>2
<1> HIDE DEF f
<1>3. \A i \in 1 .. N : f[i] = IF i = 1 THEN ss[i] ELSE f[i - 1] \o ss[i]
    BY <1>1, Zenon DEF Flattens
<1>4. h[0] = <<>>
    BY <1>0
<1>5. ASSUME NEW i \in 1 .. N PROVE h[i] = h[i - 1] \o ss[i]
    <2>1. h[i] = f[i]
        OBVIOUS
    <2>2. CASE i = 1
        <3>1. h[i - 1] = <<>>
            BY <1>4, <2>2
        <3> HIDE DEF h
        <3>2. h[i] = ss[i]
            BY <1>3, <2>1, <2>2
        <3>3. <<>> \o ss[i] = ss[i]
            BY Concat, EmptyIsSeq
        <3> QED BY <3>1, <3>2, <3>3
    <2>3. CASE i # 1
        <3>1. h[i - 1] = f[i - 1]
            BY <2>3
        <3> HIDE DEF h
        <3> QED BY <1>3, <2>1, <2>3, <3>1
    <2> QED BY <2>2, <2>3
<1> HIDE DEF h
<1> DEFINE I == {m \in Nat : m <= N => IsSeq(h[m])}
<1>6. 0 \in I
    BY <1>4, EmptyIsSeq
<1>7. ASSUME NEW m \in Nat, m \in I PROVE m + 1 \in I
    <2> SUFFICES ASSUME m + 1 <= N PROVE IsSeq(h[m + 1])
        OBVIOUS
    <2>1. m + 1 \in 1 .. N /\ (m + 1) - 1 = m /\ m <= N
        BY <1>0
    <2>2. IsSeq(h[m]) /\ IsSeq(ss[m + 1])
        BY <1>7, <2>1
    <2>3. h[m + 1] = h[m] \o ss[m + 1]
        BY <1>5, <2>1
    <2> QED BY <2>2, <2>3, Concat
<1> HIDE DEF I
<1>8. \A m \in 0 .. N : m \in I
    BY <1>6, <1>7, NumberInduction
<1>9. \A m \in 0 .. N : IsSeq(h[m])
    BY <1>0, <1>8 DEF I
<1>10. \A m \in 0 .. N : Len(h[m]) \in Nat /\ off[m] = Len(h[m])
    BY <1>9, PlacesIn
<1>11. Offsets(ss, off)
    <2>1. off \in [0 .. N -> Nat]
        BY <1>10
    <2>2. off[0] = 0
        <3>1. Len(<<>>) = 0
            OBVIOUS
        <3> QED BY <1>0, <1>4, <1>10, <3>1
    <2>3. ASSUME NEW i \in 1 .. N PROVE off[i] = off[i - 1] + Len(ss[i])
        <3>1. i \in 0 .. N /\ i - 1 \in 0 .. N
            BY <1>0
        <3>2. Len(h[i]) = Len(h[i - 1]) + Len(ss[i])
            <4>1. IsSeq(h[i - 1]) /\ IsSeq(ss[i]) /\ h[i] = h[i - 1] \o ss[i]
                BY <1>5, <1>9, <3>1
            <4>2. Len(h[i - 1] \o ss[i]) = Len(h[i - 1]) + Len(ss[i])
                BY <4>1, Concat, ZenonT(30)
            <4> QED BY <4>1, <4>2
        <3> QED BY <1>10, <3>1, <3>2
    <2> HIDE DEF off
    <2> QED BY <2>1, <2>2, <2>3 DEF Offsets
<1> HIDE DEF off
<1> DEFINE J == {m \in Nat : m <= N => Flat(ss, off, m, h[m])}
<1>12. 0 \in J
    <2>1. Len(h[0]) = 0 /\ off[0] = 0
        BY <1>0, <1>4, <1>10, <1>11 DEF Offsets
    <2>2. 1 .. 0 = {}
        OBVIOUS
    <2>3. Flat(ss, off, 0, h[0])
        BY <2>1, <2>2 DEF Flat
    <2> QED BY <2>3
<1>13. ASSUME NEW m \in Nat, m \in J PROVE m + 1 \in J
    <2> SUFFICES ASSUME m + 1 <= N PROVE Flat(ss, off, m + 1, h[m + 1])
        OBVIOUS
    <2>1. m + 1 \in 1 .. N /\ (m + 1) - 1 = m /\ m <= N /\ m \in 0 .. N
        BY <1>0
    <2>2. Flat(ss, off, m, h[m]) /\ IsSeq(h[m])
        BY <1>9, <1>13, <2>1
    <2>3. Flat(ss, off, m + 1, h[m] \o ss[m + 1])
        BY <1>11, <2>2, FlatGrows
    <2> QED BY <1>5, <2>1, <2>3
<1> HIDE DEF J
<1>14. N \in J
    BY <1>0, <1>12, <1>13, NumberInduction
<1>15. Flat(ss, off, N, h[N]) /\ IsSeq(h[N])
    BY <1>0, <1>9, <1>14 DEF J
<1> QED BY <1>2, <1>11, <1>15

-----------------------------------------------------------------------------
\* The members of a finite set of natural numbers, each once.
LEMMA MembersInOrder ==
    ASSUME NEW S, IsFiniteSet(S), S \subseteq Nat
    PROVE  IsSeq(InOrder(S)) /\ Distinct(InOrder(S)) /\ Members(InOrder(S)) = S
<1> DEFINE top == Sets!Max(S \cup {0})
           s == [n \in 1 .. top + 1 |-> n - 1]
           places == {i + 1 : i \in S}
<1>1. top \in S \cup {0} /\ \A i \in S \cup {0} : i <= top
    <2>1. IsFiniteSet(S \cup {0}) /\ S \cup {0} \subseteq Int
        BY FS_AddElement
    <2> QED BY <2>1, GreatestMember
<1>2. InOrder(S) = Select(s, places)
    BY DEF InOrder
<1> HIDE DEF top
<1>3. top \in Nat
    BY <1>1
<1>4. s \in Seq(Nat) /\ Len(s) = top + 1 /\ DOMAIN s = 1 .. top + 1
    BY <1>3
<1>5. \A n \in 1 .. top + 1 : s[n] = n - 1
    OBVIOUS
<1> HIDE DEF s
<1>6. Distinct(s)
    BY <1>3, <1>4, <1>5 DEF Distinct
<1>7. /\ IsSeq(Select(s, places)) /\ Distinct(Select(s, places))
      /\ Members(Select(s, places)) = {s[i] : i \in places \cap DOMAIN s}
    BY <1>4, <1>6, AnySeq, SelectedFrom, SelectionIsDistinct
<1>8. \A i \in S : i + 1 \in places \cap DOMAIN s /\ s[i + 1] = i
    BY <1>1, <1>3, <1>4, <1>5
<1>9. \A n \in places \cap DOMAIN s : s[n] \in S
    BY <1>4, <1>5
<1>10. {s[i] : i \in places \cap DOMAIN s} = S
    <2> HIDE DEF places
    <2> QED BY <1>8, <1>9
<1> QED BY <1>2, <1>7, <1>10

\* A finite set put in some order.
LEMMA InSomeOrder ==
    ASSUME NEW S, IsFiniteSet(S)
    PROVE  IsSeq(SetToSeq(S)) /\ Members(SetToSeq(S)) = S
<1> DEFINE n == Cardinality(S)
           f == SetToSeq(S)
<1>1. n \in Nat /\ ExistsBijection(1 .. n, S)
    BY FS_CardinalityType
<1>2. PICK g : g \in Bijection(1 .. n, S)
    BY <1>1 DEF ExistsBijection
<1>3. g \in [1 .. n -> S] /\ IsInjective(g)
    BY <1>2 DEF Bijection, Injection
<1>4. f \in [1 .. n -> S] /\ IsInjective(f)
    BY <1>3, Zenon DEF SetToSeq
<1> HIDE DEF f
<1>5. f \in Injection(1 .. n, S)
    BY <1>4 DEF Injection
<1>6. Cardinality(1 .. n) = n
    BY <1>1, FS_Interval
<1>7. f \in Surjection(1 .. n, S)
    BY <1>5, <1>6, FS_Injection
<1>8. \A x \in S : \E i \in 1 .. n : f[i] = x
    BY <1>7 DEF Surjection
<1>9. f \in Seq(S) /\ DOMAIN f = 1 .. n
    BY <1>1, <1>4
<1>10. Members(f) = S
    BY <1>4, <1>8, <1>9 DEF Members
<1>11. IsSeq(f)
    BY <1>9, AnySeq
<1> QED BY <1>10, <1>11 DEF f

\* As many values as arguments, at most.
LEMMA ImageIsFinite ==
    ASSUME NEW S, IsFiniteSet(S), NEW f
    PROVE  IsFiniteSet({f[x] : x \in S})
<1> DEFINE T == {f[x] : x \in S}
           g == [x \in S |-> f[x]]
<1>1. g \in [S -> T] /\ \A t \in T : \E x \in S : g[x] = t
    OBVIOUS
<1>2. g \in Surjection(S, T)
    BY <1>1, Zenon DEF Surjection
<1> QED BY <1>2, FS_Surjection

\* One element for each of another sequence.
LEMMA Mapped ==
    ASSUME NEW s, IsSeq(s), NEW t, t = [i \in DOMAIN s |-> t[i]]
    PROVE  IsSeq(t) /\ Len(t) = Len(s) /\ Members(t) = {t[i] : i \in DOMAIN s}
<1>1. Len(s) \in Nat /\ DOMAIN s = 1 .. Len(s)
    BY PlacesIn
<1>2. t = [i \in 1 .. Len(s) |-> t[i]]
    BY <1>1
<1>3. IsSeq(t) /\ Len(t) = Len(s)
    BY <1>1, <1>2, SeqByPlaces
<1> QED BY <1>1, <1>3, PlacesIn

-----------------------------------------------------------------------------
(* Pools.                                                                  *)

\* A remainder is an index of the pool.
LEMMA RemainderIsIndex ==
    ASSUME NEW N \in Nat \ {0}, NEW c \in Nat
    PROVE  c % N \in 0 .. N - 1
BY SMT

\* A scan that meets a usable key ends with one.
LEMMA HandsOutUsable ==
    ASSUME NEW n \in Nat, NEW p \in PoolsOf(n), Hits(p) # {}
    PROVE  NextKey(p) \in 0 .. n - 1 /\ Usable(p.keys[NextKey(p)])
<1>1. p.size = n /\ p.cursor \in Nat
    BY DEF PoolsOf
<1>2. NextKey(p) = Scanned(p, Sets!Min(Hits(p)))
    BY DEF NextKey
<1>3. Hits(p) \subseteq 0 .. n - 1
    BY <1>1 DEF Hits
<1>4. Sets!Min(Hits(p)) \in Hits(p)
    <2>1. Hits(p) \subseteq Nat
        BY <1>3
    <2> QED BY <2>1, LeastMember, Zenon
<1>5. Sets!Min(Hits(p)) \in 0 .. n - 1 /\ Usable(p.keys[NextKey(p)])
    BY <1>2, <1>3, <1>4 DEF Hits
<1>6. p.cursor + Sets!Min(Hits(p)) \in Nat /\ n \in Nat \ {0}
    BY <1>1, <1>5
<1>7. (p.cursor + Sets!Min(Hits(p))) % n \in 0 .. n - 1
    BY <1>6, RemainderIsIndex, Zenon
<1> QED BY <1>1, <1>2, <1>5, <1>7 DEF Scanned

\* What is done to a pool leaves one with the same keys.
LEMMA PoolStays ==
    ASSUME NEW n \in Nat, NEW p \in PoolsOf(n)
    PROVE  /\ Advance(p) \in PoolsOf(n) /\ Elapse(p) \in PoolsOf(n)
           /\ \A i : DisableKey(p, i) \in PoolsOf(n)
           /\ \A i : \A d \in Nat : CoolDown(p, i, d) \in PoolsOf(n)
<1> USE DEF PoolsOf, KeyState
<1>1. Advance(p) \in PoolsOf(n)
    <2>1. CASE n = 0
        BY <2>1 DEF Advance
    <2>2. CASE n # 0
        <3>1. p.cursor + 1 \in Nat
            OBVIOUS
        <3>2. (p.cursor + 1) % n \in 0 .. n - 1
            BY <2>2, <3>1, RemainderIsIndex, Zenon
        <3> QED BY <2>2, <3>2 DEF Advance
    <2> QED BY <2>1, <2>2
<1>2. Elapse(p) \in PoolsOf(n)
    <2> DEFINE rested(i) == [p.keys[i] EXCEPT !.wait = IF @ = 0 THEN 0 ELSE @ - 1]
    <2>1. \A i \in 0 .. n - 1 : rested(i) \in [disabled : BOOLEAN, wait : Nat]
        OBVIOUS
    <2>2. Elapse(p) = [p EXCEPT !.keys = [i \in 0 .. n - 1 |-> rested(i)]]
        BY DEF Elapse
    <2> HIDE DEF rested
    <2> QED BY <2>1, <2>2
<1>3. \A i : DisableKey(p, i) \in PoolsOf(n)
    BY DEF DisableKey
<1>4. \A i : \A d \in Nat : CoolDown(p, i, d) \in PoolsOf(n)
    BY DEF CoolDown
<1> QED BY <1>1, <1>2, <1>3, <1>4

LEMMA NewPoolTyped == ASSUME NEW n \in Nat PROVE NewPool(n) \in PoolsOf(n)
BY DEF NewPool, PoolsOf, KeyState

-----------------------------------------------------------------------------
(* What Candidates answers.                                                *)

\* The routes of a configuration, as Config.Validate has them, and the health
\* of its models.
Routes(cfg) == \A n \in DOMAIN cfg.routes : cfg.routes[n] \in Seq(DOMAIN cfg.models) \ {<<>>}
HealthOf(cfg) == [DOMAIN cfg.models -> HealthState]

\* No route names a model twice.  (Config.Validate accepts one that does.)
NamesOnce(cfg) == \A n \in DOMAIN cfg.routes : Distinct(cfg.routes[n])

\* What is done to the health of the models leaves one of the same models.
LEMMA HealthStays ==
    ASSUME NEW cfg, cfg.cooldown \in Nat, NEW h \in HealthOf(cfg)
    PROVE  /\ ElapseHealth(h) \in HealthOf(cfg)
           /\ \A a : Success(h, a) \in HealthOf(cfg)
           /\ \A a : \A ra \in Nat : Failure(cfg, h, a, ra) \in HealthOf(cfg)
<1> USE DEF HealthOf, HealthState
<1>1. ElapseHealth(h) \in HealthOf(cfg)
    <2> DEFINE rested(a) == [h[a] EXCEPT !.wait = IF @ = 0 THEN 0 ELSE @ - 1]
    <2>1. \A a \in DOMAIN cfg.models : rested(a) \in [failures : Nat, wait : Nat]
        OBVIOUS
    <2>2. ElapseHealth(h) = [a \in DOMAIN cfg.models |-> rested(a)]
        BY DEF ElapseHealth
    <2> HIDE DEF rested
    <2> QED BY <2>1, <2>2
<1>2. \A a : Success(h, a) \in HealthOf(cfg)
    BY DEF Success, Healthy
<1>3. ASSUME NEW a, NEW ra \in Nat PROVE Failure(cfg, h, a, ra) \in HealthOf(cfg)
    <2>1. ASSUME a \in DOMAIN cfg.models
          PROVE  RecordFailure(cfg, h[a], ra) \in [failures : Nat, wait : Nat]
        <3>1. h[a] \in [failures : Nat, wait : Nat]
            BY <2>1
        <3>2. CASE h[a].failures + 1 >= cfg.threshold \/ ra > 0
            BY <3>2 DEF RecordFailure
        <3>3. CASE ~(h[a].failures + 1 >= cfg.threshold \/ ra > 0)
            BY <3>1, <3>3 DEF RecordFailure
        <3> QED BY <3>2, <3>3
    <2>2. Failure(cfg, h, a, ra) = [h EXCEPT ![a] = RecordFailure(cfg, h[a], ra)]
        BY DEF Failure
    <2> QED BY <2>1, <2>2
<1> QED BY <1>1, <1>2, <1>3

LEMMA NewHealthTyped == ASSUME NEW cfg PROVE NewHealth(cfg) \in HealthOf(cfg)
BY DEF NewHealth, HealthOf, HealthState, Healthy

LEMMA KnownAliases ==
    ASSUME NEW cfg, Routes(cfg), NEW n, Known(cfg, n)
    PROVE  /\ Aliases(cfg, n) \in Seq(DOMAIN cfg.models) \ {<<>>}
           /\ NamesOnce(cfg) => Distinct(Aliases(cfg, n))
<1>1. ASSUME NEW m \in DOMAIN cfg.routes
      PROVE  /\ cfg.routes[m] \in Seq(DOMAIN cfg.models) \ {<<>>}
             /\ NamesOnce(cfg) => Distinct(cfg.routes[m])
    BY DEF Routes, NamesOnce
<1>2. CASE n \in DOMAIN cfg.routes
    BY <1>1, <1>2 DEF Aliases
<1>3. CASE n \notin DOMAIN cfg.routes /\ n \in DOMAIN cfg.models
    <2>1. Aliases(cfg, n) = <<n>>
        BY <1>3 DEF Aliases
    <2>2. ASSUME NEW M, n \in M PROVE <<n>> \in Seq(M) /\ <<n>> # <<>> /\ Len(<<n>>) = 1
        BY <2>2
    <2>3. \A i \in 1 .. 1 : i = 1
        OBVIOUS
    <2> QED BY <1>3, <2>1, <2>2, <2>3 DEF Distinct
<1>4. CASE n \notin DOMAIN cfg.routes /\ n \notin DOMAIN cfg.models
    <2>1. "default" \in DOMAIN cfg.routes /\ Aliases(cfg, n) = cfg.routes["default"]
        BY <1>4 DEF Known, Aliases
    <2> QED BY <1>1, <2>1
<1> QED BY <1>2, <1>3, <1>4

\* The places of a sequence of aliases whose circuit is not open.
ClosedAt(h, as) == {i \in DOMAIN as : ~IsOpen(h[as[i]])}

\* The model whose circuit closes first is one of them, and the wait of each
\* is at least its wait.
LEMMA RecoversFirst ==
    ASSUME NEW M, NEW h \in [M -> HealthState], NEW as \in Seq(M), as # <<>>
    PROVE  \E i \in 1 .. Len(as) :
                /\ FirstToRecover(h, as) = as[i]
                /\ \A j \in 1 .. Len(as) : h[as[i]].wait <= h[as[j]].wait
<1> DEFINE P == 1 .. Len(as)
           waits == [i \in P |-> h[as[i]].wait]
           first == {i \in P : \A j \in P : h[as[i]].wait <= h[as[j]].wait}
<1>1. P # {} /\ P \subseteq Nat /\ P = DOMAIN as /\ \A i \in P : as[i] \in M
    <2>1. \A i \in DOMAIN as : as[i] \in M
        BY ElementType
    <2>2. Len(as) \in Nat /\ DOMAIN as = 1 .. Len(as) /\ (as = <<>> <=> DOMAIN as = {})
        BY PlacesOf
    <2>3. P = DOMAIN as
        BY <2>2
    <2> HIDE DEF P
    <2> QED BY <2>1, <2>2, <2>3, PlacesOf
<1> HIDE DEF P
<1>2. \A i \in P : waits[i] \in Nat
    BY <1>1 DEF HealthState
<1>3. \E i \in P : \A j \in P : waits[i] <= waits[j]
    <2> HIDE DEF waits
    <2> QED BY <1>1, <1>2, LeastValue
<1>4. first # {} /\ first \subseteq Nat
    BY <1>1, <1>3
<1>5. FirstToRecover(h, as) = as[Sets!Min(first)]
    BY <1>1, Zenon DEF FirstToRecover
<1>6. Sets!Min(first) \in first
    <2> HIDE DEF first
    <2> QED BY <1>4, LeastMember
<1> QED BY <1>5, <1>6 DEF P

\* Candidates are the aliases whose circuit is not open: the half-open branch
\* never adds one, for it is reached when all are open and then leaves out the
\* one it picks for being open.
LEMMA CandidatesAreClosed ==
    ASSUME NEW cfg, Routes(cfg), NEW h \in HealthOf(cfg), NEW n, Known(cfg, n)
    PROVE  Candidates(cfg, h, n) = Select(Aliases(cfg, n), ClosedAt(h, Aliases(cfg, n)))
<1> DEFINE as == Aliases(cfg, n)
           M == DOMAIN cfg.models
           closed == Select(as, ClosedAt(h, as))
<1>1. as \in Seq(M) /\ as # <<>>
    BY KnownAliases
<1>2. Candidates(cfg, h, n) =
        IF closed = <<>> /\ as # <<>>
        THEN IF IsOpen(h[FirstToRecover(h, as)]) THEN <<>>
             ELSE <<FirstToRecover(h, as)>>
        ELSE closed
    BY DEF Candidates, ClosedAt
<1>0. h \in [M -> HealthState]
    BY DEF HealthOf
<1> HIDE DEF as, M
<1>3. closed \in Seq(M) /\ Members(closed) = {as[i] : i \in ClosedAt(h, as) \cap DOMAIN as}
    BY <1>1, Selects, SelectedMembers
<1> HIDE DEF closed
<1>4. ASSUME closed = <<>> PROVE IsOpen(h[FirstToRecover(h, as)])
    <2>1. PICK i \in 1 .. Len(as) : FirstToRecover(h, as) = as[i]
        BY <1>0, <1>1, RecoversFirst, ZenonT(30)
    <2>2. i \in DOMAIN as
        BY <1>1, PlacesOf
    <2>3. DOMAIN closed = {}
        BY <1>3, <1>4, PlacesOf
    <2>4. i \notin ClosedAt(h, as)
        BY <1>3, <2>2, <2>3 DEF Members
    <2> QED BY <2>1, <2>2, <2>4 DEF ClosedAt
<1> QED BY <1>2, <1>4 DEF as, closed

\* Candidates are models whose circuit is not open, each once if the route
\* names none twice.
LEMMA CandidatesTyped ==
    ASSUME NEW cfg, Routes(cfg), NEW h \in HealthOf(cfg), NEW n, Known(cfg, n)
    PROVE  /\ Candidates(cfg, h, n) \in Seq(DOMAIN cfg.models)
           /\ NamesOnce(cfg) => Distinct(Candidates(cfg, h, n))
           /\ \A a \in Members(Candidates(cfg, h, n)) : ~IsOpen(h[a])
<1> DEFINE as == Aliases(cfg, n)
           M == DOMAIN cfg.models
           r == Select(as, ClosedAt(h, as))
<1>1. as \in Seq(M) /\ (NamesOnce(cfg) => Distinct(as))
    BY KnownAliases
<1>2. Candidates(cfg, h, n) = r
    BY CandidatesAreClosed
<1> HIDE DEF as, M
<1>3. r \in Seq(M) /\ Members(r) = {as[i] : i \in ClosedAt(h, as) \cap DOMAIN as}
    BY <1>1, Selects, SelectedMembers
<1>4. NamesOnce(cfg) => Distinct(r)
    BY <1>1, SelectionIsDistinct
<1> HIDE DEF r
<1>5. \A a \in Members(r) : ~IsOpen(h[a])
    BY <1>3 DEF ClosedAt
<1> QED BY <1>2, <1>3, <1>4, <1>5 DEF M
=============================================================================
