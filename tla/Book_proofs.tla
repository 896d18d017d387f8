---------------------------- MODULE Book_proofs -----------------------------
(* What the operators of Book do to a book: lemmas shared by the proofs    *)
(* about OrderBook and about MatchingEngine.                               *)
EXTENDS Book, Functions, FiniteSetTheorems, WellFoundedInduction, TLAPS

-----------------------------------------------------------------------------
(* Sums over finite sets.  A fact that needs an induction is shown by      *)
(* looking at a smallest set for which it fails.                           *)

(* The element the fold of a set takes first.                              *)
Pick(s) == CHOOSE x \in s : TRUE

(* f holds the sum of g over every set of D.                               *)
FoldsOn(g, D, f) ==
    f = [s \in D |-> IF s = {} THEN 0 ELSE g[Pick(s)] + f[s \ {Pick(s)}]]

Folded(g, S) == CHOOSE f : FoldsOn(g, SUBSET S, f)

(* The library's sum over S is the value of this function at S.            *)
LEMMA SumIsFold ==
    ASSUME NEW g, NEW S
    PROVE  SumFunctionOnSet(g, S) = Folded(g, S)[S]
  BY DEF SumFunctionOnSet, FoldFunctionOnSet, MapThenFoldSet, Folded, FoldsOn, Pick

(* A set of natural numbers that is not empty has a least element.         *)
LEMMA LeastNat ==
    ASSUME NEW T \in SUBSET Nat, T # {}
    PROVE  \E n \in T : \A m \in T : n <= m
  <1>1. IsWellFoundedOn(OpToRel(<, Nat), Nat)
    BY NatLessThanWellFounded, Zenon
  <1>2. PICK n \in T : \A m \in T : ~ (<< m, n >> \in OpToRel(<, Nat))
    BY <1>1, WFMin
  <1>3. \A m \in T : ~ (m < n)
    BY <1>2 DEF OpToRel
  <1> QED BY <1>3

(* The sets of a finite set with at most n elements.                       *)
UpTo(S, n) == {s \in SUBSET S : Cardinality(s) <= n}

(* Without the element taken first, a set is smaller by one.               *)
LEMMA PickShrinks ==
    ASSUME NEW S, IsFiniteSet(S), NEW s \in SUBSET S, s # {}
    PROVE  /\ IsFiniteSet(s)
           /\ Pick(s) \in s
           /\ Cardinality(s) \in Nat
           /\ Cardinality(s) > 0
           /\ s \ {Pick(s)} \in SUBSET S
           /\ IsFiniteSet(s \ {Pick(s)})
           /\ Cardinality(s \ {Pick(s)}) = Cardinality(s) - 1
  <1>1. IsFiniteSet(s)
    BY FS_Subset
  <1>2. Pick(s) \in s
    BY DEF Pick
  <1>3. Cardinality(s) \in Nat /\ Cardinality(s) # 0
    BY <1>1, FS_CardinalityType, FS_EmptySet
  <1>4. /\ IsFiniteSet(s \ {Pick(s)})
        /\ Cardinality(s \ {Pick(s)}) = Cardinality(s) - 1
    BY <1>1, <1>2, FS_RemoveElement
  <1> QED BY <1>1, <1>2, <1>3, <1>4

(* The fold of a finite set exists.                                        *)
LEMMA FoldExists ==
    ASSUME NEW g, NEW S, IsFiniteSet(S)
    PROVE  FoldsOn(g, SUBSET S, Folded(g, S))
  <1> DEFINE Missing == {n \in Nat : ~ \E f : FoldsOn(g, UpTo(S, n), f)}
  <1>1. Missing = {}
    <2> SUFFICES ASSUME Missing # {} PROVE FALSE
      OBVIOUS
    <2>1. PICK n \in Missing : \A m \in Missing : n <= m
      BY LeastNat
    <2>2. n # 0
      <3> SUFFICES ASSUME n = 0 PROVE FALSE
        OBVIOUS
      <3> DEFINE f == [s \in UpTo(S, 0) |-> 0]
      <3>1. ASSUME NEW s \in UpTo(S, 0) PROVE s = {}
        <4>1. s \in SUBSET S /\ Cardinality(s) <= 0
          BY DEF UpTo
        <4>2. s # {} => Cardinality(s) \in Nat /\ Cardinality(s) > 0
          BY <4>1, PickShrinks
        <4> QED BY <4>1, <4>2
      <3>2. f = [s \in UpTo(S, 0) |-> IF s = {} THEN 0 ELSE g[Pick(s)] + f[s \ {Pick(s)}]]
        BY <3>1
      <3> HIDE DEF f
      <3>3. FoldsOn(g, UpTo(S, 0), f)
        BY <3>2 DEF FoldsOn
      <3> QED BY <3>3, <2>1
    <2>3. n - 1 \in Nat /\ n - 1 \notin Missing
      BY <2>1, <2>2
    <2>4. PICK f : FoldsOn(g, UpTo(S, n - 1), f)
      BY <2>3
    <2> DEFINE D == UpTo(S, n)
               h == [s \in D |-> IF s = {} THEN 0 ELSE g[Pick(s)] + f[s \ {Pick(s)}]]
    <2>5. \A s \in D : s # {} => s \ {Pick(s)} \in UpTo(S, n - 1)
      <3> SUFFICES ASSUME NEW s \in D, s # {} PROVE s \ {Pick(s)} \in UpTo(S, n - 1)
        OBVIOUS
      <3>1. s \in SUBSET S /\ Cardinality(s) <= n
        BY DEF UpTo
      <3>2. /\ s \ {Pick(s)} \in SUBSET S
            /\ Cardinality(s) \in Nat
            /\ Cardinality(s \ {Pick(s)}) = Cardinality(s) - 1
        BY <3>1, PickShrinks
      <3> QED BY <3>1, <3>2, <2>1 DEF UpTo
    <2>6. \A s \in UpTo(S, n - 1) : s \in D /\ h[s] = f[s]
      <3> TAKE s \in UpTo(S, n - 1)
      <3>1. Cardinality(s) <= n - 1 /\ IsFiniteSet(s) /\ Cardinality(s) \in Nat /\ s \in SUBSET S
        BY FS_Subset, FS_CardinalityType DEF UpTo
      <3>2. s \in D
        BY <3>1, <2>1 DEF UpTo
      <3>3. f[s] = IF s = {} THEN 0 ELSE g[Pick(s)] + f[s \ {Pick(s)}]
        BY <2>4 DEF FoldsOn
      <3> QED BY <3>2, <3>3
    <2>7. h = [s \in D |-> IF s = {} THEN 0 ELSE g[Pick(s)] + h[s \ {Pick(s)}]]
      <3>1. \A s \in D : s # {} => h[s \ {Pick(s)}] = f[s \ {Pick(s)}]
        BY <2>5, <2>6
      <3>2. \A s \in D : h[s] = IF s = {} THEN 0 ELSE g[Pick(s)] + h[s \ {Pick(s)}]
        BY <3>1
      <3>3. h = [s \in D |-> h[s]]
        OBVIOUS
      <3> HIDE DEF h
      <3> QED BY <3>2, <3>3
    <2> HIDE DEF h
    <2>8. FoldsOn(g, UpTo(S, n), h)
      BY <2>7 DEF FoldsOn
    <2> QED BY <2>8, <2>1
  <1>2. Cardinality(S) \in Nat
    BY FS_CardinalityType
  <1>3. PICK f : FoldsOn(g, UpTo(S, Cardinality(S)), f)
    BY <1>1, <1>2
  <1>4. UpTo(S, Cardinality(S)) = SUBSET S
    BY FS_Subset DEF UpTo
  <1>5. FoldsOn(g, SUBSET S, f)
    BY <1>3, <1>4
  <1> QED BY <1>5 DEF Folded

(* The folds of two sets agree on the sets of both.                        *)
LEMMA FoldsAgree ==
    ASSUME NEW g, NEW S, IsFiniteSet(S), NEW T \in SUBSET S
    PROVE  Folded(g, S)[T] = Folded(g, T)[T]
  <1> DEFINE f == Folded(g, S)
             h == Folded(g, T)
             Differ == {n \in Nat : \E u \in SUBSET T : Cardinality(u) = n /\ f[u] # h[u]}
  <1>1. IsFiniteSet(T)
    BY FS_Subset
  <1>2. /\ f = [s \in SUBSET S |-> IF s = {} THEN 0 ELSE g[Pick(s)] + f[s \ {Pick(s)}]]
        /\ h = [s \in SUBSET T |-> IF s = {} THEN 0 ELSE g[Pick(s)] + h[s \ {Pick(s)}]]
    <2>1. FoldsOn(g, SUBSET S, f) /\ FoldsOn(g, SUBSET T, h)
      BY <1>1, FoldExists
    <2> HIDE DEF f, h
    <2> QED BY <2>1 DEF FoldsOn
  <1> HIDE DEF f, h
  <1>3. \A u \in SUBSET T : /\ f[u] = IF u = {} THEN 0 ELSE g[Pick(u)] + f[u \ {Pick(u)}]
                            /\ h[u] = IF u = {} THEN 0 ELSE g[Pick(u)] + h[u \ {Pick(u)}]
    <2> TAKE u \in SUBSET T
    <2>1. u \in SUBSET S
      OBVIOUS
    <2> QED BY <1>2, <2>1
  <1>4. Differ = {}
    <2> SUFFICES ASSUME Differ # {} PROVE FALSE
      OBVIOUS
    <2>1. PICK n \in Differ : \A m \in Differ : n <= m
      BY LeastNat
    <2>2. PICK u \in SUBSET T : Cardinality(u) = n /\ f[u] # h[u]
      BY <2>1
    <2>3. u # {}
      BY <2>2, <1>3
    <2>4. /\ u \ {Pick(u)} \in SUBSET T
          /\ Cardinality(u \ {Pick(u)}) = n - 1
          /\ n - 1 \in Nat /\ n - 1 < n
      <3>1. /\ u \ {Pick(u)} \in SUBSET T /\ n \in Nat /\ Cardinality(u) > 0
            /\ Cardinality(u \ {Pick(u)}) = Cardinality(u) - 1
        BY <2>3, <1>1, PickShrinks
      <3> QED BY <3>1, <2>2
    <2>5. f[u \ {Pick(u)}] = h[u \ {Pick(u)}]
      BY <2>1, <2>4
    <2> QED BY <2>2, <2>3, <2>5, <1>3
  <1>5. Cardinality(T) \in Nat /\ T \in SUBSET T
    BY <1>1, FS_CardinalityType
  <1>6. f[T] = h[T]
    BY <1>4, <1>5
  <1> QED BY <1>6 DEF f, h

(* The sum over nothing.                                                   *)
LEMMA SumEmpty ==
    ASSUME NEW g PROVE SumFunctionOnSet(g, {}) = 0
  <1>1. FoldsOn(g, SUBSET {}, Folded(g, {}))
    BY FoldExists, FS_EmptySet
  <1>2. Folded(g, {})[{}] = 0
    BY <1>1 DEF FoldsOn
  <1> QED BY <1>2, SumIsFold

(* The element a sum takes first.                                          *)
LEMMA SumPick ==
    ASSUME NEW g, NEW S, IsFiniteSet(S), S # {}
    PROVE  SumFunctionOnSet(g, S) = g[Pick(S)] + SumFunctionOnSet(g, S \ {Pick(S)})
  <1> DEFINE f == Folded(g, S)
             T == S \ {Pick(S)}
  <1>1. FoldsOn(g, SUBSET S, f)
    BY FoldExists
  <1> HIDE DEF f
  <1>2. f[S] = g[Pick(S)] + f[T]
    BY <1>1 DEF FoldsOn
  <1>3. f[T] = Folded(g, T)[T]
    BY FoldsAgree DEF f
  <1> QED BY <1>2, <1>3, SumIsFold DEF f

(* The sum of integers is an integer, and any element may come first.      *)
LEMMA SumInt ==
    ASSUME NEW g, NEW S, IsFiniteSet(S), \A x \in S : g[x] \in Int
    PROVE  /\ SumFunctionOnSet(g, S) \in Int
           /\ \A x \in S : SumFunctionOnSet(g, S) = g[x] + SumFunctionOnSet(g, S \ {x})
  <1> DEFINE Sum(T) == SumFunctionOnSet(g, T)
             Good(T) == /\ Sum(T) \in Int
                        /\ \A x \in T : Sum(T) = g[x] + Sum(T \ {x})
             Bad == {n \in Nat : \E T \in SUBSET S : Cardinality(T) = n /\ ~ Good(T)}
  <1>1. Bad = {}
    <2> SUFFICES ASSUME Bad # {} PROVE FALSE
      OBVIOUS
    <2>1. PICK n \in Bad : \A m \in Bad : n <= m
      BY LeastNat
    <2>2. PICK T \in SUBSET S : Cardinality(T) = n /\ ~ Good(T)
      BY <2>1
    <2>3. T # {}
      BY <2>2, SumEmpty, SMTT(20)
    <2> DEFINE c == Pick(T)
    <2>4. c \in T /\ IsFiniteSet(T) /\ n \in Nat
      BY <2>3, PickShrinks
    <2>5. Sum(T) = g[c] + Sum(T \ {c})
      BY <2>3, <2>4, SumPick
    <2> HIDE DEF c
    <2>6. \A x \in T : Good(T \ {x})
      <3> TAKE x \in T
      <3>1. T \ {x} \in SUBSET S /\ Cardinality(T \ {x}) = n - 1
        BY <2>2, <2>4, FS_RemoveElement
      <3>2. n - 1 \in Nat /\ n - 1 < n
        BY <3>1, <2>4, <2>2, <2>3, FS_RemoveElement, FS_CardinalityType
      <3>3. n - 1 \notin Bad
        BY <3>2, <2>1
      <3> QED BY <3>1, <3>2, <3>3
    <2>7. Sum(T) \in Int
      BY <2>4, <2>5, <2>6
    <2>8. ASSUME NEW x \in T PROVE Sum(T) = g[x] + Sum(T \ {x})
      <3>1. CASE x = c
        BY <3>1, <2>5
      <3>2. CASE x # c
        <4>1. x \in T \ {c} /\ c \in T \ {x} /\ (T \ {c}) \ {x} = (T \ {x}) \ {c}
          BY <3>2, <2>4
        <4>2. Sum(T \ {c}) = g[x] + Sum((T \ {c}) \ {x})
          BY <4>1, <2>4, <2>6
        <4>3. Sum(T \ {x}) = g[c] + Sum((T \ {c}) \ {x})
          BY <4>1, <2>6
        <4>4. Sum(T \ {x}) \in Int /\ g[c] \in Int /\ g[x] \in Int
          BY <2>4, <2>6
        <4>5. Sum((T \ {c}) \ {x}) \in Int
          <5>1. Good((T \ {c}) \ {x})
            <6> DEFINE U == (T \ {c}) \ {x}
            <6>1. U \in SUBSET S /\ IsFiniteSet(T \ {c}) /\ Cardinality(T \ {c}) = n - 1
              BY <2>2, <2>4, FS_RemoveElement
            <6>2. Cardinality(U) = n - 2 /\ IsFiniteSet(U)
              <7>1. /\ Cardinality(U) = Cardinality(T \ {c}) - 1
                    /\ IsFiniteSet(U)
                BY <6>1, <4>1, FS_RemoveElement
              <7> QED BY <7>1, <6>1, <2>4
            <6>3. n - 2 \in Nat /\ n - 2 < n
              BY <6>2, <2>4, FS_CardinalityType
            <6>4. n - 2 \notin Bad
              BY <6>3, <2>1
            <6> QED BY <6>1, <6>2, <6>3, <6>4
          <5> QED BY <5>1
        <4> HIDE DEF Sum
        <4> QED BY <4>2, <4>3, <4>4, <4>5, <2>5
      <3> QED BY <3>1, <3>2
    <2> QED BY <2>2, <2>7, <2>8
  <1>2. Cardinality(S) \in Nat /\ S \in SUBSET S
    BY FS_CardinalityType
  <1>3. Good(S)
    BY <1>1, <1>2
  <1> QED BY <1>3

(* The sum depends only on the values at the elements summed up.           *)
LEMMA SumSame ==
    ASSUME NEW g, NEW h, NEW S, IsFiniteSet(S), \A x \in S : g[x] = h[x]
    PROVE  SumFunctionOnSet(g, S) = SumFunctionOnSet(h, S)
  <1> DEFINE Bad == {n \in Nat : \E T \in SUBSET S : Cardinality(T) = n
                          /\ SumFunctionOnSet(g, T) # SumFunctionOnSet(h, T)}
  <1>1. Bad = {}
    <2> SUFFICES ASSUME Bad # {} PROVE FALSE
      OBVIOUS
    <2>1. PICK n \in Bad : \A m \in Bad : n <= m
      BY LeastNat
    <2>2. PICK T \in SUBSET S : Cardinality(T) = n
                          /\ SumFunctionOnSet(g, T) # SumFunctionOnSet(h, T)
      BY <2>1
    <2>3. T # {}
      BY <2>2, SumEmpty
    <2> DEFINE c == Pick(T)
    <2>4. c \in T /\ IsFiniteSet(T) /\ T \ {c} \in SUBSET S /\ Cardinality(T \ {c}) = n - 1
          /\ n - 1 \in Nat /\ n - 1 < n
      <3>1. /\ c \in T /\ IsFiniteSet(T) /\ n \in Nat /\ Cardinality(T) > 0
            /\ T \ {c} \in SUBSET S /\ Cardinality(T \ {c}) = Cardinality(T) - 1
        BY <2>3, PickShrinks
      <3> QED BY <3>1, <2>2
    <2>5. /\ SumFunctionOnSet(g, T) = g[c] + SumFunctionOnSet(g, T \ {c})
          /\ SumFunctionOnSet(h, T) = h[c] + SumFunctionOnSet(h, T \ {c})
      BY <2>3, <2>4, SumPick
    <2>6. SumFunctionOnSet(g, T \ {c}) = SumFunctionOnSet(h, T \ {c})
      BY <2>1, <2>4
    <2> QED BY <2>2, <2>4, <2>5, <2>6
  <1>2. Cardinality(S) \in Nat /\ S \in SUBSET S
    BY FS_CardinalityType
  <1> QED BY <1>1, <1>2

-----------------------------------------------------------------------------
(* The list of a level.                                                    *)

Distinct(seq) == \A i, j \in DOMAIN seq : seq[i] = seq[j] => i = j

Holds(seq, x) == \E i \in DOMAIN seq : seq[i] = x

(* Positions of seq that Unlink(seq, id) keeps, before and after.          *)
LEMMA UnlinkShape ==
    ASSUME NEW S, NEW seq \in Seq(S), NEW id, Holds(seq, id)
    PROVE  LET k == PositionOf(seq, id)
               u == Unlink(seq, id)
           IN  /\ k \in 1 .. Len(seq)
               /\ seq[k] = id
               /\ u \in Seq(S)
               /\ Len(u) = Len(seq) - 1
               /\ DOMAIN u = 1 .. (Len(seq) - 1)
               /\ \A i \in 1 .. (Len(seq) - 1) :
                      u[i] = IF i < k THEN seq[i] ELSE seq[i + 1]
  <1> DEFINE k == PositionOf(seq, id)
             u == Unlink(seq, id)
             n == Len(seq)
  <1>0. n \in Nat /\ DOMAIN seq = 1 .. n
    OBVIOUS
  <1>1. \E i \in 1 .. n : seq[i] = id
    BY <1>0 DEF Holds
  <1>2. k \in 1 .. n /\ seq[k] = id
    BY <1>1 DEF PositionOf
  <1>3. u = [i \in 1 .. (n - 1) |-> IF i < k THEN seq[i] ELSE seq[i + 1]]
    BY DEF Unlink
  <1> HIDE DEF k, u
  <1>4. n - 1 \in Nat
    BY <1>0, <1>2
  <1>5. \A i \in 1 .. (n - 1) : u[i] \in S
    BY <1>0, <1>2, <1>3
  <1>6. u \in Seq(S) /\ Len(u) = n - 1 /\ DOMAIN u = 1 .. (n - 1)
    <2>1. u \in [1 .. (n - 1) -> S]
      BY <1>3, <1>5
    <2> QED BY <2>1, <1>4, <1>3
  <1>7. \A i \in 1 .. (n - 1) : u[i] = IF i < k THEN seq[i] ELSE seq[i + 1]
    BY <1>3
  <1> QED BY <1>2, <1>6, <1>7 DEF k, u

(* Unlink removes id and nothing else from a list without repetitions, and *)
(* keeps the list free of repetitions.                                     *)
LEMMA UnlinkSet ==
    ASSUME NEW S, NEW seq \in Seq(S), NEW id, Holds(seq, id), Distinct(seq)
    PROVE  /\ Unlink(seq, id) \in Seq(S)
           /\ Distinct(Unlink(seq, id))
           /\ \A x : Holds(Unlink(seq, id), x) <=> (Holds(seq, x) /\ x # id)
  <1> DEFINE k == PositionOf(seq, id)
             u == Unlink(seq, id)
             n == Len(seq)
  <1>0. n \in Nat /\ DOMAIN seq = 1 .. n
    OBVIOUS
  <1>1. /\ k \in 1 .. n
        /\ seq[k] = id
        /\ u \in Seq(S)
        /\ DOMAIN u = 1 .. (n - 1)
        /\ \A i \in 1 .. (n - 1) : u[i] = IF i < k THEN seq[i] ELSE seq[i + 1]
    BY UnlinkShape
  <1> HIDE DEF k, u
  <1>2. Distinct(u)
    <2> SUFFICES ASSUME NEW i \in 1 .. (n - 1), NEW j \in 1 .. (n - 1), u[i] = u[j]
                 PROVE  i = j
      BY <1>1 DEF Distinct
    <2> DEFINE i1 == IF i < k THEN i ELSE i + 1
               j1 == IF j < k THEN j ELSE j + 1
    <2>1. i1 \in 1 .. n /\ j1 \in 1 .. n
      BY <1>0, <1>1
    <2>2. u[i] = seq[i1] /\ u[j] = seq[j1]
      BY <1>1
    <2>3. i1 = j1
      <3> HIDE DEF i1, j1
      <3> QED BY <2>1, <2>2, <1>0 DEF Distinct
    <2> QED BY <2>3, <1>0, <1>1
  <1>3. ASSUME NEW x, Holds(u, x)
        PROVE  Holds(seq, x) /\ x # id
    <2>1. PICK i \in 1 .. (n - 1) : u[i] = x
      BY <1>1, <1>3 DEF Holds
    <2>2. CASE i < k
      BY <2>1, <2>2, <1>0, <1>1 DEF Holds, Distinct
    <2>3. CASE ~ (i < k)
      <3>1. x = seq[i + 1] /\ i + 1 \in 1 .. n /\ i + 1 # k
        BY <2>1, <2>3, <1>0, <1>1
      <3> QED BY <3>1, <1>0, <1>1 DEF Holds, Distinct
    <2> QED BY <2>2, <2>3
  <1>4. ASSUME NEW x, Holds(seq, x), x # id
        PROVE  Holds(u, x)
    <2>1. PICK i \in 1 .. n : seq[i] = x
      BY <1>0, <1>4 DEF Holds
    <2>2. i # k
      BY <2>1, <1>4, <1>1
    <2>3. CASE i < k
      <3>1. i \in 1 .. (n - 1) /\ u[i] = x
        BY <2>1, <2>3, <1>0, <1>1
      <3> QED BY <3>1, <1>1 DEF Holds
    <2>4. CASE i > k
      <3>1. i - 1 \in 1 .. (n - 1) /\ ~ (i - 1 < k) /\ (i - 1) + 1 = i
        BY <2>4, <1>0, <1>1
      <3>2. u[i - 1] = x
        BY <3>1, <2>1, <1>1
      <3> QED BY <3>1, <3>2, <1>1 DEF Holds
    <2> QED BY <2>2, <2>3, <2>4, <1>0, <1>1
  <1> QED BY <1>1, <1>2, <1>3, <1>4 DEF u

(* x stands before y.                                                      *)
Precedes(seq, x, y) == \E m, n \in DOMAIN seq : m < n /\ seq[m] = x /\ seq[n] = y

(* Level::remove keeps the order of the nodes that stay.                   *)
LEMMA UnlinkOrder ==
    ASSUME NEW S, NEW seq \in Seq(S), NEW id, Holds(seq, id), Distinct(seq),
           NEW x, NEW y
    PROVE  Precedes(Unlink(seq, id), x, y)
               <=> (Precedes(seq, x, y) /\ x # id /\ y # id)
  <1> DEFINE k == PositionOf(seq, id)
             u == Unlink(seq, id)
             n == Len(seq)
  <1>0. n \in Nat /\ DOMAIN seq = 1 .. n
    OBVIOUS
  <1>1. /\ k \in 1 .. n
        /\ seq[k] = id
        /\ u \in Seq(S)
        /\ DOMAIN u = 1 .. (n - 1)
        /\ \A i \in 1 .. (n - 1) : u[i] = IF i < k THEN seq[i] ELSE seq[i + 1]
    BY UnlinkShape
  <1> HIDE DEF k, u
  <1>2. ASSUME Precedes(u, x, y)
        PROVE  Precedes(seq, x, y) /\ x # id /\ y # id
    <2>1. PICK a, b \in 1 .. (n - 1) : a < b /\ u[a] = x /\ u[b] = y
      BY <1>1, <1>2 DEF Precedes
    <2> DEFINE a1 == IF a < k THEN a ELSE a + 1
               b1 == IF b < k THEN b ELSE b + 1
    <2>2. a1 \in 1 .. n /\ b1 \in 1 .. n /\ a1 < b1 /\ a1 # k /\ b1 # k
      BY <2>1, <1>0, <1>1
    <2>3. seq[a1] = x /\ seq[b1] = y
      BY <2>1, <1>1
    <2> HIDE DEF a1, b1
    <2>4. x # id /\ y # id
      BY <2>2, <2>3, <1>0, <1>1 DEF Distinct
    <2> QED BY <2>2, <2>3, <2>4, <1>0 DEF Precedes
  <1>3. ASSUME Precedes(seq, x, y), x # id, y # id
        PROVE  Precedes(u, x, y)
    <2>1. PICK a, b \in 1 .. n : a < b /\ seq[a] = x /\ seq[b] = y
      BY <1>0, <1>3 DEF Precedes
    <2>2. a # k /\ b # k
      BY <2>1, <1>3, <1>1
    <2> DEFINE a1 == IF a < k THEN a ELSE a - 1
               b1 == IF b < k THEN b ELSE b - 1
    <2>3. a1 \in 1 .. (n - 1) /\ b1 \in 1 .. (n - 1) /\ a1 < b1
      BY <2>1, <2>2, <1>0, <1>1
    <2>4. u[a1] = x
      <3>1. CASE a < k
        BY <3>1, <2>1, <2>3, <1>1
      <3>2. CASE ~ (a < k)
        <4>1. a1 = a - 1 /\ ~ (a1 < k) /\ a1 + 1 = a
          BY <3>2, <2>2, <1>0, <1>1
        <4> QED BY <4>1, <2>1, <2>3, <1>1
      <3> QED BY <3>1, <3>2
    <2>5. u[b1] = y
      <3>1. CASE b < k
        BY <3>1, <2>1, <2>3, <1>1
      <3>2. CASE ~ (b < k)
        <4>1. b1 = b - 1 /\ ~ (b1 < k) /\ b1 + 1 = b
          BY <3>2, <2>2, <1>0, <1>1
        <4> QED BY <4>1, <2>1, <2>3, <1>1
      <3> QED BY <3>1, <3>2
    <2> HIDE DEF a1, b1
    <2> QED BY <2>3, <2>4, <2>5, <1>1 DEF Precedes
  <1> QED BY <1>2, <1>3 DEF u

-----------------------------------------------------------------------------
(* The fields of the books that the operators of Book return.              *)

(* c is b with the queue x at (s, p); its totals may differ.               *)
Requeued(c, b, s, p, x) ==
    /\ IsBook(c)
    /\ c.index = b.index
    /\ c.ladder = b.ladder
    /\ c.storage = b.storage
    /\ c.corrupt <=> b.corrupt
    /\ \A s2 \in Side, p2 \in Price :
           c.queue[s2][p2] = IF s2 = s /\ p2 = p THEN x ELSE b.queue[s2][p2]

(* A level is given another queue and another total.                       *)
LEMMA LevelUpdate ==
    ASSUME NEW b, IsBook(b), NEW s \in Side, NEW p \in Price,
           NEW x \in Seq(OrderId), NEW t \in Int
    PROVE  Requeued([b EXCEPT !.queue[s][p] = x, !.total[s][p] = t], b, s, p, x)
  BY DEF IsBook, Queues, Totals, Requeued

(* A level is given another queue only.                                    *)
LEMMA QueueUpdate ==
    ASSUME NEW b, IsBook(b), NEW s \in Side, NEW p \in Price, NEW x \in Seq(OrderId)
    PROVE  Requeued([b EXCEPT !.queue[s][p] = x], b, s, p, x)
  BY DEF IsBook, Queues, Requeued

(* Level::append.                                                          *)
LEMMA LevelAppendShape ==
    ASSUME NEW b, IsBook(b), NEW s \in Side, NEW p \in Price,
           NEW id \in OrderId, NEW q \in Int
    PROVE  Requeued(LevelAppend(b, s, p, id, q), b, s, p, Append(b.queue[s][p], id))
  <1>1. b.queue[s][p] \in Seq(OrderId) /\ b.total[s][p] \in Int
    BY DEF IsBook, Queues, Totals
  <1>2. /\ Append(b.queue[s][p], id) \in Seq(OrderId)
        /\ b.total[s][p] + q \in Int
    BY <1>1
  <1>3. Requeued([b EXCEPT !.queue[s][p] = Append(b.queue[s][p], id),
                           !.total[s][p] = b.total[s][p] + q],
                 b, s, p, Append(b.queue[s][p], id))
    BY <1>2, LevelUpdate
  <1> QED BY <1>3 DEF LevelAppend

(* Level::remove.                                                          *)
LEMMA LevelRemoveShape ==
    ASSUME NEW b, IsBook(b), NEW s \in Side, NEW p \in Price,
           NEW id, NEW q \in Int, Holds(b.queue[s][p], id)
    PROVE  Requeued(LevelRemove(b, s, p, id, q), b, s, p, Unlink(b.queue[s][p], id))
  <1>1. b.queue[s][p] \in Seq(OrderId) /\ b.total[s][p] \in Int
    BY DEF IsBook, Queues, Totals
  <1>2. Unlink(b.queue[s][p], id) \in Seq(OrderId)
    BY <1>1, UnlinkShape
  <1>3. b.total[s][p] - q \in Int
    BY <1>1
  <1>4. Requeued([b EXCEPT !.queue[s][p] = Unlink(b.queue[s][p], id),
                           !.total[s][p] = b.total[s][p] - q],
                 b, s, p, Unlink(b.queue[s][p], id))
    BY <1>2, <1>3, LevelUpdate
  <1> QED BY <1>4 DEF LevelRemove

(* g is b with a level at (s, p), created if it is missing.                *)
Created(g, b, s, p) ==
    /\ IsBook(g)
    /\ g.index = b.index
    /\ \A s2 \in Side, p2 \in Price : g.queue[s2][p2] = b.queue[s2][p2]
    /\ \A s2 \in Side :
           g.ladder[s2] = IF s2 = s THEN b.ladder[s] \cup {p} ELSE b.ladder[s2]
    /\ g.corrupt <=> (b.corrupt \/ (p \notin b.ladder[s] /\ b.storage[p] # NoSide))
    /\ \A p2 \in Price :
           g.storage[p2] = IF p2 = p /\ p \notin b.ladder[s] /\ b.storage[p] = NoSide
                           THEN s ELSE b.storage[p2]

(* get_or_create_level has this effect on a book without empty levels.     *)
LEMMA CreateShape ==
    ASSUME NEW b, IsBook(b), LaddersMatchQueues(b), NEW s \in Side, NEW p \in Price
    PROVE  Created(GetOrCreateLevel(b, s, p), b, s, p)
  <1> DEFINE g == GetOrCreateLevel(b, s, p)
  <1>1. CASE p \in b.ladder[s]
    <2>1. g = b
      BY <1>1 DEF GetOrCreateLevel
    <2>2. \A s2 \in Side :
             b.ladder[s2] = IF s2 = s THEN b.ladder[s] \cup {p} ELSE b.ladder[s2]
      BY <1>1 DEF IsBook, Ladders
    <2> QED BY <2>1, <2>2, <1>1 DEF Created
  <1>2. CASE p \notin b.ladder[s]
    <2>1. b.queue[s][p] = << >>
      BY <1>2 DEF LaddersMatchQueues
    <2>2. g = [b EXCEPT !.ladder[s] = @ \cup {p},
                        !.queue[s][p] = << >>,
                        !.total[s][p] = 0,
                        !.storage[p] = IF @ = NoSide THEN s ELSE @,
                        !.corrupt = @ \/ b.storage[p] # NoSide]
      BY <1>2 DEF GetOrCreateLevel
    <2> HIDE DEF g
    <2>3. IsBook(g)
      <3>1. g.ladder \in Ladders
        BY <2>2 DEF IsBook, Ladders
      <3>2. g.queue \in Queues
        BY <2>2 DEF IsBook, Queues
      <3>3. g.total \in Totals
        BY <2>2 DEF IsBook, Totals
      <3>4. g.storage \in Storage
        BY <2>2 DEF IsBook, Storage
      <3>5. g.corrupt \in BOOLEAN /\ g.index = b.index
        BY <2>2 DEF IsBook
      <3>6. g \in [index : {g.index}, ladder : {g.ladder}, queue : {g.queue},
                   total : {g.total}, storage : {g.storage}, corrupt : {g.corrupt}]
        BY <2>2 DEF IsBook
      <3> QED BY <3>1, <3>2, <3>3, <3>4, <3>5, <3>6 DEF IsBook
    <2>4. \A s2 \in Side, p2 \in Price : g.queue[s2][p2] = b.queue[s2][p2]
      BY <2>1, <2>2 DEF IsBook, Queues
    <2>5. \A s2 \in Side :
             g.ladder[s2] = IF s2 = s THEN b.ladder[s] \cup {p} ELSE b.ladder[s2]
      BY <2>2 DEF IsBook, Ladders
    <2>6. \A p2 \in Price :
             g.storage[p2] = IF p2 = p /\ b.storage[p] = NoSide
                             THEN s ELSE b.storage[p2]
      BY <2>2 DEF IsBook, Storage
    <2>7. /\ g.index = b.index
          /\ g.corrupt <=> (b.corrupt \/ b.storage[p] # NoSide)
      BY <2>2 DEF IsBook
    <2> QED BY <2>3, <2>4, <2>5, <2>6, <2>7, <1>2 DEF Created, g
  <1> QED BY <1>1, <1>2

(* c is b with id appended to the queue at (s, p).                         *)
Appended(c, b, s, p, id) ==
    /\ IsBook(c)
    /\ c.index = b.index
    /\ \A s2 \in Side, p2 \in Price :
           c.queue[s2][p2] = IF s2 = s /\ p2 = p
                             THEN Append(b.queue[s][p], id)
                             ELSE b.queue[s2][p2]
    /\ \A s2 \in Side :
           c.ladder[s2] = IF s2 = s THEN b.ladder[s] \cup {p} ELSE b.ladder[s2]
    /\ c.corrupt <=> (b.corrupt \/ (p \notin b.ladder[s] /\ b.storage[p] # NoSide))
    /\ \A p2 \in Price :
           c.storage[p2] = IF p2 = p /\ p \notin b.ladder[s] /\ b.storage[p] = NoSide
                           THEN s ELSE b.storage[p2]

(* An order is appended at (s, p), in a new level if there is none.        *)
LEMMA AppendShape ==
    ASSUME NEW b, IsBook(b), LaddersMatchQueues(b),
           NEW s \in Side, NEW p \in Price, NEW id \in OrderId, NEW q \in Int
    PROVE  Appended(LevelAppend(GetOrCreateLevel(b, s, p), s, p, id, q), b, s, p, id)
  <1> DEFINE g == GetOrCreateLevel(b, s, p)
             c == LevelAppend(g, s, p, id, q)
  <1>1. Created(g, b, s, p)
    BY CreateShape
  <1> HIDE DEF g
  <1>2. Requeued(c, g, s, p, Append(g.queue[s][p], id))
    BY <1>1, LevelAppendShape DEF Created
  <1> HIDE DEF c
  <1>3. Appended(c, b, s, p, id)
    BY <1>1, <1>2 DEF Created, Requeued, Appended
  <1> QED BY <1>3 DEF c, g

(* c is b with the index f.                                                *)
Reindexed(c, b, f) ==
    /\ IsBook(c)
    /\ c.index = f
    /\ c.queue = b.queue
    /\ c.ladder = b.ladder
    /\ c.storage = b.storage
    /\ c.corrupt <=> b.corrupt

(* Replacing the index leaves the rest of the book alone.                  *)
LEMMA IndexUpdate ==
    ASSUME NEW b, IsBook(b), NEW f, IsIndex(f)
    PROVE  Reindexed([b EXCEPT !.index = f], b, f)
  BY DEF IsBook, Reindexed

(* id_index_.emplace.                                                      *)
LEMMA PutShape ==
    ASSUME NEW b, IsBook(b), NEW id \in OrderId, NEW o \in Order
    PROVE  Reindexed(PutOrder(b, id, o), b,
                     [i \in Live(b) \cup {id} |-> IF i = id THEN o ELSE b.index[i]])
  <1> DEFINE f == [i \in Live(b) \cup {id} |-> IF i = id THEN o ELSE b.index[i]]
  <1>1. DOMAIN f \subseteq OrderId /\ f \in [DOMAIN f -> Order]
    BY DEF IsBook, IsIndex, Live
  <1>2. PutOrder(b, id, o) = [b EXCEPT !.index = f]
    BY DEF PutOrder, Live
  <1> HIDE DEF f
  <1>3. IsIndex(f)
    BY <1>1 DEF IsIndex
  <1>4. Reindexed(PutOrder(b, id, o), b, f)
    BY <1>2, <1>3, IndexUpdate
  <1> QED BY <1>4 DEF f

(* id_index_.erase.                                                        *)
LEMMA EraseShape ==
    ASSUME NEW b, IsBook(b), NEW id
    PROVE  Reindexed(EraseOrder(b, id), b, [i \in Live(b) \ {id} |-> b.index[i]])
  <1> DEFINE f == [i \in Live(b) \ {id} |-> b.index[i]]
  <1>1. DOMAIN f \subseteq OrderId /\ f \in [DOMAIN f -> Order]
    BY DEF IsBook, IsIndex, Live
  <1>2. EraseOrder(b, id) = [b EXCEPT !.index = f]
    BY DEF EraseOrder, Live
  <1> HIDE DEF f
  <1>3. IsIndex(f)
    BY <1>1 DEF IsIndex
  <1>4. Reindexed(EraseOrder(b, id), b, f)
    BY <1>2, <1>3, IndexUpdate
  <1> QED BY <1>4 DEF f

(* c is b without the level at (s, p) if it is empty.                      *)
Swept(c, b, s, p) ==
    /\ IsBook(c)
    /\ c.index = b.index
    /\ c.queue = b.queue
    /\ c.corrupt <=> b.corrupt
    /\ \A s2 \in Side, p2 \in Price :
           p2 \in c.ladder[s2]
               <=> p2 \in b.ladder[s2] /\ ~ (s2 = s /\ p2 = p /\ b.queue[s][p] = << >>)
    /\ \A p2 \in Price :
           c.storage[p2] = IF p2 = p /\ b.queue[s][p] = << >>
                           THEN NoSide ELSE b.storage[p2]

(* An emptied level leaves its ladder and its storage entry; one that      *)
(* still has orders keeps both.                                            *)
LEMMA SweepShape ==
    ASSUME NEW b, IsBook(b), NEW s \in Side, NEW p \in Price
    PROVE  Swept(DestroyIfEmpty(b, s, p), b, s, p)
  <1> DEFINE c == DestroyIfEmpty(b, s, p)
  <1>1. CASE b.queue[s][p] # << >>
    BY <1>1 DEF DestroyIfEmpty, Swept
  <1>2. CASE b.queue[s][p] = << >>
    <2>1. c = [b EXCEPT !.ladder[s] = b.ladder[s] \ {p}, !.storage[p] = NoSide]
      BY <1>2 DEF DestroyIfEmpty, DestroyLevel
    <2> HIDE DEF c
    <2>2. IsBook(c)
      BY <2>1 DEF IsBook, Ladders, Storage
    <2>3. c.index = b.index /\ c.queue = b.queue /\ (c.corrupt <=> b.corrupt)
      BY <2>1 DEF IsBook
    <2>4. \A s2 \in Side, p2 \in Price :
             p2 \in c.ladder[s2] <=> p2 \in b.ladder[s2] /\ ~ (s2 = s /\ p2 = p)
      BY <2>1 DEF IsBook, Ladders
    <2>5. \A p2 \in Price : c.storage[p2] = IF p2 = p THEN NoSide ELSE b.storage[p2]
      BY <2>1 DEF IsBook, Storage
    <2> QED BY <2>2, <2>3, <2>4, <2>5, <1>2 DEF Swept, c
  <1> QED BY <1>1, <1>2

-----------------------------------------------------------------------------
(* The part of the inductive invariant that is about the book.             *)

OrdersOpen(b) ==
    \A id \in Live(b) : b.index[id].remaining \in Quantity /\ IsOpen(b.index[id])

BookOK(b) ==
    /\ IsBook(b)
    /\ OrdersOpen(b)
    /\ QueuesMatchIndex(b)
    /\ StorageOwnsLevels(b)

(* QueuesMatchIndex in terms of what the queues hold.                      *)
QueuesByContent(b) ==
    /\ \A s \in Side, p \in Price : \A x : Holds(b.queue[s][p], x) =>
           x \in Live(b) /\ b.index[x].side = s /\ b.index[x].price = p
    /\ \A s \in Side, p \in Price : Distinct(b.queue[s][p])
    /\ \A x \in Live(b) : Holds(b.queue[b.index[x].side][b.index[x].price], x)
    /\ \A s \in Side, p \in Price : p \in b.ladder[s] <=> b.queue[s][p] # << >>

(* The consistency of a book, restated by what its queues contain instead  *)
(* of by positions.                                                        *)
LEMMA ByContent ==
    ASSUME NEW b PROVE QueuesMatchIndex(b) <=> QueuesByContent(b)
  <1>1. QueuedIdsLive(b) <=>
          \A s \in Side, p \in Price : \A x : Holds(b.queue[s][p], x) =>
              x \in Live(b) /\ b.index[x].side = s /\ b.index[x].price = p
    BY DEF QueuedIdsLive, Holds
  <1>2. QueuedOnce(b) <=> \A s \in Side, p \in Price : Distinct(b.queue[s][p])
    BY DEF QueuedOnce, Distinct
  <1>3. LiveIdsQueued(b) <=>
          \A x \in Live(b) : Holds(b.queue[b.index[x].side][b.index[x].price], x)
    BY DEF LiveIdsQueued, Holds
  <1> QED BY <1>1, <1>2, <1>3 DEF QueuesMatchIndex, QueuesByContent, LaddersMatchQueues

(* The order id rests at (s, p) of b.                                      *)
At(b, id, s, p) == b.index[id].side = s /\ b.index[id].price = p

(* What a book types gives for a live order.                               *)
LEMMA LiveOrder ==
    ASSUME NEW b, IsBook(b), NEW id \in Live(b)
    PROVE  /\ id \in OrderId
           /\ b.index[id] \in Order
           /\ b.index[id].side \in Side
           /\ b.index[id].price \in Price
           /\ b.index[id].remaining \in Int
  <1>1. id \in OrderId /\ b.index[id] \in Order
    BY DEF IsBook, IsIndex, Live
  <1>2. MaxQuantity \in Nat
    BY BookAssumption
  <1> QED BY <1>1, <1>2 DEF Order

(* The list of a level holds order ids.                                    *)
LEMMA BookQueue ==
    ASSUME NEW b, IsBook(b), NEW s \in Side, NEW p \in Price
    PROVE  b.queue[s][p] \in Seq(OrderId)
  BY DEF IsBook, Queues

(* c is b without the order id: cancel, and a fill that consumes it.       *)
Removed(c, b, id) ==
    /\ IsBook(c)
    /\ Live(c) = Live(b) \ {id}
    /\ \A i \in Live(c) : c.index[i] = b.index[i]
    /\ c.corrupt <=> b.corrupt
    /\ \A s \in Side, p \in Price :
           c.queue[s][p] = IF At(b, id, s, p)
                           THEN Unlink(b.queue[s][p], id) ELSE b.queue[s][p]
    /\ \A s \in Side, p \in Price :
           p \in c.ladder[s]
               <=> p \in b.ladder[s] /\ ~ (At(b, id, s, p) /\ c.queue[s][p] = << >>)
    /\ \A s \in Side, p \in Price : At(b, id, s, p) =>
           \A p2 \in Price :
               c.storage[p2] = IF p2 = p /\ c.queue[s][p] = << >>
                               THEN NoSide ELSE b.storage[p2]

(* A book that loses one order this way stays consistent.                  *)
LEMMA RemovedOK ==
    ASSUME NEW b, BookOK(b), NEW id \in Live(b), NEW c, Removed(c, b, id)
    PROVE  BookOK(c)
  <1> DEFINE s0 == b.index[id].side
             p0 == b.index[id].price
  <1>0. IsBook(b) /\ QueuesByContent(b) /\ IsBook(c)
    BY ByContent DEF BookOK, Removed
  <1>1. s0 \in Side /\ p0 \in Price /\ At(b, id, s0, p0)
    BY <1>0, LiveOrder DEF At
  <1>2. \A s \in Side, p \in Price : At(b, id, s, p) <=> s = s0 /\ p = p0
    BY DEF At
  <1>3. Holds(b.queue[s0][p0], id) /\ Distinct(b.queue[s0][p0])
    BY <1>0, <1>1 DEF QueuesByContent
  <1>4. b.queue[s0][p0] \in Seq(OrderId)
    BY <1>0, <1>1, BookQueue
  <1>5. /\ Distinct(Unlink(b.queue[s0][p0], id))
        /\ \A x : Holds(Unlink(b.queue[s0][p0], id), x)
                     <=> Holds(b.queue[s0][p0], x) /\ x # id
    BY <1>3, <1>4, UnlinkSet, ZenonT(30)
  <1> HIDE DEF s0, p0
  <1>6. \A s \in Side, p \in Price : \A x :
           Holds(c.queue[s][p], x) <=> Holds(b.queue[s][p], x) /\ x # id
    <2> SUFFICES ASSUME NEW s \in Side, NEW p \in Price, NEW x
                 PROVE  Holds(c.queue[s][p], x) <=> Holds(b.queue[s][p], x) /\ x # id
      OBVIOUS
    <2>1. CASE s = s0 /\ p = p0
      BY <2>1, <1>1, <1>5 DEF Removed
    <2>2. CASE ~ (s = s0 /\ p = p0)
      <3>1. c.queue[s][p] = b.queue[s][p]
        BY <2>2, <1>2 DEF Removed
      <3>2. ~ Holds(b.queue[s][p], id)
        BY <2>2, <1>0 DEF QueuesByContent, s0, p0
      <3> QED BY <3>1, <3>2
    <2> QED BY <2>1, <2>2
  <1>7. \A s \in Side, p \in Price : Distinct(c.queue[s][p])
    BY <1>0, <1>1, <1>2, <1>5 DEF Removed, QueuesByContent
  <1>8. \A s \in Side, p \in Price : p \in c.ladder[s] <=> c.queue[s][p] # << >>
    <2> SUFFICES ASSUME NEW s \in Side, NEW p \in Price
                 PROVE  p \in c.ladder[s] <=> c.queue[s][p] # << >>
      OBVIOUS
    <2>1. CASE At(b, id, s, p)
      <3>1. p \in b.ladder[s]
        <4>1. b.queue[s][p] # << >>
          BY <2>1, <1>2, <1>3 DEF Holds
        <4> QED BY <4>1, <1>0 DEF QueuesByContent
      <3> QED BY <2>1, <3>1 DEF Removed
    <2>2. CASE ~ At(b, id, s, p)
      BY <2>2, <1>0 DEF Removed, QueuesByContent
    <2> QED BY <2>1, <2>2
  <1>9. QueuesByContent(c)
    <2>1. \A s \in Side, p \in Price : \A x : Holds(c.queue[s][p], x) =>
             x \in Live(c) /\ c.index[x].side = s /\ c.index[x].price = p
      <3> SUFFICES ASSUME NEW s \in Side, NEW p \in Price, NEW x,
                          Holds(c.queue[s][p], x)
                   PROVE  x \in Live(c) /\ c.index[x].side = s /\ c.index[x].price = p
        OBVIOUS
      <3>1. Holds(b.queue[s][p], x) /\ x # id
        BY <1>6
      <3>2. x \in Live(b) /\ b.index[x].side = s /\ b.index[x].price = p
        BY <3>1, <1>0 DEF QueuesByContent
      <3>3. x \in Live(c) /\ c.index[x] = b.index[x]
        BY <3>1, <3>2 DEF Removed
      <3> QED BY <3>2, <3>3
    <2>2. ASSUME NEW x \in Live(c)
          PROVE  Holds(c.queue[c.index[x].side][c.index[x].price], x)
      <3>1. x \in Live(b) /\ x # id /\ c.index[x] = b.index[x]
        BY DEF Removed
      <3>2. c.index[x].side \in Side /\ c.index[x].price \in Price
        BY <1>0, LiveOrder
      <3>3. Holds(b.queue[c.index[x].side][c.index[x].price], x)
        BY <3>1, <1>0 DEF QueuesByContent
      <3> QED BY <3>1, <3>2, <3>3, <1>6
    <2> QED BY <2>1, <2>2, <1>7, <1>8 DEF QueuesByContent
  <1>10. StorageOwnsLevels(c)
    <2> SUFFICES ASSUME ~ c.corrupt, NEW s \in Side, NEW p \in Price
                 PROVE  p \in c.ladder[s] <=> c.storage[p] = s
      BY DEF StorageOwnsLevels
    <2>1. /\ p \in b.ladder[s] <=> b.storage[p] = s
          /\ p0 \in b.ladder[s0] <=> b.storage[p0] = s0
      BY <1>1 DEF BookOK, StorageOwnsLevels, Removed
    <2>2. p0 \in b.ladder[s0]
      <3>1. b.queue[s0][p0] # << >>
        BY <1>3 DEF Holds
      <3> QED BY <3>1, <1>0, <1>1 DEF QueuesByContent
    <2>3. s # NoSide
      BY DEF Side, NoSide
    <2> QED BY <2>1, <2>2, <2>3, <1>1, <1>2 DEF Removed
  <1>11. OrdersOpen(c)
    BY DEF BookOK, OrdersOpen, Removed
  <1> QED BY <1>0, <1>9, <1>10, <1>11, ByContent DEF BookOK

(* What a list holds after Append.                                         *)
LEMMA AppendSet ==
    ASSUME NEW S, NEW seq \in Seq(S), NEW id \in S, Distinct(seq), ~ Holds(seq, id)
    PROVE  /\ Append(seq, id) \in Seq(S)
           /\ Append(seq, id) # << >>
           /\ Distinct(Append(seq, id))
           /\ \A x : Holds(Append(seq, id), x) <=> Holds(seq, x) \/ x = id
           /\ \A x, y : Precedes(Append(seq, id), x, y)
                          <=> Precedes(seq, x, y) \/ (Holds(seq, x) /\ y = id)
  <1> DEFINE n == Len(seq)
             a == Append(seq, id)
  <1>1. n \in Nat /\ DOMAIN seq = 1 .. n
    OBVIOUS
  <1>2. /\ a \in Seq(S) /\ Len(a) = n + 1 /\ DOMAIN a = 1 .. (n + 1)
        /\ \A i \in 1 .. n : a[i] = seq[i]
        /\ a[n + 1] = id
    OBVIOUS
  <1> HIDE DEF a, n
  <1>3. a # << >>
    BY <1>1, <1>2
  <1>4. Distinct(a)
    BY <1>1, <1>2 DEF Distinct, Holds
  <1>5. ASSUME NEW x PROVE Holds(a, x) <=> Holds(seq, x) \/ x = id
    <2>1. ASSUME Holds(a, x) PROVE Holds(seq, x) \/ x = id
      BY <2>1, <1>1, <1>2 DEF Holds
    <2>2. ASSUME Holds(seq, x) PROVE Holds(a, x)
      BY <2>2, <1>1, <1>2 DEF Holds
    <2>3. Holds(a, id)
      BY <1>1, <1>2 DEF Holds
    <2> QED BY <2>1, <2>2, <2>3
  <1>6. ASSUME NEW x, NEW y
        PROVE  Precedes(a, x, y) <=> Precedes(seq, x, y) \/ (Holds(seq, x) /\ y = id)
    <2>1. ASSUME Precedes(a, x, y)
          PROVE  Precedes(seq, x, y) \/ (Holds(seq, x) /\ y = id)
      BY <2>1, <1>1, <1>2 DEF Precedes, Holds
    <2>2. ASSUME Precedes(seq, x, y) PROVE Precedes(a, x, y)
      BY <2>2, <1>1, <1>2 DEF Precedes
    <2>3. ASSUME Holds(seq, x), y = id PROVE Precedes(a, x, y)
      <3>1. PICK i \in 1 .. n : seq[i] = x
        BY <2>3, <1>1 DEF Holds
      <3>2. i < n + 1 /\ a[i] = x /\ i \in DOMAIN a /\ n + 1 \in DOMAIN a
        BY <3>1, <1>1, <1>2
      <3> QED BY <3>2, <2>3, <1>2 DEF Precedes
    <2> QED BY <2>1, <2>2, <2>3
  <1> QED BY <1>2, <1>3, <1>4, <1>5, <1>6 DEF a

(* c is b with the order o added as id: insert, and the second half of a   *)
(* replacement by modify.                                                  *)
Added(c, b, id, o) ==
    /\ IsBook(c)
    /\ Live(c) = Live(b) \cup {id}
    /\ \A i \in Live(b) : i # id => c.index[i] = b.index[i]
    /\ c.index[id] = o
    /\ \A s \in Side, p \in Price :
           c.queue[s][p] = IF s = o.side /\ p = o.price
                           THEN Append(b.queue[s][p], id) ELSE b.queue[s][p]
    /\ \A s \in Side, p \in Price :
           p \in c.ladder[s] <=> p \in b.ladder[s] \/ (s = o.side /\ p = o.price)
    /\ c.corrupt <=> \/ b.corrupt
                     \/ /\ o.price \notin b.ladder[o.side]
                        /\ b.storage[o.price] # NoSide
    /\ \A p \in Price :
           c.storage[p] = IF /\ p = o.price
                             /\ p \notin b.ladder[o.side]
                             /\ b.storage[p] = NoSide
                          THEN o.side ELSE b.storage[p]

(* A book that gains one open order at the back of a level stays           *)
(* consistent, also when the storage entry of the price belongs to the     *)
(* other side.                                                             *)
LEMMA AddedOK ==
    ASSUME NEW b, BookOK(b), NEW id \in OrderId, id \notin Live(b),
           NEW o \in Order, o.remaining \in Quantity, IsOpen(o),
           NEW c, Added(c, b, id, o)
    PROVE  BookOK(c)
  <1> DEFINE s0 == o.side
             p0 == o.price
  <1>0. IsBook(b) /\ QueuesByContent(b) /\ IsBook(c)
    BY ByContent DEF BookOK, Added
  <1>1. s0 \in Side /\ p0 \in Price
    BY DEF Order
  <1>2. Distinct(b.queue[s0][p0]) /\ ~ Holds(b.queue[s0][p0], id)
    BY <1>0, <1>1 DEF QueuesByContent
  <1>3. b.queue[s0][p0] \in Seq(OrderId)
    BY <1>0, <1>1, BookQueue
  <1>4. /\ Append(b.queue[s0][p0], id) # << >>
        /\ Distinct(Append(b.queue[s0][p0], id))
        /\ \A x : Holds(Append(b.queue[s0][p0], id), x)
                     <=> Holds(b.queue[s0][p0], x) \/ x = id
    BY <1>2, <1>3, AppendSet
  <1> HIDE DEF s0, p0
  <1>5. \A s \in Side, p \in Price : \A x :
           Holds(c.queue[s][p], x)
               <=> Holds(b.queue[s][p], x) \/ (x = id /\ s = s0 /\ p = p0)
    <2> SUFFICES ASSUME NEW s \in Side, NEW p \in Price, NEW x
                 PROVE  Holds(c.queue[s][p], x)
                            <=> Holds(b.queue[s][p], x) \/ (x = id /\ s = s0 /\ p = p0)
      OBVIOUS
    <2>1. CASE s = s0 /\ p = p0
      BY <2>1, <1>4 DEF Added, s0, p0
    <2>2. CASE ~ (s = s0 /\ p = p0)
      BY <2>2 DEF Added, s0, p0
    <2> QED BY <2>1, <2>2
  <1>6. \A s \in Side, p \in Price : Distinct(c.queue[s][p])
    <2> SUFFICES ASSUME NEW s \in Side, NEW p \in Price PROVE Distinct(c.queue[s][p])
      OBVIOUS
    <2>1. Distinct(b.queue[s][p])
      BY <1>0 DEF QueuesByContent
    <2>2. c.queue[s][p] = IF s = s0 /\ p = p0 THEN Append(b.queue[s][p], id) ELSE b.queue[s][p]
      BY DEF Added, s0, p0
    <2> QED BY <1>4, <2>1, <2>2
  <1>7. \A s \in Side, p \in Price : p \in c.ladder[s] <=> c.queue[s][p] # << >>
    <2> SUFFICES ASSUME NEW s \in Side, NEW p \in Price
                 PROVE  p \in c.ladder[s] <=> c.queue[s][p] # << >>
      OBVIOUS
    <2>1. CASE s = s0 /\ p = p0
      <3>0. c.queue[s][p] = Append(b.queue[s0][p0], id)
        BY <2>1 DEF Added, s0, p0
      <3>1. c.queue[s][p] # << >>
        BY <3>0, <1>4, Zenon
      <3>2. p \in c.ladder[s]
        BY <2>1 DEF Added, s0, p0
      <3> QED BY <3>1, <3>2
    <2>2. CASE ~ (s = s0 /\ p = p0)
      BY <2>2, <1>0 DEF Added, QueuesByContent, s0, p0
    <2> QED BY <2>1, <2>2
  <1>8. c.index[id].side = s0 /\ c.index[id].price = p0
    BY DEF Added, s0, p0
  <1>9. QueuesByContent(c)
    <2>1. \A s \in Side, p \in Price : \A x : Holds(c.queue[s][p], x) =>
             x \in Live(c) /\ c.index[x].side = s /\ c.index[x].price = p
      <3> SUFFICES ASSUME NEW s \in Side, NEW p \in Price, NEW x,
                          Holds(c.queue[s][p], x)
                   PROVE  x \in Live(c) /\ c.index[x].side = s /\ c.index[x].price = p
        OBVIOUS
      <3>1. CASE x = id /\ s = s0 /\ p = p0
        BY <3>1, <1>8 DEF Added
      <3>2. CASE Holds(b.queue[s][p], x)
        <4>1. x \in Live(b) /\ b.index[x].side = s /\ b.index[x].price = p
          BY <3>2, <1>0 DEF QueuesByContent
        <4>2. x \in Live(c) /\ c.index[x] = b.index[x]
          BY <4>1 DEF Added
        <4> QED BY <4>1, <4>2
      <3> QED BY <3>1, <3>2, <1>5
    <2>2. ASSUME NEW x \in Live(c)
          PROVE  Holds(c.queue[c.index[x].side][c.index[x].price], x)
      <3>1. CASE x = id
        BY <3>1, <1>1, <1>5, <1>8
      <3>2. CASE x # id
        <4>1. x \in Live(b) /\ c.index[x] = b.index[x]
          BY <3>2 DEF Added
        <4>2. c.index[x].side \in Side /\ c.index[x].price \in Price
          BY <1>0, LiveOrder
        <4>3. Holds(b.queue[c.index[x].side][c.index[x].price], x)
          BY <4>1, <1>0 DEF QueuesByContent
        <4> QED BY <4>2, <4>3, <1>5
      <3> QED BY <3>1, <3>2
    <2> QED BY <2>1, <2>2, <1>6, <1>7 DEF QueuesByContent
  <1>10. StorageOwnsLevels(c)
    <2> SUFFICES ASSUME ~ c.corrupt, NEW s \in Side, NEW p \in Price
                 PROVE  p \in c.ladder[s] <=> c.storage[p] = s
      BY DEF StorageOwnsLevels
    <2>1. /\ p \in b.ladder[s] <=> b.storage[p] = s
          /\ p0 \in b.ladder[s0] <=> b.storage[p0] = s0
          /\ p0 \notin b.ladder[s0] => b.storage[p0] = NoSide
      BY <1>1 DEF BookOK, StorageOwnsLevels, Added, s0, p0
    <2>2. s # NoSide
      BY DEF Side, NoSide
    <2> QED BY <2>1, <2>2, <1>1 DEF Added, s0, p0
  <1>11. OrdersOpen(c)
    BY DEF BookOK, OrdersOpen, Added
  <1> QED BY <1>0, <1>9, <1>10, <1>11, ByContent DEF BookOK

(* c is b with another remaining quantity of the order id: reduce, modify  *)
(* in place, and a fill that leaves something.                             *)
Resized(c, b, id) ==
    /\ IsBook(c)
    /\ Live(c) = Live(b)
    /\ \A i \in Live(b) : i # id => c.index[i] = b.index[i]
    /\ c.index[id].side = b.index[id].side
    /\ c.index[id].price = b.index[id].price
    /\ c.index[id].sequence = b.index[id].sequence
    /\ c.index[id].remaining \in Quantity
    /\ IsOpen(c.index[id])
    /\ c.queue = b.queue
    /\ c.ladder = b.ladder
    /\ c.storage = b.storage
    /\ c.corrupt <=> b.corrupt

(* A book in which one order changes only what it has left stays           *)
(* consistent.                                                             *)
LEMMA ResizedOK ==
    ASSUME NEW b, BookOK(b), NEW id \in Live(b), NEW c, Resized(c, b, id)
    PROVE  BookOK(c)
  <1>1. \A i \in Live(b) : /\ c.index[i].side = b.index[i].side
                            /\ c.index[i].price = b.index[i].price
    BY DEF Resized
  <1>2. QueuesByContent(b)
    BY ByContent DEF BookOK
  <1>3. QueuesByContent(c)
    BY <1>1, <1>2 DEF QueuesByContent, Resized
  <1>4. StorageOwnsLevels(c)
    BY DEF BookOK, StorageOwnsLevels, Resized
  <1>5. OrdersOpen(c)
    BY DEF BookOK, OrdersOpen, Resized
  <1> QED BY <1>3, <1>4, <1>5, ByContent DEF BookOK, Resized

-----------------------------------------------------------------------------
(* The mutators of the book have these effects.                            *)

(* insert puts the order at the back of the level of its side and price.   *)
LEMMA InsertShape ==
    ASSUME NEW b, BookOK(b), NEW id \in OrderId, NEW o \in Order
    PROVE  Added(InsertOrder(b, id, o), b, id, o)
  <1> DEFINE a == LevelAppend(GetOrCreateLevel(b, o.side, o.price),
                              o.side, o.price, id, o.remaining)
             c == PutOrder(a, id, o)
  <1>1. IsBook(b) /\ LaddersMatchQueues(b)
    BY DEF BookOK, QueuesMatchIndex
  <1>2. o.side \in Side /\ o.price \in Price /\ o.remaining \in Int
    BY BookAssumption DEF Order
  <1>3. Appended(a, b, o.side, o.price, id)
    BY <1>1, <1>2, AppendShape
  <1> HIDE DEF a
  <1>4. Reindexed(c, a, [i \in Live(a) \cup {id} |-> IF i = id THEN o ELSE a.index[i]])
    BY <1>3, PutShape DEF Appended
  <1> HIDE DEF c
  <1>5. IsBook(c) /\ Live(a) = Live(b)
    BY <1>3, <1>4 DEF Appended, Reindexed, Live
  <1>6. /\ Live(c) = Live(b) \cup {id}
        /\ \A i \in Live(b) : i # id => c.index[i] = b.index[i]
        /\ c.index[id] = o
    BY <1>3, <1>4, <1>5 DEF Appended, Reindexed, Live
  <1>7. \A s \in Side, p \in Price :
           c.queue[s][p] = IF s = o.side /\ p = o.price
                           THEN Append(b.queue[s][p], id) ELSE b.queue[s][p]
    BY <1>3, <1>4 DEF Appended, Reindexed
  <1>8. \A s \in Side, p \in Price :
           p \in c.ladder[s] <=> p \in b.ladder[s] \/ (s = o.side /\ p = o.price)
    BY <1>3, <1>4 DEF Appended, Reindexed
  <1>9. /\ c.corrupt <=> (b.corrupt \/ (o.price \notin b.ladder[o.side]
                                        /\ b.storage[o.price] # NoSide))
        /\ \A p \in Price :
               c.storage[p] = IF /\ p = o.price
                                 /\ p \notin b.ladder[o.side]
                                 /\ b.storage[p] = NoSide
                              THEN o.side ELSE b.storage[p]
    BY <1>2, <1>3, <1>4 DEF Appended, Reindexed
  <1>10. Added(c, b, id, o)
    BY <1>5, <1>6, <1>7, <1>8, <1>9 DEF Added
  <1> QED BY <1>10 DEF InsertOrder, c, a

(* c is b with the order id off its level but still in the index.          *)
Detached(c, b, id) ==
    /\ IsBook(c)
    /\ c.index = b.index
    /\ c.corrupt <=> b.corrupt
    /\ \A s \in Side, p \in Price :
           c.queue[s][p] = IF At(b, id, s, p)
                           THEN Unlink(b.queue[s][p], id) ELSE b.queue[s][p]
    /\ \A s \in Side, p \in Price :
           p \in c.ladder[s]
               <=> p \in b.ladder[s] /\ ~ (At(b, id, s, p) /\ c.queue[s][p] = << >>)
    /\ \A s \in Side, p \in Price : At(b, id, s, p) =>
           \A p2 \in Price :
               c.storage[p2] = IF p2 = p /\ c.queue[s][p] = << >>
                               THEN NoSide ELSE b.storage[p2]

(* cancel and modify first take the order off its level.                   *)
LEMMA DetachShape ==
    ASSUME NEW b, BookOK(b), NEW id \in Live(b)
    PROVE  Detached(Detach(b, id), b, id)
  <1> DEFINE s0 == b.index[id].side
             p0 == b.index[id].price
             q0 == b.index[id].remaining
             r == LevelRemove(b, s0, p0, id, q0)
             c == DestroyIfEmpty(r, s0, p0)
  <1>1. IsBook(b) /\ QueuesByContent(b)
    BY ByContent DEF BookOK
  <1>2. s0 \in Side /\ p0 \in Price /\ q0 \in Int
    BY <1>1, LiveOrder
  <1>3. Holds(b.queue[s0][p0], id)
    BY <1>1 DEF QueuesByContent
  <1>4. \A s \in Side, p \in Price : At(b, id, s, p) <=> s = s0 /\ p = p0
    BY DEF At
  <1>5. c = Detach(b, id)
    BY DEF Detach
  <1> HIDE DEF s0, p0, q0
  <1>6. Requeued(r, b, s0, p0, Unlink(b.queue[s0][p0], id))
    BY <1>1, <1>2, <1>3, LevelRemoveShape
  <1> HIDE DEF r
  <1>7. Swept(c, r, s0, p0)
    BY <1>2, <1>6, SweepShape DEF Requeued
  <1> HIDE DEF c
  <1>8. IsBook(c) /\ c.index = b.index /\ (c.corrupt <=> b.corrupt) /\ c.queue = r.queue
    BY <1>6, <1>7 DEF Requeued, Swept
  <1>9. \A s \in Side, p \in Price :
           c.queue[s][p] = IF At(b, id, s, p)
                           THEN Unlink(b.queue[s][p], id) ELSE b.queue[s][p]
    BY <1>4, <1>6, <1>8 DEF Requeued
  <1>10. \A s \in Side, p \in Price :
            p \in c.ladder[s]
                <=> p \in b.ladder[s] /\ ~ (At(b, id, s, p) /\ c.queue[s][p] = << >>)
    BY <1>4, <1>6, <1>7, <1>8 DEF Requeued, Swept
  <1>11. \A p2 \in Price :
            c.storage[p2] = IF p2 = p0 /\ c.queue[s0][p0] = << >>
                            THEN NoSide ELSE b.storage[p2]
    BY <1>6, <1>7, <1>8 DEF Requeued, Swept
  <1> QED BY <1>4, <1>5, <1>8, <1>9, <1>10, <1>11 DEF Detached

(* cancel removes the order and nothing else.                              *)
LEMMA CancelShape ==
    ASSUME NEW b, BookOK(b), NEW id \in Live(b)
    PROVE  Removed(CancelOrder(b, id), b, id)
  <1> DEFINE d == Detach(b, id)
             c == EraseOrder(d, id)
  <1>1. Detached(d, b, id)
    BY DetachShape
  <1> HIDE DEF d
  <1>2. Reindexed(c, d, [i \in Live(d) \ {id} |-> d.index[i]])
    BY <1>1, EraseShape DEF Detached
  <1> HIDE DEF c
  <1>3. Live(d) = Live(b) /\ d.index = b.index
    BY <1>1 DEF Detached, Live
  <1>4. Live(c) = Live(b) \ {id} /\ \A i \in Live(c) : c.index[i] = b.index[i]
    BY <1>2, <1>3 DEF Reindexed, Live
  <1>5. /\ IsBook(c) /\ c.queue = d.queue /\ c.ladder = d.ladder
        /\ c.storage = d.storage /\ (c.corrupt <=> d.corrupt)
    BY <1>2 DEF Reindexed
  <1>6. Removed(c, b, id)
    BY <1>1, <1>4, <1>5 DEF Detached, Removed
  <1> QED BY <1>6 DEF CancelOrder, c, d

(* modify's replacement is a cancel followed by an insert of the same id.  *)
LEMMA ReplaceShape ==
    ASSUME NEW b, BookOK(b), NEW id \in Live(b), NEW q \in Quantity, NEW p \in Price
    PROVE  LET n == [b.index[id] EXCEPT !.price = p, !.remaining = q, !.status = "Open"]
           IN  /\ n \in Order
               /\ n.remaining \in Quantity
               /\ IsOpen(n)
               /\ Added(ReplaceOrder(b, id, q, p), CancelOrder(b, id), id, n)
  <1> DEFINE o == b.index[id]
             n == [o EXCEPT !.price = p, !.remaining = q, !.status = "Open"]
             d == Detach(b, id)
             e == CancelOrder(b, id)
             a == PutOrder(d, id, n)
             c == LevelAppend(GetOrCreateLevel(a, o.side, p), o.side, p, id, q)
  <1>1. o \in Order /\ id \in OrderId
    BY LiveOrder DEF BookOK
  <1>2. q \in Int /\ q \in 0 .. MaxQuantity
    BY BookAssumption DEF Quantity
  <1>3. n \in Order /\ n.side = o.side /\ n.price = p /\ n.remaining = q /\ IsOpen(n)
    BY <1>1, <1>2 DEF Order, IsOpen
  <1>4. o.side \in Side
    BY <1>1 DEF Order
  <1>5. c = ReplaceOrder(b, id, q, p)
    BY DEF ReplaceOrder
  <1>6. Detached(d, b, id) /\ Removed(e, b, id) /\ BookOK(e)
    BY DetachShape, CancelShape, RemovedOK
  <1> HIDE DEF o, n, d, e
  <1>7. Reindexed(a, d, [i \in Live(d) \cup {id} |-> IF i = id THEN n ELSE d.index[i]])
    BY <1>1, <1>3, <1>6, PutShape DEF Detached
  <1> HIDE DEF a
  <1>8. /\ \A s2 \in Side, p2 \in Price : a.queue[s2][p2] = e.queue[s2][p2]
        /\ \A s2 \in Side, p2 \in Price : p2 \in a.ladder[s2] <=> p2 \in e.ladder[s2]
        /\ \A p2 \in Price : a.storage[p2] = e.storage[p2]
        /\ a.corrupt <=> e.corrupt
    <2>1. \E s2 \in Side, p2 \in Price : At(b, id, s2, p2)
      BY LiveOrder DEF At, BookOK
    <2> QED BY <2>1, <1>6, <1>7 DEF Detached, Removed, Reindexed
  <1>9. IsBook(a) /\ LaddersMatchQueues(a)
    BY <1>6, <1>7, <1>8 DEF Reindexed, BookOK, QueuesMatchIndex, LaddersMatchQueues
  <1>10. Appended(c, a, o.side, p, id)
    BY <1>1, <1>2, <1>4, <1>9, AppendShape
  <1> HIDE DEF c
  <1>11. /\ Live(c) = Live(e) \cup {id}
         /\ \A i \in Live(e) : i # id => c.index[i] = e.index[i]
         /\ c.index[id] = n
    BY <1>6, <1>7, <1>10 DEF Appended, Reindexed, Detached, Removed, Live
  <1>12. \A s2 \in Side, p2 \in Price :
            c.queue[s2][p2] = IF s2 = n.side /\ p2 = n.price
                              THEN Append(e.queue[s2][p2], id) ELSE e.queue[s2][p2]
    BY <1>3, <1>8, <1>10 DEF Appended
  <1>13. \A s2 \in Side, p2 \in Price :
            p2 \in c.ladder[s2] <=> p2 \in e.ladder[s2] \/ (s2 = n.side /\ p2 = n.price)
    BY <1>3, <1>8, <1>10 DEF Appended
  <1>14. /\ c.corrupt <=> (e.corrupt \/ (n.price \notin e.ladder[n.side]
                                         /\ e.storage[n.price] # NoSide))
         /\ \A p2 \in Price :
                c.storage[p2] = IF /\ p2 = n.price
                                   /\ p2 \notin e.ladder[n.side]
                                   /\ e.storage[p2] = NoSide
                                THEN n.side ELSE e.storage[p2]
    BY <1>3, <1>4, <1>8, <1>10 DEF Appended
  <1>15. Added(c, e, id, n)
    BY <1>10, <1>11, <1>12, <1>13, <1>14 DEF Added, Appended
  <1> QED BY <1>3, <1>5, <1>15 DEF o, n, e

(* c is b with the record n for the live order id; totals may differ.      *)
Overwritten(c, b, id, n) ==
    /\ IsBook(c)
    /\ Live(c) = Live(b)
    /\ \A i \in Live(b) : i # id => c.index[i] = b.index[i]
    /\ c.index[id] = n
    /\ c.queue = b.queue
    /\ c.ladder = b.ladder
    /\ c.storage = b.storage
    /\ c.corrupt <=> b.corrupt

(* Writing one order and one total leaves the lists, the ladders and the   *)
(* storage alone.                                                          *)
LEMMA OrderUpdate ==
    ASSUME NEW b, IsBook(b), NEW id \in Live(b), NEW n \in Order,
           NEW s \in Side, NEW p \in Price, NEW t \in Int
    PROVE  Overwritten([b EXCEPT !.total[s][p] = t, !.index[id] = n], b, id, n)
  <1> DEFINE c == [b EXCEPT !.total[s][p] = t, !.index[id] = n]
  <1>1. /\ c.index = [b.index EXCEPT ![id] = n]
        /\ c.total \in Totals
        /\ c.queue = b.queue /\ c.ladder = b.ladder /\ c.storage = b.storage
        /\ c.corrupt <=> b.corrupt
    BY DEF IsBook, Totals
  <1>2. c \in [index : {c.index}, ladder : {c.ladder}, queue : {c.queue},
               total : {c.total}, storage : {c.storage}, corrupt : BOOLEAN]
    BY DEF IsBook
  <1> HIDE DEF c
  <1>3. /\ Live(c) = Live(b)
        /\ \A i \in Live(b) : i # id => c.index[i] = b.index[i]
        /\ c.index[id] = n
        /\ IsIndex(c.index)
    BY <1>1 DEF IsBook, IsIndex, Live
  <1>4. IsBook(c)
    BY <1>1, <1>2, <1>3 DEF IsBook
  <1> QED BY <1>1, <1>3, <1>4 DEF Overwritten, c

(* reduce, and modify to less at the same price, change only what the      *)
(* order has left.                                                         *)
LEMMA ShrinkShape ==
    ASSUME NEW b, BookOK(b), NEW id \in Live(b), NEW q \in Quantity
    PROVE  /\ Resized(ShrinkOrder(b, id, q), b, id)
           /\ ShrinkOrder(b, id, q).index[id].remaining = q
  <1> DEFINE o == b.index[id]
             t == b.total[o.side][o.price] - (o.remaining - q)
             n == [o EXCEPT !.remaining = q]
             c == [b EXCEPT !.total[o.side][o.price] = t, !.index[id] = n]
  <1>1. IsBook(b) /\ o \in Order /\ o.side \in Side /\ o.price \in Price /\ o.remaining \in Int
    BY LiveOrder DEF BookOK
  <1>2. q \in Int /\ q \in 0 .. MaxQuantity
    BY BookAssumption DEF Quantity
  <1>3. t \in Int
    BY <1>1, <1>2 DEF IsBook, Totals
  <1>4. /\ n \in Order /\ n.side = o.side /\ n.price = o.price /\ n.remaining = q
        /\ n.sequence = o.sequence /\ IsOpen(n)
    BY <1>1, <1>2 DEF Order, IsOpen, BookOK, OrdersOpen
  <1>5. c = ShrinkOrder(b, id, q)
    BY <1>1 DEF ShrinkOrder, IsBook
  <1> HIDE DEF o, t, n
  <1>6. Overwritten(c, b, id, n)
    BY <1>1, <1>3, <1>4, OrderUpdate
  <1> HIDE DEF c
  <1>7. Resized(c, b, id) /\ c.index[id].remaining = q
    BY <1>4, <1>6 DEF Resized, Overwritten, o
  <1> QED BY <1>5, <1>7

(* Removing the front of a list unlinks its first element.                 *)
LEMMA TailUnlinks ==
    ASSUME NEW S, NEW seq \in Seq(S), seq # << >>, Distinct(seq)
    PROVE  Tail(seq) = Unlink(seq, Head(seq))
  <1> DEFINE id == Head(seq)
             n == Len(seq)
             k == PositionOf(seq, id)
             u == Unlink(seq, id)
  <1>1. n \in Nat /\ n >= 1 /\ DOMAIN seq = 1 .. n /\ seq[1] = id
    OBVIOUS
  <1>2. Holds(seq, id)
    BY <1>1 DEF Holds
  <1>3. /\ k \in 1 .. n /\ seq[k] = id
        /\ u \in Seq(S) /\ Len(u) = n - 1
        /\ \A i \in 1 .. (n - 1) : u[i] = IF i < k THEN seq[i] ELSE seq[i + 1]
    BY <1>2, UnlinkShape
  <1> HIDE DEF k, u
  <1>4. k = 1
    BY <1>1, <1>3 DEF Distinct
  <1>5. \A i \in 1 .. (n - 1) : u[i] = seq[i + 1]
    BY <1>1, <1>3, <1>4
  <1>6. Tail(seq) \in Seq(S) /\ Len(Tail(seq)) = n - 1
        /\ \A i \in 1 .. (n - 1) : Tail(seq)[i] = seq[i + 1]
    BY <1>1
  <1>7. Tail(seq) = u
    BY <1>1, <1>3, <1>5, <1>6
  <1> QED BY <1>7 DEF u

(* The front order of a level, named by its own id, as the matcher does.   *)
IsFront(b, id) == id \in Live(b) /\ id = FillFront(b, id)

(* fill of the front order removes it when it consumes it, and otherwise   *)
(* only lowers what it has left.                                           *)
LEMMA FillShape ==
    ASSUME NEW b, BookOK(b), NEW id, IsFront(b, id), NEW q \in Int
    PROVE  /\ Consumes(b, id, q) => Removed(FillOrder(b, id, q), b, id)
           /\ ~ Consumes(b, id, q) =>
                  /\ Resized(FillOrder(b, id, q), b, id)
                  /\ FillOrder(b, id, q).index[id].remaining
                         = b.index[id].remaining - FillQuantity(b, id, q)
  <1> DEFINE o == b.index[id]
             s == o.side
             p == o.price
             m == FillQuantity(b, id, q)
             st == IF Consumes(b, id, q) THEN "Filled" ELSE o.status
             n == [o EXCEPT !.remaining = o.remaining - m, !.status = st]
             r == [b EXCEPT !.total[s][p] = b.total[s][p] - m, !.index[id] = n]
  <1>1. id \in Live(b) /\ FillFront(b, id) = id
    BY DEF IsFront
  <1>2. /\ IsBook(b) /\ QueuesByContent(b) /\ o \in Order /\ s \in Side /\ p \in Price
        /\ o.remaining \in Int /\ o.remaining \in Quantity /\ IsOpen(o)
    BY <1>1, LiveOrder, ByContent DEF BookOK, OrdersOpen
  <1>3. /\ Consumes(b, id, q) <=> q > 0 /\ q >= o.remaining
        /\ m = IF q <= 0 THEN 0 ELSE IF q > o.remaining THEN o.remaining ELSE q
    BY <1>1 DEF Consumes, FillQuantity
  <1>4. /\ m \in Int
        /\ o.remaining - m \in 0 .. MaxQuantity
        /\ ~ Consumes(b, id, q) => o.remaining - m \in Quantity
    <2> HIDE DEF m, o
    <2> QED BY <1>2, <1>3, BookAssumption DEF Quantity
  <1>5. st \in {"Open", "Filled"} /\ (~ Consumes(b, id, q) => st # "Filled")
    BY <1>2 DEF Order, IsOpen
  <1>6. /\ FillOrder(b, id, q) = IF Consumes(b, id, q)
                                 THEN DestroyIfEmpty(
                                          EraseOrder([r EXCEPT !.queue[s][p] = Tail(r.queue[s][p])],
                                                     id), s, p)
                                 ELSE r
    BY <1>1 DEF FillOrder
  <1>7. /\ n \in Order /\ n.side = s /\ n.price = p /\ n.sequence = o.sequence
        /\ n.remaining = o.remaining - m /\ n.status = st
    <2> HIDE DEF m, st
    <2> QED BY <1>2, <1>4, <1>5 DEF Order
  <1>8. b.total[s][p] - m \in Int
    <2> HIDE DEF m
    <2> QED BY <1>2, <1>4 DEF IsBook, Totals
  <1>9. At(b, id, s, p) /\ \A s2, p2 : At(b, id, s2, p2) <=> s2 = s /\ p2 = p
    BY DEF At
  <1>10. Holds(b.queue[s][p], id) /\ Distinct(b.queue[s][p]) /\ b.queue[s][p] \in Seq(OrderId)
    BY <1>1, <1>2, BookQueue DEF QueuesByContent
  <1>11. Tail(b.queue[s][p]) = Unlink(b.queue[s][p], id)
    <2>1. b.queue[s][p] # << >>
      <3>1. \E i \in DOMAIN b.queue[s][p] : TRUE
        BY <1>10 DEF Holds
      <3> QED BY <3>1
    <2>2. Head(b.queue[s][p]) = id
      BY <1>1 DEF FillFront
    <2> QED BY <2>1, <2>2, <1>10, TailUnlinks
  <1>12. Unlink(b.queue[s][p], id) \in Seq(OrderId)
    BY <1>10, UnlinkSet
  <1> HIDE DEF o, s, p, m, st, n
  <1>13. Overwritten(r, b, id, n)
    BY <1>1, <1>2, <1>7, <1>8, OrderUpdate
  <1> HIDE DEF r
  <1>14. CASE ~ Consumes(b, id, q)
    <2>1. n.remaining \in Quantity /\ IsOpen(n)
      BY <1>4, <1>5, <1>7, <1>14 DEF IsOpen
    <2>2. Resized(r, b, id) /\ r.index[id].remaining = b.index[id].remaining - m
      BY <2>1, <1>7, <1>13 DEF Resized, Overwritten, o, s, p
    <2> QED BY <2>2, <1>6, <1>14 DEF m
  <1>15. CASE Consumes(b, id, q)
    <2> DEFINE x == Unlink(b.queue[s][p], id)
               w == [r EXCEPT !.queue[s][p] = x]
               e == EraseOrder(w, id)
               c == DestroyIfEmpty(e, s, p)
    <2>1. c = FillOrder(b, id, q)
      BY <1>6, <1>11, <1>13, <1>15 DEF Overwritten
    <2> HIDE DEF x
    <2>2. Requeued(w, r, s, p, x)
      BY <1>2, <1>12, <1>13, QueueUpdate DEF Overwritten, x
    <2> HIDE DEF w
    <2>3. Reindexed(e, w, [i \in Live(w) \ {id} |-> w.index[i]])
      BY <2>2, EraseShape DEF Requeued
    <2> HIDE DEF e
    <2>4. Swept(c, e, s, p)
      BY <2>3, <1>2, SweepShape DEF Reindexed
    <2> HIDE DEF c
    <2>5. IsBook(c) /\ c.index = e.index /\ c.queue = w.queue /\ (c.corrupt <=> b.corrupt)
      BY <2>2, <2>3, <2>4, <1>13 DEF Swept, Reindexed, Requeued, Overwritten
    <2>6. Live(c) = Live(b) \ {id} /\ \A i \in Live(c) : c.index[i] = b.index[i]
      <3>1. w.index = r.index /\ Live(w) = Live(b)
        BY <2>2, <1>13 DEF Requeued, Live, Overwritten
      <3>2. e.index = [i \in Live(b) \ {id} |-> r.index[i]]
        BY <2>3, <3>1 DEF Reindexed
      <3> QED BY <3>2, <2>5, <1>13 DEF Live, Overwritten
    <2>7. \A s2 \in Side, p2 \in Price :
             c.queue[s2][p2] = IF At(b, id, s2, p2)
                               THEN Unlink(b.queue[s2][p2], id) ELSE b.queue[s2][p2]
      BY <2>2, <2>5, <1>9, <1>13 DEF Requeued, Overwritten, x
    <2>8. /\ e.queue = c.queue
          /\ e.ladder = b.ladder
          /\ e.storage = b.storage
      BY <2>2, <2>3, <2>5, <1>13 DEF Reindexed, Requeued, Overwritten
    <2>9. \A s2 \in Side, p2 \in Price :
             p2 \in c.ladder[s2] <=> p2 \in b.ladder[s2]
                                        /\ ~ (At(b, id, s2, p2) /\ c.queue[s2][p2] = << >>)
      BY <2>4, <2>8, <1>9 DEF Swept
    <2>10. \A s2 \in Side, p2 \in Price : At(b, id, s2, p2) =>
              \A p3 \in Price :
                  c.storage[p3] = IF p3 = p2 /\ c.queue[s2][p2] = << >>
                                  THEN NoSide ELSE b.storage[p3]
      BY <2>4, <2>8, <1>9 DEF Swept
    <2>11. Removed(c, b, id)
      BY <2>5, <2>6, <2>7, <2>9, <2>10 DEF Removed
    <2> QED BY <2>1, <2>11, <1>15
  <1> QED BY <1>14, <1>15

-----------------------------------------------------------------------------
(* A book with the history of its placements, which lists the live orders  *)
(* once each, in an order that every queue follows.                        *)

QueuesFollow(b, pl) ==
    \A s \in Side, p \in Price, x, y \in OrderId :
        Precedes(b.queue[s][p], x, y) => Precedes(pl, x, y)

BookAndHistory(b, pl) ==
    /\ BookOK(b)
    /\ pl \in Seq(OrderId)
    /\ Distinct(pl)
    /\ \A x \in OrderId : Holds(pl, x) <=> x \in Live(b)
    /\ QueuesFollow(b, pl)

(* Removing an order keeps the placement history in step with the queues.  *)
LEMMA RemovedHistory ==
    ASSUME NEW b, NEW pl, BookAndHistory(b, pl), NEW id \in Live(b),
           NEW c, Removed(c, b, id)
    PROVE  BookAndHistory(c, Unlink(pl, id))
  <1> DEFINE u == Unlink(pl, id)
  <1>1. BookOK(b) /\ IsBook(b) /\ QueuesByContent(b) /\ id \in OrderId
    BY ByContent, LiveOrder DEF BookAndHistory, BookOK
  <1>2. Holds(pl, id) /\ Distinct(pl) /\ pl \in Seq(OrderId)
    BY <1>1 DEF BookAndHistory
  <1>3. /\ u \in Seq(OrderId)
        /\ Distinct(u)
        /\ \A x : Holds(u, x) <=> (Holds(pl, x) /\ x # id)
    BY <1>2, UnlinkSet
  <1>4. \A x, y : Precedes(u, x, y) <=> (Precedes(pl, x, y) /\ x # id /\ y # id)
    BY <1>2, UnlinkOrder
  <1> HIDE DEF u
  <1>5. ASSUME NEW s \in Side, NEW p \in Price, NEW x \in OrderId, NEW y \in OrderId,
               Precedes(c.queue[s][p], x, y)
        PROVE  Precedes(u, x, y)
    <2>1. Precedes(b.queue[s][p], x, y) /\ x # id /\ y # id
      <3>1. CASE At(b, id, s, p)
        <4>1. Precedes(Unlink(b.queue[s][p], id), x, y)
          BY <1>5, <3>1 DEF Removed
        <4>2. /\ b.queue[s][p] \in Seq(OrderId) /\ Distinct(b.queue[s][p])
              /\ Holds(b.queue[s][p], id)
          BY <1>1, <3>1, BookQueue DEF QueuesByContent, At
        <4> QED BY <4>1, <4>2, UnlinkOrder
      <3>2. CASE ~ At(b, id, s, p)
        <4>1. Precedes(b.queue[s][p], x, y)
          BY <1>5, <3>2 DEF Removed
        <4>2. Holds(b.queue[s][p], x) /\ Holds(b.queue[s][p], y)
          BY <4>1 DEF Precedes, Holds
        <4>3. ~ Holds(b.queue[s][p], id)
          BY <1>1, <3>2 DEF QueuesByContent, At
        <4> QED BY <4>1, <4>2, <4>3
      <3> QED BY <3>1, <3>2
    <2>2. Precedes(pl, x, y)
      BY <2>1 DEF BookAndHistory, QueuesFollow
    <2> QED BY <2>1, <2>2, <1>4
  <1>6. \A x \in OrderId : Holds(u, x) <=> x \in Live(c)
    BY <1>3 DEF BookAndHistory, Removed
  <1>7. BookOK(c)
    BY <1>1, RemovedOK
  <1>8. BookAndHistory(c, u)
    BY <1>3, <1>5, <1>6, <1>7 DEF BookAndHistory, QueuesFollow
  <1> QED BY <1>8 DEF u

(* So does adding an order at the back, and to the end of the history.     *)
LEMMA AddedHistory ==
    ASSUME NEW b, NEW pl, BookAndHistory(b, pl), NEW id \in OrderId, id \notin Live(b),
           NEW o \in Order, o.remaining \in Quantity, IsOpen(o),
           NEW c, Added(c, b, id, o)
    PROVE  BookAndHistory(c, Append(pl, id))
  <1> DEFINE a == Append(pl, id)
  <1>1. BookOK(b) /\ IsBook(b) /\ QueuesByContent(b)
    BY ByContent DEF BookAndHistory, BookOK
  <1>2. ~ Holds(pl, id) /\ Distinct(pl) /\ pl \in Seq(OrderId)
    BY <1>1 DEF BookAndHistory
  <1>3. /\ a \in Seq(OrderId)
        /\ Distinct(a)
        /\ \A x : Holds(a, x) <=> Holds(pl, x) \/ x = id
        /\ \A x, y : Precedes(a, x, y)
                       <=> Precedes(pl, x, y) \/ (Holds(pl, x) /\ y = id)
    BY <1>2, AppendSet
  <1> HIDE DEF a
  <1>5. ASSUME NEW s \in Side, NEW p \in Price, NEW x \in OrderId, NEW y \in OrderId,
               Precedes(c.queue[s][p], x, y)
        PROVE  Precedes(a, x, y)
    <2>1. CASE s = o.side /\ p = o.price
      <3>1. Precedes(Append(b.queue[s][p], id), x, y)
        BY <1>5, <2>1 DEF Added
      <3>2. /\ b.queue[s][p] \in Seq(OrderId) /\ Distinct(b.queue[s][p])
            /\ ~ Holds(b.queue[s][p], id)
        BY <1>1, BookQueue DEF QueuesByContent
      <3>3. Precedes(b.queue[s][p], x, y) \/ (Holds(b.queue[s][p], x) /\ y = id)
        BY <3>1, <3>2, AppendSet
      <3>4. Holds(b.queue[s][p], x) => Holds(pl, x)
        BY <1>1 DEF QueuesByContent, BookAndHistory
      <3> QED BY <3>3, <3>4, <1>3 DEF BookAndHistory, QueuesFollow
    <2>2. CASE ~ (s = o.side /\ p = o.price)
      <3>1. Precedes(b.queue[s][p], x, y)
        BY <1>5, <2>2 DEF Added
      <3> QED BY <3>1, <1>3 DEF BookAndHistory, QueuesFollow
    <2> QED BY <2>1, <2>2
  <1>6. \A x \in OrderId : Holds(a, x) <=> x \in Live(c)
    BY <1>3 DEF BookAndHistory, Added
  <1>7. BookOK(c)
    BY <1>1, AddedOK
  <1>8. BookAndHistory(c, a)
    BY <1>3, <1>5, <1>6, <1>7 DEF BookAndHistory, QueuesFollow
  <1> QED BY <1>8 DEF a

(* So does a change of what an order has left.                             *)
LEMMA ResizedHistory ==
    ASSUME NEW b, NEW pl, BookAndHistory(b, pl), NEW id \in Live(b),
           NEW c, Resized(c, b, id)
    PROVE  BookAndHistory(c, pl)
  <1>1. BookOK(c)
    BY ResizedOK DEF BookAndHistory
  <1> QED BY <1>1 DEF BookAndHistory, QueuesFollow, Resized

(* A new book satisfies all of this.                                       *)
LEMMA EmptyHistory == BookAndHistory(EmptyBook, << >>) /\ Live(EmptyBook) = {}
  <1> DEFINE b == EmptyBook
  <1>1. IsBook(b)
    BY DEF IsBook, IsIndex, EmptyBook, Ladders, Queues, Totals, Storage, NoSide
  <1>2. Live(b) = {}
    BY DEF Live, EmptyBook
  <1>3. \A s \in Side, p \in Price : /\ b.queue[s][p] = << >>
                                     /\ b.ladder[s] = {}
                                     /\ b.storage[p] = NoSide
    BY DEF EmptyBook
  <1> HIDE DEF b
  <1>4. QueuesMatchIndex(b)
    BY <1>2, <1>3 DEF QueuesMatchIndex, QueuedIdsLive, QueuedOnce, LiveIdsQueued, LaddersMatchQueues
  <1>5. StorageOwnsLevels(b)
    BY <1>3 DEF StorageOwnsLevels, Side, NoSide
  <1>6. BookOK(b)
    BY <1>1, <1>2, <1>4, <1>5 DEF BookOK, OrdersOpen
  <1>7. /\ << >> \in Seq(OrderId) /\ Distinct(<< >>)
        /\ \A x \in OrderId : ~ Holds(<< >>, x)
    BY DEF Distinct, Holds
  <1>8. QueuesFollow(b, << >>)
    BY <1>3 DEF QueuesFollow, Precedes
  <1>9. BookAndHistory(b, << >>)
    BY <1>2, <1>6, <1>7, <1>8 DEF BookAndHistory
  <1> QED BY <1>2, <1>9 DEF b

-----------------------------------------------------------------------------
(* The best price of a ladder and the order at the front of its level.     *)

(* A set of prices that is not empty has a lowest price.                   *)
LEMMA LowestPrice ==
    ASSUME NEW S, S \subseteq Price, S # {}
    PROVE  \E x \in S : \A y \in S : x <= y
  <1>1. S \in SUBSET Nat
    BY BookAssumption DEF Price
  <1> QED BY <1>1, LeastNat

(* And a highest one: the lowest of their distances from the top.          *)
LEMMA HighestPrice ==
    ASSUME NEW S, S \subseteq Price, S # {}
    PROVE  \E x \in S : \A y \in S : x >= y
  <1> DEFINE T == {d \in Price : MaxPrice - d \in S}
  <1>1. MaxPrice \in Nat
    BY BookAssumption
  <1>2. \A y \in S : y \in Int /\ MaxPrice - y \in Price /\ MaxPrice - (MaxPrice - y) = y
    BY <1>1 DEF Price
  <1>3. \A y \in S : MaxPrice - y \in T
    BY <1>2
  <1>4. T # {} /\ T \subseteq Price
    BY <1>3
  <1>5. \A d \in T : MaxPrice - d \in S /\ d \in Int
    BY DEF Price
  <1> HIDE DEF T
  <1>6. PICK d \in T : \A e \in T : d <= e
    BY <1>4, LowestPrice
  <1>7. ASSUME NEW y \in S PROVE MaxPrice - d >= y
    <2>1. d <= MaxPrice - y
      BY <1>3, <1>6
    <2> QED BY <2>1, <1>1, <1>2, <1>5
  <1> QED BY <1>5, <1>7

(* best_bid and best_ask return a price of their ladder that no other one  *)
(* of it beats.                                                            *)
LEMMA BestPriceIsBest ==
    ASSUME NEW b, IsBook(b), NEW s \in Side, b.ladder[s] # {}
    PROVE  /\ BestPrice(b, s) \in b.ladder[s]
           /\ BestPrice(b, s) \in Price
           /\ BestPrice(b, s) # NoPrice
           /\ \A r \in b.ladder[s] \ {BestPrice(b, s)} : Better(s, BestPrice(b, s), r)
  <1> DEFINE S == b.ladder[s]
  <1>1. S \subseteq Price /\ S # {}
    BY DEF IsBook, Ladders
  <1>2. \A p \in S : p \in Int /\ p # NoPrice
    BY <1>1, BookAssumption DEF Price, NoPrice
  <1>3. BestPrice(b, s) = CHOOSE p \in S : \A r \in S \ {p} : Better(s, p, r)
    BY <1>1 DEF BestPrice
  <1> HIDE DEF S
  <1>4. \E p \in S : \A r \in S \ {p} : Better(s, p, r)
    <2>1. CASE s = "Buy"
      <3>1. PICK x \in S : \A y \in S : x >= y
        BY <1>1, HighestPrice
      <3> QED BY <3>1, <2>1, <1>2 DEF Better
    <2>2. CASE s = "Sell"
      <3>1. PICK x \in S : \A y \in S : x <= y
        BY <1>1, LowestPrice
      <3> QED BY <3>1, <2>2, <1>2 DEF Better
    <2> QED BY <2>1, <2>2 DEF Side
  <1>5. BestPrice(b, s) \in S /\ \A r \in S \ {BestPrice(b, s)} : Better(s, BestPrice(b, s), r)
    BY <1>3, <1>4
  <1> QED BY <1>1, <1>2, <1>5 DEF S

(* In a consistent book the best order is live, at the best price and at   *)
(* the front of its level; the null pointer means an empty ladder.         *)
LEMMA BestOrderIsFront ==
    ASSUME NEW b, BookOK(b), NEW s \in Side, b.ladder[s] # {}
    PROVE  LET id == BestOrder(b, s)
               p  == BestPrice(b, s)
           IN  /\ id # 0
               /\ IsFront(b, id)
               /\ b.index[id].side = s
               /\ b.index[id].price = p
               /\ \A x \in Live(b) : At(b, x, s, p) /\ x # id
                      => Precedes(b.queue[s][p], id, x)
  <1> DEFINE p == BestPrice(b, s)
             seq == b.queue[s][p]
             id == Head(seq)
  <1>1. IsBook(b) /\ QueuesByContent(b)
    BY ByContent DEF BookOK
  <1>2. p \in b.ladder[s] /\ p \in Price
    BY <1>1, BestPriceIsBest
  <1>3. seq # << >> /\ seq \in Seq(OrderId)
    BY <1>1, <1>2, BookQueue DEF QueuesByContent
  <1>4. BestOrder(b, s) = id
    BY <1>3 DEF BestOrder
  <1> HIDE DEF p, seq
  <1>5. Len(seq) \in Nat /\ 1 \in DOMAIN seq /\ seq[1] = id /\ DOMAIN seq = 1 .. Len(seq)
        /\ id \in OrderId
    BY <1>3
  <1>6. Holds(seq, id)
    BY <1>5 DEF Holds
  <1> HIDE DEF id
  <1>7. id \in Live(b) /\ b.index[id].side = s /\ b.index[id].price = p
    BY <1>1, <1>2, <1>6 DEF QueuesByContent, seq
  <1>8. IsFront(b, id)
    BY <1>7 DEF IsFront, FillFront, id, seq
  <1>9. id # 0
    BY <1>5, BookAssumption
  <1>10. ASSUME NEW x \in Live(b), At(b, x, s, p), x # id
         PROVE  Precedes(seq, id, x)
    <2>1. Holds(seq, x)
      BY <1>1, <1>10 DEF QueuesByContent, At, seq
    <2>2. PICK k \in 1 .. Len(seq) : seq[k] = x
      BY <2>1, <1>5 DEF Holds
    <2>3. k # 1
      BY <2>2, <1>5, <1>10
    <2>4. 1 < k
      BY <2>2, <2>3, <1>5
    <2> QED BY <2>2, <2>4, <1>5 DEF Precedes
  <1> QED BY <1>4, <1>7, <1>8, <1>9, <1>10 DEF p, seq

-----------------------------------------------------------------------------
(* What each step of a mutator does to the running totals.                 *)

(* c has the total t at (s, p) and the totals of b elsewhere.              *)
Retotalled(c, b, s, p, t) ==
    \A s2 \in Side, p2 \in Price :
        c.total[s2][p2] = IF s2 = s /\ p2 = p THEN t ELSE b.total[s2][p2]

(* The fields other than the total do not matter to it.                    *)
LEMMA TotalKept ==
    ASSUME NEW b, IsBook(b), NEW s \in Side, NEW p \in Price, NEW id, NEW o
    PROVE  /\ PutOrder(b, id, o).total = b.total
           /\ EraseOrder(b, id).total = b.total
           /\ DestroyIfEmpty(b, s, p).total = b.total
  <1>1. PutOrder(b, id, o).total = b.total
    BY DEF PutOrder, IsBook
  <1>2. EraseOrder(b, id).total = b.total
    BY DEF EraseOrder, IsBook
  <1>3. DestroyIfEmpty(b, s, p).total = b.total
    BY DEF DestroyIfEmpty, DestroyLevel, IsBook
  <1> QED BY <1>1, <1>2, <1>3

(* One total is written.                                                   *)
LEMMA TotalWritten ==
    ASSUME NEW b, IsBook(b), NEW s \in Side, NEW p \in Price, NEW t, NEW c,
           c.total = [b.total EXCEPT ![s][p] = t]
    PROVE  Retotalled(c, b, s, p, t)
  <1>1. b.total \in [Side -> [Price -> Int]]
    BY DEF IsBook, Totals
  <1> QED BY <1>1 DEF Retotalled

(* Appending to a level adds to its total, removing takes from it, and a   *)
(* new level starts at zero.                                               *)
LEMMA LevelTotals ==
    ASSUME NEW b, IsBook(b), NEW s \in Side, NEW p \in Price, NEW id, NEW q
    PROVE  /\ Retotalled(LevelAppend(b, s, p, id, q), b, s, p, b.total[s][p] + q)
           /\ Retotalled(LevelRemove(b, s, p, id, q), b, s, p, b.total[s][p] - q)
           /\ Retotalled(GetOrCreateLevel(b, s, p), b, s, p,
                         IF p \in b.ladder[s] THEN b.total[s][p] ELSE 0)
  <1>1. LevelAppend(b, s, p, id, q).total = [b.total EXCEPT ![s][p] = b.total[s][p] + q]
    BY DEF LevelAppend, IsBook
  <1>2. LevelRemove(b, s, p, id, q).total = [b.total EXCEPT ![s][p] = b.total[s][p] - q]
    BY DEF LevelRemove, IsBook
  <1>3. CASE p \notin b.ladder[s]
    <2>1. GetOrCreateLevel(b, s, p).total = [b.total EXCEPT ![s][p] = 0]
      BY <1>3 DEF GetOrCreateLevel, IsBook
    <2> QED BY <1>1, <1>2, <1>3, <2>1, TotalWritten
  <1>4. CASE p \in b.ladder[s]
    <2>1. GetOrCreateLevel(b, s, p) = b
      BY <1>4 DEF GetOrCreateLevel
    <2>2. Retotalled(b, b, s, p, b.total[s][p])
      BY DEF Retotalled
    <2> QED BY <1>1, <1>2, <1>4, <2>1, <2>2, TotalWritten
  <1> QED BY <1>3, <1>4

(* Joining a level, which is created when it is missing.                   *)
LEMMA JoinTotals ==
    ASSUME NEW b, IsBook(b), LaddersMatchQueues(b), NEW s \in Side, NEW p \in Price,
           NEW id \in OrderId, NEW q \in Int
    PROVE  Retotalled(LevelAppend(GetOrCreateLevel(b, s, p), s, p, id, q), b, s, p,
                      (IF p \in b.ladder[s] THEN b.total[s][p] ELSE 0) + q)
  <1> DEFINE g == GetOrCreateLevel(b, s, p)
             t == IF p \in b.ladder[s] THEN b.total[s][p] ELSE 0
  <1>1. Retotalled(g, b, s, p, t)
    BY LevelTotals
  <1>2. IsBook(g)
    BY CreateShape DEF Created
  <1> HIDE DEF g, t
  <1>3. Retotalled(LevelAppend(g, s, p, id, q), g, s, p, g.total[s][p] + q)
    BY <1>2, LevelTotals
  <1>4. Retotalled(LevelAppend(g, s, p, id, q), b, s, p, t + q)
    BY <1>1, <1>3 DEF Retotalled
  <1> QED BY <1>4 DEF g, t

(* insert adds what the order has left.                                    *)
LEMMA InsertTotals ==
    ASSUME NEW b, BookOK(b), NEW id \in OrderId, NEW o \in Order
    PROVE  Retotalled(InsertOrder(b, id, o), b, o.side, o.price,
                      (IF o.price \in b.ladder[o.side] THEN b.total[o.side][o.price] ELSE 0)
                      + o.remaining)
  <1> DEFINE a == LevelAppend(GetOrCreateLevel(b, o.side, o.price),
                              o.side, o.price, id, o.remaining)
             t == IF o.price \in b.ladder[o.side] THEN b.total[o.side][o.price] ELSE 0
  <1>1. o.side \in Side /\ o.price \in Price /\ o.remaining \in Int
    BY BookAssumption DEF Order
  <1>2. IsBook(b) /\ LaddersMatchQueues(b)
    BY DEF BookOK, QueuesMatchIndex
  <1>3. IsBook(a)
    BY <1>1, <1>2, AppendShape DEF Appended
  <1>4. Retotalled(a, b, o.side, o.price, t + o.remaining)
    BY <1>1, <1>2, JoinTotals
  <1>5. InsertOrder(b, id, o) = PutOrder(a, id, o)
    BY DEF InsertOrder
  <1> HIDE DEF a, t
  <1>6. PutOrder(a, id, o).total = a.total
    BY <1>1, <1>3, TotalKept
  <1>7. Retotalled(InsertOrder(b, id, o), b, o.side, o.price, t + o.remaining)
    BY <1>4, <1>5, <1>6 DEF Retotalled
  <1> QED BY <1>7 DEF t

(* cancel, and the first half of a replacement, take it from the level.    *)
LEMMA CancelTotals ==
    ASSUME NEW b, BookOK(b), NEW id \in Live(b)
    PROVE  LET s == b.index[id].side
               p == b.index[id].price
           IN  /\ Retotalled(CancelOrder(b, id), b, s, p,
                             b.total[s][p] - b.index[id].remaining)
               /\ CancelOrder(b, id).total = Detach(b, id).total
  <1> DEFINE s == b.index[id].side
             p == b.index[id].price
             q == b.index[id].remaining
             r == LevelRemove(b, s, p, id, q)
             d == DestroyIfEmpty(r, s, p)
  <1>1. IsBook(b) /\ QueuesByContent(b) /\ s \in Side /\ p \in Price /\ q \in Int
    BY LiveOrder, ByContent DEF BookOK
  <1>2. d = Detach(b, id) /\ CancelOrder(b, id) = EraseOrder(d, id)
    BY DEF Detach, CancelOrder
  <1>3. Detached(d, b, id)
    BY <1>2, DetachShape
  <1>4. Holds(b.queue[s][p], id)
    BY <1>1 DEF QueuesByContent
  <1> HIDE DEF s, p, q
  <1>5. IsBook(r)
    BY <1>1, <1>4, LevelRemoveShape DEF Requeued
  <1>6. Retotalled(r, b, s, p, b.total[s][p] - q)
    BY <1>1, LevelTotals
  <1> HIDE DEF r
  <1>7. d.total = r.total
    BY <1>1, <1>5, TotalKept
  <1> HIDE DEF d
  <1>8. EraseOrder(d, id).total = d.total
    BY <1>1, <1>3, TotalKept DEF Detached
  <1>9. Retotalled(EraseOrder(d, id), b, s, p, b.total[s][p] - q)
    BY <1>6, <1>7, <1>8 DEF Retotalled
  <1> QED BY <1>2, <1>8, <1>9 DEF s, p, q

(* The second half of a replacement adds it at the new price.              *)
LEMMA ReplaceTotals ==
    ASSUME NEW b, BookOK(b), NEW id \in Live(b), NEW q \in Quantity, NEW p \in Price
    PROVE  LET s == b.index[id].side
               e == CancelOrder(b, id)
           IN  Retotalled(ReplaceOrder(b, id, q, p), e, s, p,
                          (IF p \in e.ladder[s] THEN e.total[s][p] ELSE 0) + q)
  <1> DEFINE o == b.index[id]
             s == o.side
             n == [o EXCEPT !.price = p, !.remaining = q, !.status = "Open"]
             d == Detach(b, id)
             e == CancelOrder(b, id)
             a == PutOrder(d, id, n)
             t(x) == IF p \in x.ladder[s] THEN x.total[s][p] ELSE 0
  <1>1. o \in Order /\ id \in OrderId /\ s \in Side
    BY LiveOrder DEF BookOK
  <1>2. q \in Int /\ n \in Order
    <2>1. q \in Int
      BY BookAssumption DEF Quantity
    <2> QED BY <2>1, ReplaceShape
  <1>3. ReplaceOrder(b, id, q, p) = LevelAppend(GetOrCreateLevel(a, s, p), s, p, id, q)
    BY DEF ReplaceOrder
  <1>4. Detached(d, b, id) /\ Removed(e, b, id) /\ BookOK(e) /\ e.total = d.total
    BY DetachShape, CancelShape, RemovedOK, CancelTotals
  <1> HIDE DEF o, s, n, d, e
  <1>5. Reindexed(a, d, [i \in Live(d) \cup {id} |-> IF i = id THEN n ELSE d.index[i]])
    BY <1>1, <1>2, <1>4, PutShape DEF Detached
  <1>6. a.total = e.total
    BY <1>1, <1>4, TotalKept DEF Detached
  <1> HIDE DEF a
  <1>7. /\ \A s2 \in Side, p2 \in Price : a.queue[s2][p2] = e.queue[s2][p2]
        /\ \A s2 \in Side, p2 \in Price : p2 \in a.ladder[s2] <=> p2 \in e.ladder[s2]
    BY <1>4, <1>5 DEF Detached, Removed, Reindexed
  <1>8. IsBook(a) /\ LaddersMatchQueues(a)
    BY <1>4, <1>5, <1>7 DEF Reindexed, BookOK, QueuesMatchIndex, LaddersMatchQueues
  <1>9. t(a) = t(e)
    BY <1>1, <1>6, <1>7
  <1>10. Retotalled(ReplaceOrder(b, id, q, p), a, s, p, t(a) + q)
    BY <1>1, <1>2, <1>3, <1>8, JoinTotals
  <1>11. Retotalled(ReplaceOrder(b, id, q, p), e, s, p, t(e) + q)
    BY <1>6, <1>9, <1>10 DEF Retotalled
  <1> QED BY <1>11 DEF s, o, e

(* reduce, and modify to less, take the difference.                        *)
LEMMA ShrinkTotals ==
    ASSUME NEW b, BookOK(b), NEW id \in Live(b), NEW q \in Quantity
    PROVE  LET s == b.index[id].side
               p == b.index[id].price
           IN  Retotalled(ShrinkOrder(b, id, q), b, s, p,
                          b.total[s][p] - (b.index[id].remaining - q))
  <1> DEFINE o == b.index[id]
             t == b.total[o.side][o.price] - (o.remaining - q)
  <1>1. IsBook(b) /\ o.side \in Side /\ o.price \in Price
    BY LiveOrder DEF BookOK
  <1>2. ShrinkOrder(b, id, q).total = [b.total EXCEPT ![o.side][o.price] = t]
    BY <1>1 DEF ShrinkOrder, IsBook
  <1> QED BY <1>1, <1>2, TotalWritten

(* fill takes what it filled, which is all the order had when it is        *)
(* consumed.                                                               *)
LEMMA FillTotals ==
    ASSUME NEW b, BookOK(b), NEW id, IsFront(b, id), NEW q \in Int
    PROVE  LET s == b.index[id].side
               p == b.index[id].price
           IN  /\ Retotalled(FillOrder(b, id, q), b, s, p,
                             b.total[s][p] - FillQuantity(b, id, q))
               /\ Consumes(b, id, q) => FillQuantity(b, id, q) = b.index[id].remaining
  <1> DEFINE o == b.index[id]
             s == o.side
             p == o.price
             m == FillQuantity(b, id, q)
             st == IF Consumes(b, id, q) THEN "Filled" ELSE o.status
             n == [o EXCEPT !.remaining = @ - m, !.status = st]
             r == [b EXCEPT !.total[s][p] = @ - m, !.index[id] = n]
             w == [r EXCEPT !.queue[s][p] = Tail(@)]
  <1>1. id \in Live(b) /\ FillFront(b, id) = id
    BY DEF IsFront
  <1>2. /\ IsBook(b) /\ s \in Side /\ p \in Price
        /\ o.remaining \in Int /\ o.remaining \in Quantity
    BY <1>1, LiveOrder DEF BookOK, OrdersOpen
  <1>3. Consumes(b, id, q) => m = o.remaining
    BY <1>1, <1>2, BookAssumption DEF Consumes, FillQuantity, Quantity
  <1>4. FillOrder(b, id, q) = IF Consumes(b, id, q)
                              THEN DestroyIfEmpty(EraseOrder(w, id), s, p)
                              ELSE r
    BY <1>1 DEF FillOrder
  <1> HIDE DEF m, n
  <1>5. r.total = [b.total EXCEPT ![s][p] = b.total[s][p] - m]
    BY <1>2 DEF IsBook
  <1>6. DestroyIfEmpty(EraseOrder(w, id), s, p).total = r.total
    BY <1>2 DEF IsBook, DestroyIfEmpty, DestroyLevel, EraseOrder
  <1>7. FillOrder(b, id, q).total = [b.total EXCEPT ![s][p] = b.total[s][p] - m]
    BY <1>4, <1>5, <1>6
  <1>8. Retotalled(FillOrder(b, id, q), b, s, p, b.total[s][p] - m)
    BY <1>2, <1>7, TotalWritten
  <1> QED BY <1>3, <1>8 DEF m
=============================================================================
