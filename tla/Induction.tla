----------------------------- MODULE Induction ------------------------------
(***************************************************************************)
(* Induction over numbers, finite sets and what is defined by recursion    *)
(* over them: a function that a recursion describes exists, which is what  *)
(* CHOOSE picks in the folds of the library. From that: what a filter      *)
(* leaves of a sequence, and how sums over finite sets add up.             *)
(***************************************************************************)
EXTENDS Integers, SequencesExt, FiniteSetTheorems, SequenceTheorems, WellFoundedInduction, TLAPS

(* A set that has 0 and with a number its successor has all numbers.       *)
LEMMA SetInduction ==
  ASSUME NEW S, 0 \in S, \A n \in Nat : n \in S => n + 1 \in S
  PROVE  Nat \subseteq S
<1> DEFINE R == OpToRel(<, Nat)
           T == Nat \ S
<1>1. SUFFICES ASSUME T # {} PROVE FALSE
  OBVIOUS
<1>2. \E x \in T : \A y \in T : ~ (<<y, x>> \in R)
  <2>1. IsWellFoundedOn(R, Nat)
    BY NatLessThanWellFounded
  <2>2. T \subseteq Nat
    OBVIOUS
  <2> HIDE DEF R, T
  <2> QED BY <1>1, <2>1, <2>2, WFMin
<1>3. PICK x \in T : \A y \in T : ~ (y < x)
  BY <1>2 DEF OpToRel
<1>4. x # 0 /\ x - 1 \in Nat /\ x - 1 < x
  OBVIOUS
<1> QED BY <1>3, <1>4

(* If a number is in a set, one of those up to it is the least in it.      *)
LEMMA LeastNumber ==
  ASSUME NEW S, NEW n \in Nat, n \in S
  PROVE  \E m \in Nat : m \in S /\ m <= n /\ \A k \in 0 .. m - 1 : k \notin S
<1> DEFINE G == {k \in Nat : \A j \in 0 .. k : j \in S => \E m \in Nat : m \in S /\ m <= j /\ \A i \in 0 .. m - 1 : i \notin S}
<1>1. 0 \in G
  OBVIOUS
<1>2. ASSUME NEW k \in Nat, k \in G PROVE k + 1 \in G
  <2>1. SUFFICES ASSUME k + 1 \in S
                 PROVE  \E m \in Nat : m \in S /\ m <= k + 1 /\ \A i \in 0 .. m - 1 : i \notin S
    BY <1>2
  <2>2. CASE \E j \in 0 .. k : j \in S
    BY <1>2, <2>2
  <2>3. CASE \A j \in 0 .. k : j \notin S
    BY <2>1, <2>3
  <2> QED BY <2>2, <2>3
<1>3. Nat \subseteq G
  <2> HIDE DEF G
  <2> QED BY <1>1, <1>2, SetInduction
<1> QED BY <1>3

(* A set that has every subset of a finite X all of whose proper subsets   *)
(* it has, has them all.                                                   *)
LEMMA FiniteInduction ==
  ASSUME NEW X, IsFiniteSet(X), NEW S,
         \A A \in SUBSET X : (\A B \in SUBSET A : B # A => B \in S) => A \in S
  PROVE  SUBSET X \subseteq S
<1> DEFINE R == StrictSubsetOrdering(X)
           T == (SUBSET X) \ S
<1>1. SUFFICES ASSUME T # {} PROVE FALSE
  OBVIOUS
<1>2. \E A \in T : \A B \in T : ~ (<<B, A>> \in R)
  <2>1. IsWellFoundedOn(R, SUBSET X)
    BY FS_StrictSubsetOrderingWellFounded, FS_FiniteSubsetsOfFinite
  <2>2. T \subseteq SUBSET X
    OBVIOUS
  <2> HIDE DEF R, T
  <2> QED BY <1>1, <2>1, <2>2, WFMin
<1>3. PICK A \in T : \A B \in T : ~ (<<B, A>> \in R)
  BY <1>2
<1>4. \A B \in SUBSET A : B # A => B \in S
  BY <1>3 DEF StrictSubsetOrdering
<1> QED BY <1>3, <1>4

(* f follows the recursion from 0 upwards.                                 *)
RecursUp(f, base, rule) == f[0] = base /\ \A n \in Nat : f[n + 1] = rule[<<n, f[n]>>]

(* Recursion over the natural numbers defines a function.                  *)
LEMMA NatRecursion ==
  ASSUME NEW T, NEW base \in T, NEW rule \in [Nat \X T -> T]
  PROVE  \E f \in [Nat -> T] : RecursUp(f, base, rule)
<1> DEFINE Upto(n) == {g \in [Nat -> T] : g[0] = base /\ \A k \in 0 .. n - 1 : g[k + 1] = rule[<<k, g[k]>>]}
           Has == {n \in Nat : Upto(n) # {}}
           Same == {k \in Nat : \A m, n \in Nat : k <= m /\ k <= n =>
                       \A g \in Upto(m), h \in Upto(n) : g[k] = h[k]}
           best(n) == CHOOSE g : g \in Upto(n)
           f == [n \in Nat |-> best(n)[n]]
<1>1. Nat \subseteq Has
  <2>1. 0 \in Has
    <3>1. [k \in Nat |-> base] \in Upto(0)
      OBVIOUS
    <3> QED BY <3>1
  <2>2. ASSUME NEW n \in Nat, n \in Has PROVE n + 1 \in Has
    <3>1. PICK g \in Upto(n) : TRUE
      BY <2>2
    <3> DEFINE next == rule[<<n, g[n]>>]
               h == [k \in Nat |-> IF k = n + 1 THEN next ELSE g[k]]
    <3>2. g \in [Nat -> T] /\ next \in T
      BY <3>1
    <3>3. h \in [Nat -> T]
      BY <3>2
    <3>4. h[0] = base
      BY <3>1
    <3>5. ASSUME NEW k \in 0 .. (n + 1) - 1 PROVE h[k + 1] = rule[<<k, h[k]>>]
      <4>1. h[k] = g[k]
        OBVIOUS
      <4>2. CASE k = n
        BY <4>1, <4>2
      <4>3. CASE k # n
        <5>1. k \in 0 .. n - 1 /\ k + 1 # n + 1 /\ k + 1 \in Nat
          BY <4>3
        <5> QED BY <3>1, <4>1, <5>1
      <4> QED BY <4>2, <4>3
    <3> HIDE DEF h
    <3>6. h \in Upto(n + 1)
      BY <3>3, <3>4, <3>5
    <3> QED BY <3>6
  <2> HIDE DEF Has
  <2> QED BY <2>1, <2>2, SetInduction
<1>2. Nat \subseteq Same
  <2>1. 0 \in Same
    OBVIOUS
  <2>2. ASSUME NEW k \in Nat, k \in Same PROVE k + 1 \in Same
    <3>1. SUFFICES ASSUME NEW m \in Nat, NEW n \in Nat, k + 1 <= m, k + 1 <= n,
                          NEW g \in Upto(m), NEW h \in Upto(n)
                   PROVE  g[k + 1] = h[k + 1]
      OBVIOUS
    <3>2. k <= m /\ k <= n /\ k \in 0 .. m - 1 /\ k \in 0 .. n - 1
      BY <3>1
    <3>3. g[k] = h[k]
      <4> HIDE DEF Upto
      <4> QED BY <2>2, <3>2
    <3>4. g[k + 1] = rule[<<k, g[k]>>] /\ h[k + 1] = rule[<<k, h[k]>>]
      BY <3>2
    <3> QED BY <3>3, <3>4
  <2> HIDE DEF Same
  <2> QED BY <2>1, <2>2, SetInduction
<1>3. \A n \in Nat : best(n) \in Upto(n)
  <2> HIDE DEF Upto
  <2> QED BY <1>1
<1> HIDE DEF best
<1>4. \A n \in Nat : f[n] = best(n)[n] /\ f[n] \in T
  BY <1>3
<1>5. f[0] = base
  BY <1>3
<1>6. ASSUME NEW n \in Nat PROVE f[n + 1] = rule[<<n, f[n]>>]
  <2>1. best(n) \in Upto(n) /\ best(n + 1) \in Upto(n + 1)
    BY <1>3
  <2>2. best(n)[n] = best(n + 1)[n]
    <3>1. n \in Same
      <4> HIDE DEF Same
      <4> QED BY <1>2
    <3>2. n + 1 \in Nat /\ n <= n /\ n <= n + 1
      OBVIOUS
    <3> HIDE DEF Upto
    <3> QED BY <2>1, <3>1, <3>2
  <2>3. best(n + 1)[n + 1] = rule[<<n, best(n + 1)[n]>>]
    BY <2>1
  <2> HIDE DEF Upto
  <2> QED BY <2>2, <2>3, <1>4
<1> HIDE DEF f
<1>7. f \in [Nat -> T]
  BY <1>4 DEF f
<1> QED BY <1>5, <1>6, <1>7 DEF RecursUp

(* pick[A] is a member of A.                                               *)
Chooses(pick, X) == \A A \in SUBSET X : A # {} => pick[A] \in A

(* f follows the recursion that takes a member away at a time.             *)
Recurs(f, X, base, pick, rule) ==
    /\ f[{}] = base
    /\ \A A \in SUBSET X : A # {} => f[A] = rule[<<pick[A], f[A \ {pick[A]}]>>]

(* Recursion over the subsets of a finite set, a chosen member taken away  *)
(* at each step, defines a function.                                       *)
LEMMA FiniteRecursion ==
  ASSUME NEW X, IsFiniteSet(X), NEW T, NEW base \in T,
         NEW pick, Chooses(pick, X),
         NEW rule \in [X \X T -> T]
  PROVE  \E f \in [SUBSET X -> T] : Recurs(f, X, base, pick, rule)
<1> DEFINE Value(g, A) == IF A = {} THEN base ELSE rule[<<pick[A], g[A \ {pick[A]}]>>]
           Below(A) == {g \in [SUBSET X -> T] : \A B \in SUBSET A : g[B] = Value(g, B)}
           Same == {B \in SUBSET X : \A C, D \in SUBSET X : B \subseteq C /\ B \subseteq D =>
                       \A g \in Below(C), h \in Below(D) : g[B] = h[B]}
           Has == {A \in SUBSET X : Below(A) # {}}
           best(A) == CHOOSE g : g \in Below(A)
           f == [A \in SUBSET X |-> best(A)[A]]
<1>1. ASSUME NEW A \in SUBSET X, A # {}
      PROVE  pick[A] \in A /\ A \ {pick[A]} \in SUBSET X /\ A \ {pick[A]} # A
  BY <1>1 DEF Chooses
<1>2. ASSUME NEW g \in [SUBSET X -> T], NEW A \in SUBSET X PROVE Value(g, A) \in T
  BY <1>1
<1>3. SUBSET X \subseteq Same
  <2>1. ASSUME NEW B \in SUBSET X, \A C \in SUBSET B : C # B => C \in Same
        PROVE  B \in Same
    <3> HIDE DEF Below, Value
    <3>1. SUFFICES ASSUME NEW C \in SUBSET X, NEW D \in SUBSET X, B \subseteq C, B \subseteq D,
                          NEW g \in Below(C), NEW h \in Below(D)
                   PROVE  g[B] = h[B]
      OBVIOUS
    <3>2. g[B] = Value(g, B) /\ h[B] = Value(h, B)
      BY <3>1 DEF Below
    <3>3. CASE B = {}
      BY <3>2, <3>3 DEF Value
    <3>4. CASE B # {}
      <4> DEFINE E == B \ {pick[B]}
      <4>1. E \in Same /\ E \subseteq C /\ E \subseteq D
        <5> HIDE DEF Same
        <5> QED BY <1>1, <2>1, <3>1, <3>4
      <4>2. g[E] = h[E]
        <5> HIDE DEF E
        <5> QED BY <4>1
      <4> QED BY <3>2, <3>4, <4>2 DEF Value
    <3> QED BY <3>3, <3>4
  <2> HIDE DEF Same
  <2> QED BY <2>1, FiniteInduction
<1>4. SUBSET X \subseteq Has
  <2>1. ASSUME NEW A \in SUBSET X, \A B \in SUBSET A : B # A => B \in Has
        PROVE  A \in Has
    <3> DEFINE last == IF A = {} THEN base ELSE rule[<<pick[A], best(A \ {pick[A]})[A \ {pick[A]}]>>]
               h == [B \in SUBSET X |-> IF B = A THEN last
                                        ELSE IF B \subseteq A THEN best(B)[B] ELSE base]
    <3>1. ASSUME NEW B \in SUBSET A, B # A
          PROVE  best(B) \in Below(B) /\ best(B) \in [SUBSET X -> T]
      <4>1. Below(B) # {} /\ Below(B) \subseteq [SUBSET X -> T]
        BY <2>1, <3>1
      <4> HIDE DEF Below
      <4> QED BY <4>1
    <3> HIDE DEF best
    <3>2. h \in [SUBSET X -> T]
      <4>1. last \in T
        BY <1>1, <3>1
      <4>2. \A B \in SUBSET A : B # A => best(B)[B] \in T
        BY <3>1
      <4> HIDE DEF last
      <4> QED BY <4>1, <4>2
    <3>3. ASSUME NEW B \in SUBSET A PROVE h[B] = Value(h, B)
      <4>1. CASE B = A
        BY <1>1, <4>1
      <4>2. CASE B # A /\ B = {}
        <5>1. best(B) \in Below(B)
          BY <3>1, <4>2
        <5> QED BY <4>2, <5>1
      <4>3. CASE B # A /\ B # {}
        <5> DEFINE C == B \ {pick[B]}
        <5>1. C \in SUBSET X /\ C # B /\ C \in SUBSET A /\ C # A /\ C \subseteq B
          BY <1>1, <4>3
        <5>2. h[B] = best(B)[B] /\ h[C] = best(C)[C]
          BY <4>3, <5>1
        <5>3. best(B) \in Below(B) /\ best(C) \in Below(C)
          BY <3>1, <4>3, <5>1
        <5>4. best(B)[C] = best(C)[C]
          <6>1. C \in Same
            <7> HIDE DEF Same
            <7> QED BY <1>3, <5>1
          <6> HIDE DEF Below, C
          <6> QED BY <5>1, <5>3, <6>1
        <5>5. best(B)[B] = rule[<<pick[B], best(B)[C]>>]
          BY <4>3, <5>3
        <5> HIDE DEF h, Below
        <5> QED BY <4>3, <5>2, <5>4, <5>5
      <4> QED BY <4>1, <4>2, <4>3
    <3> HIDE DEF h
    <3>4. h \in Below(A)
      BY <3>2, <3>3
    <3> QED BY <3>4
  <2> HIDE DEF Has
  <2> QED BY <2>1, FiniteInduction
<1>5. \A A \in SUBSET X : best(A) \in Below(A) /\ best(A) \in [SUBSET X -> T]
  <2>1. \A A \in SUBSET X : Below(A) # {} /\ Below(A) \subseteq [SUBSET X -> T]
    <3>1. \A A \in SUBSET X : A \in Has
      <4> HIDE DEF Has
      <4> QED BY <1>4
    <3> QED BY <3>1
  <2> HIDE DEF Below
  <2> QED BY <2>1
<1> HIDE DEF best
<1>6. f \in [SUBSET X -> T]
  BY <1>5
<1>7. ASSUME NEW A \in SUBSET X PROVE f[A] = Value(f, A)
  <2>1. f[A] = best(A)[A] /\ best(A) \in Below(A)
    BY <1>5
  <2>2. CASE A = {}
    BY <2>1, <2>2
  <2>3. CASE A # {}
    <3> DEFINE C == A \ {pick[A]}
    <3>1. C \in SUBSET X /\ C \subseteq A /\ f[C] = best(C)[C] /\ best(C) \in Below(C)
      BY <1>1, <1>5, <2>3
    <3>2. best(A)[C] = best(C)[C]
      <4>1. C \in Same
        <5> HIDE DEF Same
        <5> QED BY <1>3, <3>1
      <4> HIDE DEF Below, C
      <4> QED BY <2>1, <3>1, <4>1
    <3>3. best(A)[A] = rule[<<pick[A], best(A)[C]>>]
      BY <2>1, <2>3
    <3> HIDE DEF f, Below
    <3> QED BY <2>1, <2>3, <3>1, <3>2, <3>3
  <2> QED BY <2>2, <2>3
<1> HIDE DEF f
<1>8. Recurs(f, X, base, pick, rule)
  BY <1>7 DEF Recurs
<1> QED BY <1>6, <1>8

(* A finite set of numbers has its maximum, and nothing above it.          *)
LEMMA MaxOfFinite ==
  ASSUME NEW S \in SUBSET Int, IsFiniteSet(S), S # {}
  PROVE  Max(S) \in S /\ \A y \in S : Max(S) >= y
<1> DEFINE T == {A \in SUBSET S : A # {} => \E x \in A : \A y \in A : x >= y}
<1>1. ASSUME NEW A \in SUBSET S, \A B \in SUBSET A : B # A => B \in T
      PROVE  A \in T
  <2>1. SUFFICES ASSUME A # {} PROVE \E x \in A : \A y \in A : x >= y
    OBVIOUS
  <2>2. PICK e \in A : TRUE
    BY <2>1
  <2>3. A \ {e} \in T
    BY <1>1
  <2>4. CASE A \ {e} = {}
    BY <2>2, <2>4
  <2>5. CASE A \ {e} # {}
    <3>1. PICK x \in A \ {e} : \A y \in A \ {e} : x >= y
      BY <2>3, <2>5
    <3>2. x \in Int /\ e \in Int
      OBVIOUS
    <3>3. CASE x >= e
      BY <3>1, <3>3
    <3>4. CASE e >= x
      <4>1. \A y \in A : e >= y
        BY <3>1, <3>2, <3>4
      <4> QED BY <4>1
    <3> QED BY <3>2, <3>3, <3>4
  <2> QED BY <2>4, <2>5
<1>2. SUBSET S \subseteq T
  <2> HIDE DEF T
  <2> QED BY <1>1, FiniteInduction
<1>3. \E x \in S : \A y \in S : x >= y
  BY <1>2
<1> QED BY <1>3 DEF Max

(* seq without the members that are in gone. *)
Kept(seq, gone) == FoldLeft(LAMBDA s, g : IF g \in gone THEN s ELSE Append(s, g), << >>, seq)

(* The filter goes through the sequence from its first element to its      *)
(* last.                                                                   *)
LEMMA KeptSteps ==
  ASSUME NEW H, NEW seq \in Seq(H), NEW gone
  PROVE  \E it : /\ it[0] = << >>
                 /\ \A k \in 1 .. Len(seq) :
                       it[k] = IF seq[k] \in gone THEN it[k - 1] ELSE Append(it[k - 1], seq[k])
                 /\ Kept(seq, gone) = it[Len(seq)]
<1> DEFINE n == Len(seq)
           pick == [A \in SUBSET (1 .. n) |-> Max(A)]
           rule == [p \in (1 .. n) \X Seq(H) |->
                       IF seq[p[1]] \in gone THEN p[2] ELSE Append(p[2], seq[p[1]])]
           Eqn(f) == f = [s \in SUBSET DOMAIN seq |->
                            IF s = {} THEN << >>
                            ELSE IF seq[Max(s)] \in gone THEN f[s \ {Max(s)}]
                                 ELSE Append(f[s \ {Max(s)}], seq[Max(s)])]
           iter == CHOOSE f : Eqn(f)
<1>1. n \in Nat /\ DOMAIN seq = 1 .. n /\ IsFiniteSet(1 .. n) /\ \A k \in 1 .. n : seq[k] \in H
  BY FS_Interval
<1>2. ASSUME NEW A \in SUBSET (1 .. n), A # {}
      PROVE  pick[A] = Max(A) /\ Max(A) \in A /\ \A y \in A : Max(A) >= y
  <2>1. A \in SUBSET Int
    BY <1>1
  <2>2. IsFiniteSet(A)
    <3> HIDE DEF n
    <3> QED BY <1>1, FS_Subset
  <2> QED BY <1>2, <2>1, <2>2, MaxOfFinite
<1>3. rule \in [(1 .. n) \X Seq(H) -> Seq(H)]
  BY <1>1
<1>4. \E f : Eqn(f)
  <2>1. PICK f \in [SUBSET (1 .. n) -> Seq(H)] :
            f[{}] = << >> /\ \A A \in SUBSET (1 .. n) : A # {} => f[A] = rule[<<pick[A], f[A \ {pick[A]}]>>]
    <3> DEFINE X == 1 .. n
               T == Seq(H)
               base == << >>
    <3>1. Chooses(pick, X)
      <4> HIDE DEF pick
      <4> QED BY <1>2 DEF Chooses
    <3>2. base \in T
      OBVIOUS
    <3>3. IsFiniteSet(X) /\ rule \in [X \X T -> T]
      BY <1>1, <1>3
    <3> HIDE DEF pick, rule, n, X, T, base
    <3>4. \E f \in [SUBSET X -> T] : Recurs(f, X, base, pick, rule)
      BY <3>1, <3>2, <3>3, FiniteRecursion
    <3> QED BY <3>4 DEF X, T, base, Recurs
  <2>2. ASSUME NEW A \in SUBSET (1 .. n), A # {}
        PROVE  rule[<<pick[A], f[A \ {pick[A]}]>>]
                 = IF seq[Max(A)] \in gone THEN f[A \ {Max(A)}] ELSE Append(f[A \ {Max(A)}], seq[Max(A)])
    <3>1. pick[A] = Max(A) /\ Max(A) \in 1 .. n /\ f[A \ {Max(A)}] \in Seq(H)
      BY <1>2, <2>1, <2>2
    <3> HIDE DEF pick
    <3> QED BY <3>1
  <2>3. Eqn(f)
    <3> HIDE DEF pick, rule
    <3> QED BY <1>1, <2>1, <2>2
  <2> QED BY <2>3
<1>5. Eqn(iter)
  <2> HIDE DEF Eqn
  <2> QED BY <1>4
<1>6. Kept(seq, gone) = iter[DOMAIN seq]
  BY DEF Kept, FoldLeft, MapThenFoldSet
<1> HIDE DEF iter
<1> DEFINE it == [k \in 0 .. n |-> iter[1 .. k]]
<1>7. it[0] = << >>
  BY <1>1, <1>5
<1>8. ASSUME NEW k \in 1 .. n
      PROVE  it[k] = IF seq[k] \in gone THEN it[k - 1] ELSE Append(it[k - 1], seq[k])
  <2>1. (1 .. k) \in SUBSET (1 .. n) /\ 1 .. k # {} /\ k \in 1 .. k
    <3> HIDE DEF it, pick, rule, Eqn
    <3>1. n \in Nat /\ k \in Nat /\ 1 <= k /\ k <= n
      BY <1>1
    <3> HIDE DEF n
    <3>2. \A j \in 1 .. k : j \in 1 .. n
      BY <3>1
    <3>3. k \in 1 .. k
      BY <3>1
    <3> QED BY <3>2, <3>3
  <2>2. Max(1 .. k) = k
    <3>1. Max(1 .. k) \in 1 .. k /\ Max(1 .. k) >= k
      <4> HIDE DEF pick
      <4> QED BY <1>2, <2>1
    <3> QED BY <1>1, <3>1
  <2>3. (1 .. k) \ {k} = 1 .. (k - 1)
    BY <1>1
  <2>4. iter[1 .. k] = IF seq[k] \in gone THEN iter[1 .. (k - 1)] ELSE Append(iter[1 .. (k - 1)], seq[k])
    BY <1>1, <1>5, <2>1, <2>2, <2>3
  <2>5. it[k] = iter[1 .. k] /\ it[k - 1] = iter[1 .. (k - 1)]
    BY <1>1
  <2> HIDE DEF it
  <2> QED BY <2>4, <2>5
<1>9. Kept(seq, gone) = it[n]
  BY <1>1, <1>6
<1> HIDE DEF it
<1> QED BY <1>7, <1>8, <1>9

(* f places out in the first k of seq, in order, and leaves only gone out.  *)
Places(f, out, seq, k, gone) ==
    /\ f \in [1 .. Len(out) -> 1 .. k]
    /\ \A i, j \in 1 .. Len(out) : i < j => f[i] < f[j]
    /\ \A i \in 1 .. Len(out) : out[i] = seq[f[i]] /\ out[i] \notin gone
    /\ \A j \in 1 .. k : seq[j] \notin gone => \E i \in 1 .. Len(out) : f[i] = j

(* What the filter leaves are the members not taken out, in their order.   *)
LEMMA KeptInOrder ==
  ASSUME NEW H, NEW seq \in Seq(H), NEW gone
  PROVE  /\ Kept(seq, gone) \in Seq(H)
         /\ \E f : Places(f, Kept(seq, gone), seq, Len(seq), gone)
<1>1. PICK it : /\ it[0] = << >>
                /\ \A k \in 1 .. Len(seq) :
                      it[k] = IF seq[k] \in gone THEN it[k - 1] ELSE Append(it[k - 1], seq[k])
                /\ Kept(seq, gone) = it[Len(seq)]
  BY KeptSteps
<1> DEFINE n == Len(seq)
           Good == {k \in Nat : k <= n => it[k] \in Seq(H) /\ \E f : Places(f, it[k], seq, k, gone)}
<1>2. n \in Nat /\ \A k \in 1 .. n : seq[k] \in H
  OBVIOUS
<1>3. 0 \in Good
  <2>1. Places([i \in 1 .. 0 |-> 1], << >>, seq, 0, gone)
    BY DEF Places
  <2>2. it[0] \in Seq(H) /\ \E f : Places(f, it[0], seq, 0, gone)
    BY <1>1, <2>1
  <2> QED BY <2>2
<1>4. ASSUME NEW k \in Nat, k \in Good PROVE k + 1 \in Good
  <2>1. SUFFICES ASSUME k + 1 <= n
                 PROVE  it[k + 1] \in Seq(H) /\ \E f : Places(f, it[k + 1], seq, k + 1, gone)
    OBVIOUS
  <2>2. it[k] \in Seq(H) /\ k + 1 \in 1 .. n /\ (k + 1) - 1 = k /\ seq[k + 1] \in H
    BY <1>2, <1>4, <2>1
  <2>3. PICK f : Places(f, it[k], seq, k, gone)
    BY <1>2, <1>4, <2>1
  <2>4. CASE seq[k + 1] \in gone
    <3>1. it[k + 1] = it[k]
      BY <1>1, <2>2, <2>4
    <3>2. Places(f, it[k], seq, k + 1, gone)
      BY <2>3, <2>4, <2>2 DEF Places
    <3> QED BY <2>2, <3>1, <3>2
  <2>5. CASE seq[k + 1] \notin gone
    <3> DEFINE out == it[k]
               new == it[k + 1]
               m == Len(out)
               g == [i \in 1 .. m + 1 |-> IF i = m + 1 THEN k + 1 ELSE f[i]]
    <3>1. new = Append(out, seq[k + 1])
      BY <1>1, <2>2, <2>5
    <3>2. /\ new \in Seq(H) /\ m \in Nat /\ Len(new) = m + 1
          /\ new[m + 1] = seq[k + 1] /\ \A i \in 1 .. m : new[i] = out[i]
      BY <2>2, <3>1
    <3>3. g \in [1 .. m + 1 -> 1 .. k + 1]
      BY <2>3, <3>2 DEF Places
    <3> HIDE DEF new
    <3>4. \A i, j \in 1 .. m + 1 : i < j => g[i] < g[j]
      <4>1. \A i \in 1 .. m : f[i] \in 1 .. k /\ \A j \in 1 .. m : i < j => f[i] < f[j]
        BY <2>3 DEF Places
      <4>2. \A i \in 1 .. m + 1 : i # m + 1 => i \in 1 .. m
        BY <3>2
      <4> HIDE DEF m
      <4> QED BY <3>2, <4>1, <4>2
    <3>5. \A i \in 1 .. m + 1 : new[i] = seq[g[i]] /\ new[i] \notin gone
      <4>1. \A i \in 1 .. m : out[i] = seq[f[i]] /\ out[i] \notin gone
        BY <2>3 DEF Places
      <4> HIDE DEF out
      <4> QED BY <2>5, <3>2, <4>1
    <3>6. \A j \in 1 .. k + 1 : seq[j] \notin gone => \E i \in 1 .. m + 1 : g[i] = j
      <4>1. \A j \in 1 .. k : seq[j] \notin gone => \E i \in 1 .. m : f[i] = j
        BY <2>3 DEF Places
      <4>2. \A i \in 1 .. m : i \in 1 .. m + 1 /\ g[i] = f[i]
        BY <3>2
      <4>3. m + 1 \in 1 .. m + 1 /\ g[m + 1] = k + 1
        BY <3>2
      <4> HIDE DEF g
      <4> QED BY <4>1, <4>2, <4>3
    <3>7. Places(g, new, seq, k + 1, gone)
      <4> HIDE DEF g
      <4> QED BY <3>2, <3>3, <3>4, <3>5, <3>6 DEF Places
    <3> QED BY <3>2, <3>7 DEF new
  <2> QED BY <2>4, <2>5
<1>5. Nat \subseteq Good
  <2> HIDE DEF Good
  <2> QED BY <1>3, <1>4, SetInduction
<1> QED BY <1>1, <1>2, <1>5

(* It leaves all of them, and none twice that was not there twice.         *)
LEMMA KeptRange ==
  ASSUME NEW H, NEW seq \in Seq(H), NEW gone
  PROVE  /\ ToSet(Kept(seq, gone)) = ToSet(seq) \ gone
         /\ IsInjective(seq) => IsInjective(Kept(seq, gone))
<1> DEFINE out == Kept(seq, gone)
<1>1. out \in Seq(H)
  BY KeptInOrder
<1>2. PICK f : Places(f, out, seq, Len(seq), gone)
  BY KeptInOrder
<1> HIDE DEF out
<1>3. DOMAIN out = 1 .. Len(out) /\ DOMAIN seq = 1 .. Len(seq) /\ Len(out) \in Nat
  BY <1>1
<1>4. ToSet(out) = ToSet(seq) \ gone
  <2>1. ASSUME NEW i \in DOMAIN out PROVE out[i] \in ToSet(seq) \ gone
    <3>1. f[i] \in DOMAIN seq /\ out[i] = seq[f[i]] /\ out[i] \notin gone
      BY <1>2, <1>3 DEF Places
    <3> QED BY <3>1 DEF ToSet
  <2>2. ASSUME NEW j \in DOMAIN seq, seq[j] \notin gone PROVE seq[j] \in ToSet(out)
    <3>1. PICK i \in DOMAIN out : f[i] = j
      BY <1>2, <1>3, <2>2 DEF Places
    <3>2. out[i] = seq[j]
      BY <1>2, <1>3, <3>1 DEF Places
    <3> QED BY <3>2 DEF ToSet
  <2> QED BY <2>1, <2>2 DEF ToSet
<1>5. ASSUME IsInjective(seq) PROVE IsInjective(out)
  <2>1. SUFFICES ASSUME NEW i \in 1 .. Len(out), NEW j \in 1 .. Len(out), out[i] = out[j], i < j
                 PROVE  FALSE
    BY <1>3 DEF IsInjective
  <2>2. f[i] \in DOMAIN seq /\ f[j] \in DOMAIN seq /\ f[i] < f[j] /\ seq[f[i]] = seq[f[j]]
    BY <1>2, <1>3, <2>1 DEF Places
  <2>3. f[i] = f[j]
    BY <1>5, <2>2 DEF IsInjective
  <2> QED BY <1>3, <2>2, <2>3
<1> QED BY <1>4, <1>5 DEF out

(* The sizes of the members of A together.                                 *)
Sum(size, A) == MapThenSumSet(LAMBDA h : size[h], A)

(* A sum over a finite set is that without a member, and the member.       *)
LEMMA SumSteps ==
  ASSUME NEW X, IsFiniteSet(X), NEW size \in [X -> Nat]
  PROVE  /\ Sum(size, {}) = 0
         /\ \A A \in SUBSET X : Sum(size, A) \in Nat
         /\ \A A \in SUBSET X : \A x \in A : Sum(size, A) = size[x] + Sum(size, A \ {x})
<1> DEFINE pick == [A \in SUBSET X |-> CHOOSE x \in A : TRUE]
           rule == [p \in X \X Nat |-> size[p[1]] + p[2]]
           Eqn(it, A) == it = [s \in SUBSET A |->
                                 IF s = {} THEN 0
                                 ELSE size[CHOOSE x \in s : TRUE] + it[s \ {CHOOSE x \in s : TRUE}]]
           iter(A) == CHOOSE it : Eqn(it, A)
<1>1. ASSUME NEW A \in SUBSET X, A # {}
      PROVE  pick[A] = (CHOOSE x \in A : TRUE) /\ pick[A] \in A
  BY <1>1
<1>2. PICK f \in [SUBSET X -> Nat] : Recurs(f, X, 0, pick, rule)
  <2>1. Chooses(pick, X)
    <3> HIDE DEF pick
    <3> QED BY <1>1 DEF Chooses
  <2>2. rule \in [X \X Nat -> Nat]
    OBVIOUS
  <2> HIDE DEF pick, rule
  <2> QED BY <2>1, <2>2, FiniteRecursion
<1>3. f[{}] = 0
  BY <1>2 DEF Recurs
<1>4. ASSUME NEW A \in SUBSET X, A # {}
      PROVE  f[A] = size[pick[A]] + f[A \ {pick[A]}]
  <2>1. pick[A] \in X /\ f[A \ {pick[A]}] \in Nat /\ f[A] = rule[<<pick[A], f[A \ {pick[A]}]>>]
    <3> HIDE DEF pick, rule
    <3> QED BY <1>1, <1>2, <1>4 DEF Recurs
  <2> HIDE DEF pick
  <2> QED BY <2>1
<1>5. ASSUME NEW A \in SUBSET X PROVE Sum(size, A) = f[A]
  <2>1. Eqn([s \in SUBSET A |-> f[s]], A)
    <3>1. \A s \in SUBSET A : s # {} => /\ f[s] = size[CHOOSE x \in s : TRUE] + f[s \ {CHOOSE x \in s : TRUE}]
                                        /\ s \ {CHOOSE x \in s : TRUE} \in SUBSET A
      <4>1. ASSUME NEW s \in SUBSET A, s # {}
            PROVE  f[s] = size[CHOOSE x \in s : TRUE] + f[s \ {CHOOSE x \in s : TRUE}]
        <5>1. s \in SUBSET X
          OBVIOUS
        <5>2. f[s] = size[pick[s]] + f[s \ {pick[s]}] /\ pick[s] = CHOOSE x \in s : TRUE
          <6> HIDE DEF pick
          <6> QED BY <1>1, <1>4, <4>1, <5>1
        <5> HIDE DEF pick
        <5> QED BY <5>2
      <4> QED BY <4>1
    <3> DEFINE g == [s \in SUBSET A |-> f[s]]
    <3>2. ASSUME NEW s \in SUBSET A
          PROVE  g[s] = IF s = {} THEN 0
                        ELSE size[CHOOSE x \in s : TRUE] + g[s \ {CHOOSE x \in s : TRUE}]
      <4>1. CASE s = {}
        BY <1>3, <4>1
      <4>2. CASE s # {}
        <5> DEFINE t == s \ {CHOOSE x \in s : TRUE}
        <5>1. f[s] = size[CHOOSE x \in s : TRUE] + f[t] /\ t \in SUBSET A
          BY <3>1, <4>2
        <5>2. g[t] = f[t] /\ g[s] = f[s]
          <6> HIDE DEF t
          <6> QED BY <5>1
        <5> HIDE DEF g
        <5> QED BY <4>2, <5>1, <5>2
      <4> QED BY <4>1, <4>2
    <3>3. g = [s \in SUBSET A |-> g[s]]
      OBVIOUS
    <3> HIDE DEF g
    <3>4. Eqn(g, A)
      BY <3>2, <3>3
    <3> QED BY <3>4 DEF g
  <2>2. Eqn(iter(A), A)
    <3> HIDE DEF Eqn
    <3> QED BY <2>1
  <2>3. Sum(size, A) = iter(A)[A]
    BY DEF Sum, MapThenSumSet, MapThenFoldSet
  <2> HIDE DEF iter
  <2> DEFINE it == iter(A)
             Agree == {B \in SUBSET A : it[B] = f[B]}
  <2>4. ASSUME NEW B \in SUBSET A, \A C \in SUBSET B : C # B => C \in Agree
        PROVE  B \in Agree
    <3>1. CASE B = {}
      BY <1>3, <2>2, <3>1
    <3>2. CASE B # {}
      <4> DEFINE x == CHOOSE x \in B : TRUE
      <4>1. x \in B /\ B \in SUBSET X /\ pick[B] = x
        BY <3>2
      <4>2. it[B] = size[x] + it[B \ {x}]
        BY <2>2, <3>2
      <4>3. f[B] = size[x] + f[B \ {x}]
        <5> HIDE DEF pick, x
        <5> QED BY <1>4, <3>2, <4>1
      <4>4. it[B \ {x}] = f[B \ {x}]
        <5> HIDE DEF x, it
        <5> QED BY <2>4, <4>1
      <4> HIDE DEF x, it
      <4> QED BY <4>2, <4>3, <4>4
    <3> QED BY <3>1, <3>2
  <2>5. IsFiniteSet(A)
    BY FS_Subset
  <2>6. SUBSET A \subseteq Agree
    <3> HIDE DEF Agree
    <3> QED BY <2>4, <2>5, FiniteInduction
  <2>7. A \in Agree
    <3> HIDE DEF Agree
    <3> QED BY <2>6
  <2> QED BY <2>3, <2>7
<1> DEFINE Splits == {A \in SUBSET X : \A x \in A : f[A] = size[x] + f[A \ {x}]}
<1>6. ASSUME NEW A \in SUBSET X, \A B \in SUBSET A : B # A => B \in Splits
      PROVE  A \in Splits
  <2>1. SUFFICES ASSUME NEW x \in A PROVE f[A] = size[x] + f[A \ {x}]
    OBVIOUS
  <2> DEFINE p == pick[A]
  <2>2. p \in A /\ f[A] = size[p] + f[A \ {p}]
    <3> HIDE DEF pick
    <3> QED BY <1>1, <1>4, <2>1
  <2> HIDE DEF pick, p
  <2>3. CASE x = p
    BY <2>2, <2>3
  <2>4. CASE x # p
    <3>1. A \ {p} \in Splits /\ A \ {x} \in Splits
      <4> HIDE DEF Splits
      <4> QED BY <1>6, <2>2
    <3>2. f[A \ {p}] = size[x] + f[(A \ {p}) \ {x}] /\ f[A \ {x}] = size[p] + f[(A \ {x}) \ {p}]
      BY <2>2, <2>4, <3>1
    <3>3. (A \ {p}) \ {x} = (A \ {x}) \ {p}
      OBVIOUS
    <3>4. f[(A \ {p}) \ {x}] \in Nat /\ size[x] \in Nat /\ size[p] \in Nat
      BY <2>2
    <3> DEFINE u == f[(A \ {p}) \ {x}]
    <3>5. f[A \ {p}] = size[x] + u /\ f[A \ {x}] = size[p] + u /\ u \in Nat
      BY <3>2, <3>3, <3>4
    <3> HIDE DEF u
    <3> QED BY <2>2, <3>4, <3>5
  <2> QED BY <2>3, <2>4
<1>7. SUBSET X \subseteq Splits
  <2> HIDE DEF Splits
  <2> QED BY <1>6, FiniteInduction
<1>8. \A A \in SUBSET X : \A x \in A : f[A] = size[x] + f[A \ {x}]
  BY <1>7
<1> QED BY <1>3, <1>5, <1>8

(* A sum over a finite set is that over a part and that over the rest.     *)
LEMMA SumSplits ==
  ASSUME NEW X, IsFiniteSet(X), NEW size \in [X -> Nat],
         NEW B \in SUBSET X, NEW A \in SUBSET B
  PROVE  Sum(size, B) = Sum(size, A) + Sum(size, B \ A)
<1> DEFINE Good == {C \in SUBSET B : Sum(size, B) = Sum(size, C) + Sum(size, B \ C)}
<1>1. /\ Sum(size, {}) = 0
      /\ \A C \in SUBSET X : Sum(size, C) \in Nat
      /\ \A C \in SUBSET X : \A x \in C : Sum(size, C) = size[x] + Sum(size, C \ {x})
  BY SumSteps
<1>2. ASSUME NEW C \in SUBSET B, \A D \in SUBSET C : D # C => D \in Good
      PROVE  C \in Good
  <2>1. CASE C = {}
    <3>1. B \ {} = B /\ Sum(size, B) \in Nat
      BY <1>1
    <3> QED BY <1>1, <2>1, <3>1
  <2>2. CASE C # {}
    <3>1. PICK e \in C : TRUE
      BY <2>2
    <3>2. C \ {e} \in Good
      <4> HIDE DEF Good
      <4> QED BY <1>2, <3>1
    <3>3. Sum(size, B) = Sum(size, C \ {e}) + Sum(size, B \ (C \ {e}))
      BY <3>2
    <3>4. e \in B \ (C \ {e}) /\ (B \ (C \ {e})) \ {e} = B \ C
      BY <3>1
    <3>5. Sum(size, B \ (C \ {e})) = size[e] + Sum(size, B \ C)
      <4>1. B \ (C \ {e}) \in SUBSET X
        OBVIOUS
      <4> QED BY <1>1, <3>4, <4>1
    <3>6. Sum(size, C) = size[e] + Sum(size, C \ {e})
      <4>1. C \in SUBSET X
        OBVIOUS
      <4> QED BY <1>1, <3>1, <4>1
    <3>7. Sum(size, C \ {e}) \in Nat /\ Sum(size, B \ C) \in Nat /\ size[e] \in Nat
      <4>1. C \ {e} \in SUBSET X /\ B \ C \in SUBSET X
        OBVIOUS
      <4> QED BY <1>1, <3>1, <4>1
    <3> QED BY <3>3, <3>5, <3>6, <3>7
  <2> QED BY <2>1, <2>2
<1>3. IsFiniteSet(B)
  BY FS_Subset
<1>4. SUBSET B \subseteq Good
  <2> HIDE DEF Good
  <2> QED BY <1>2, <1>3, FiniteInduction
<1>5. A \in Good
  <2> HIDE DEF Good
  <2> QED BY <1>4
<1> QED BY <1>5

(* Sums are equal if the summands are.                                     *)
LEMMA SumSame ==
  ASSUME NEW X, IsFiniteSet(X), NEW f \in [X -> Nat], NEW g \in [X -> Nat],
         NEW A \in SUBSET X, \A x \in A : f[x] = g[x]
  PROVE  Sum(f, A) = Sum(g, A)
<1> DEFINE S == {B \in SUBSET A : Sum(f, B) = Sum(g, B)}
<1>1. /\ Sum(f, {}) = 0 /\ Sum(g, {}) = 0
      /\ \A B \in SUBSET X : \A x \in B : Sum(f, B) = f[x] + Sum(f, B \ {x}) /\ Sum(g, B) = g[x] + Sum(g, B \ {x})
  BY SumSteps
<1>2. ASSUME NEW B \in SUBSET A, \A C \in SUBSET B : C # B => C \in S PROVE B \in S
  <2>1. CASE B = {}
    BY <1>1, <2>1
  <2>2. CASE B # {}
    <3>1. PICK x \in B : TRUE
      BY <2>2
    <3>2. B \ {x} \in S
      <4> HIDE DEF S
      <4> QED BY <1>2, <3>1
    <3>3. Sum(f, B \ {x}) = Sum(g, B \ {x}) /\ f[x] = g[x] /\ B \in SUBSET X
      BY <3>1, <3>2
    <3>4. Sum(f, B) = f[x] + Sum(f, B \ {x}) /\ Sum(g, B) = g[x] + Sum(g, B \ {x})
      BY <1>1, <3>1, <3>3
    <3> QED BY <3>3, <3>4
  <2> QED BY <2>1, <2>2
<1>3. SUBSET A \subseteq S
  <2>1. IsFiniteSet(A)
    BY FS_Subset
  <2> HIDE DEF S
  <2> QED BY <1>2, <2>1, FiniteInduction
<1> QED BY <1>3

(* A sum is 0 if and only if all the summands are.                         *)
LEMMA SumZero ==
  ASSUME NEW X, IsFiniteSet(X), NEW f \in [X -> Nat], NEW A \in SUBSET X
  PROVE  Sum(f, A) = 0 <=> \A x \in A : f[x] = 0
<1> DEFINE S == {B \in SUBSET A : Sum(f, B) = 0 <=> \A x \in B : f[x] = 0}
<1>1. /\ Sum(f, {}) = 0
      /\ \A B \in SUBSET X : Sum(f, B) \in Nat
      /\ \A B \in SUBSET X : \A x \in B : Sum(f, B) = f[x] + Sum(f, B \ {x})
  BY SumSteps
<1>2. ASSUME NEW B \in SUBSET A, \A C \in SUBSET B : C # B => C \in S PROVE B \in S
  <2>1. CASE B = {}
    BY <1>1, <2>1
  <2>2. CASE B # {}
    <3>1. PICK x \in B : TRUE
      BY <2>2
    <3>2. B \ {x} \in S
      <4> HIDE DEF S
      <4> QED BY <1>2, <3>1
    <3>3. Sum(f, B \ {x}) = 0 <=> \A y \in B \ {x} : f[y] = 0
      BY <3>2
    <3>4. Sum(f, B) = f[x] + Sum(f, B \ {x}) /\ Sum(f, B \ {x}) \in Nat /\ f[x] \in Nat
      BY <1>1, <3>1
    <3>5. Sum(f, B) = 0 <=> f[x] = 0 /\ Sum(f, B \ {x}) = 0
      BY <3>4
    <3> QED BY <3>1, <3>3, <3>5
  <2> QED BY <2>1, <2>2
<1>3. SUBSET A \subseteq S
  <2>1. IsFiniteSet(A)
    BY FS_Subset
  <2> HIDE DEF S
  <2> QED BY <1>2, <2>1, FiniteInduction
<1> QED BY <1>3

(* An order of all the elements has each of them once.                     *)
LEMMA OrderCovers ==
    ASSUME NEW S, IsFiniteSet(S), NEW s \in SetToSeqs(S)
    PROVE  /\ s \in Seq(S) /\ ToSet(s) = S
           /\ \A i, j \in DOMAIN s : i # j => s[i] # s[j]
<1> DEFINE D == 1 .. Cardinality(S)
<1>1. /\ Cardinality(S) \in Nat /\ IsFiniteSet(D) /\ Cardinality(D) = Cardinality(S)
  BY FS_CardinalityType, FS_Interval
<1>2. s \in [D -> S] /\ \A i, j \in D : i # j => s[i] # s[j]
  BY DEF SetToSeqs
<1>3. s \in Injection(D, S)
  BY <1>2 DEF Injection, IsInjective
<1>4. s \in Surjection(D, S)
  BY <1>1, <1>3, FS_Injection
<1>5. \A x \in S : \E i \in D : s[i] = x
  BY <1>4 DEF Surjection
<1> QED BY <1>1, <1>2, <1>5 DEF ToSet

(* Removing the first element of a sequence without repetition.            *)
LEMMA FirstIsGone ==
    ASSUME NEW S, NEW s \in Seq(S), s # << >>, \A i, j \in DOMAIN s : i # j => s[i] # s[j]
    PROVE  /\ Head(s) \in S /\ Tail(s) \in Seq(S)
           /\ ToSet(Tail(s)) = ToSet(s) \ {Head(s)} /\ Head(s) \in ToSet(s)
           /\ \A i, j \in DOMAIN Tail(s) : i # j => Tail(s)[i] # Tail(s)[j]
           /\ \A i \in DOMAIN Tail(s) : i + 1 \in DOMAIN s /\ Tail(s)[i] = s[i + 1]
<1>1. /\ Len(s) \in Nat \ {0} /\ DOMAIN s = 1 .. Len(s) /\ Head(s) = s[1]
      /\ Tail(s) \in Seq(S) /\ Len(Tail(s)) = Len(s) - 1 /\ DOMAIN Tail(s) = 1 .. Len(s) - 1
      /\ \A i \in 1 .. Len(s) - 1 : Tail(s)[i] = s[i + 1]
  OBVIOUS
<1>2. \A i \in 1 .. Len(s) - 1 : i + 1 \in 1 .. Len(s) /\ i + 1 # 1
  BY <1>1
<1>3. \A j \in 1 .. Len(s) : j # 1 => j - 1 \in 1 .. Len(s) - 1 /\ s[j] = Tail(s)[j - 1]
  BY <1>1
<1>4. ToSet(Tail(s)) = ToSet(s) \ {Head(s)}
  <2>1. ASSUME NEW i \in 1 .. Len(s) - 1 PROVE Tail(s)[i] \in ToSet(s) \ {Head(s)}
    BY <1>1, <1>2 DEF ToSet
  <2>2. ASSUME NEW j \in 1 .. Len(s), s[j] # Head(s) PROVE s[j] \in ToSet(Tail(s))
    BY <1>1, <1>3, <2>2 DEF ToSet
  <2> QED BY <1>1, <2>1, <2>2 DEF ToSet
<1>5. \A i, j \in DOMAIN Tail(s) : i # j => Tail(s)[i] # Tail(s)[j]
  BY <1>1, <1>2
<1>6. Head(s) \in S /\ Head(s) \in ToSet(s)
  BY <1>1 DEF ToSet
<1>7. \A i \in DOMAIN Tail(s) : i + 1 \in DOMAIN s /\ Tail(s)[i] = s[i + 1]
  BY <1>1, <1>2
<1> QED BY <1>1, <1>4, <1>5, <1>6, <1>7

(* What appending does to the members of a sequence.                       *)
LEMMA Appending ==
    ASSUME NEW T, NEW s \in Seq(T), NEW e \in T
    PROVE  /\ Append(s, e) \in Seq(T)
           /\ Len(Append(s, e)) = Len(s) + 1
           /\ \A i \in 1..Len(s) : Append(s, e)[i] = s[i]
           /\ Append(s, e)[Len(s) + 1] = e
           /\ ToSet(Append(s, e)) = ToSet(s) \cup {e}
           /\ IsInjective(s) /\ e \notin ToSet(s) => IsInjective(Append(s, e))
<1>1. /\ Append(s, e) \in Seq(T)
      /\ Len(Append(s, e)) = Len(s) + 1
      /\ \A i \in 1..Len(s) : Append(s, e)[i] = s[i]
      /\ Append(s, e)[Len(s) + 1] = e
  BY AppendProperties
<1>2. /\ Len(s) \in Nat
      /\ DOMAIN s = 1..Len(s)
      /\ DOMAIN Append(s, e) = 1..(Len(s) + 1)
  BY <1>1, LenProperties
<1>3. ToSet(Append(s, e)) = ToSet(s) \cup {e}
  BY <1>1, <1>2 DEF ToSet
<1>4. ASSUME IsInjective(s), e \notin ToSet(s)
      PROVE  IsInjective(Append(s, e))
  BY <1>1, <1>2, <1>4 DEF IsInjective, ToSet
<1>5. QED
  BY <1>1, <1>3, <1>4

(* What popping does to them.                                              *)
LEMMA Popping ==
    ASSUME NEW T, NEW s \in Seq(T), s # << >>
    PROVE  /\ Head(s) \in T
           /\ Tail(s) \in Seq(T)
           /\ ToSet(s) = ToSet(Tail(s)) \cup {Head(s)}
           /\ IsInjective(s) => IsInjective(Tail(s)) /\ Head(s) \notin ToSet(Tail(s))
<1>1. /\ Head(s) \in T /\ Head(s) = s[1]
      /\ Tail(s) \in Seq(T)
      /\ Len(Tail(s)) = Len(s) - 1
      /\ \A i \in 1..Len(Tail(s)) : Tail(s)[i] = s[i + 1]
  BY HeadTailProperties
<1>2. /\ Len(s) \in Nat \ {0}
      /\ DOMAIN s = 1..Len(s)
      /\ DOMAIN Tail(s) = 1..(Len(s) - 1)
  BY <1>1, LenProperties, EmptySeq
<1>3. ToSet(s) = ToSet(Tail(s)) \cup {Head(s)}
  <2>1. ASSUME NEW i \in 1..Len(s), i # 1
        PROVE  s[i] \in ToSet(Tail(s))
    <3>1. i - 1 \in 1..(Len(s) - 1) /\ Tail(s)[i - 1] = s[i]
      BY <1>1, <1>2, <2>1
    <3>2. QED
      BY <1>2, <3>1 DEF ToSet
  <2>2. ToSet(s) \subseteq ToSet(Tail(s)) \cup {Head(s)}
    BY <1>1, <1>2, <2>1 DEF ToSet
  <2>3. ToSet(Tail(s)) \cup {Head(s)} \subseteq ToSet(s)
    BY <1>1, <1>2 DEF ToSet
  <2>4. QED
    BY <2>2, <2>3
<1>4. ASSUME IsInjective(s)
      PROVE  IsInjective(Tail(s)) /\ Head(s) \notin ToSet(Tail(s))
  BY <1>1, <1>2, <1>4 DEF IsInjective, ToSet
<1>5. QED
  BY <1>1, <1>3, <1>4

(* A sequence without repeats has all of a finite set when it is as long.  *)
LEMMA LengthCounts ==
    ASSUME NEW S, IsFiniteSet(S), NEW s \in Seq(S), IsInjective(s)
    PROVE  Len(s) = Cardinality(S) <=> ToSet(s) = S
<1>1. Len(s) \in Nat /\ s \in [1..Len(s) -> S] /\ DOMAIN s = 1..Len(s)
  BY LenProperties
<1>2. s \in Injection(1..Len(s), S)
  BY <1>1 DEF Injection
<1>3. IsFiniteSet(1..Len(s)) /\ Cardinality(1..Len(s)) = Len(s)
  BY <1>1, FS_Interval
<1>4. Len(s) = Cardinality(S) <=> s \in Surjection(1..Len(s), S)
  BY <1>2, <1>3, FS_Injection
<1> QED BY <1>1, <1>4 DEF Surjection, ToSet

(* The last element of a sequence, and the sequence without it.           *)
LEMMA EndOfPath ==
    ASSUME NEW S, NEW s \in Seq(S), s # << >>
    PROVE  /\ Len(s) \in Nat \ {0} /\ DOMAIN s = 1 .. Len(s)
           /\ Last(s) = s[Len(s)] /\ Last(s) \in S /\ Last(s) \in ToSet(s)
           /\ Front(s) \in Seq(S) /\ Len(Front(s)) = Len(s) - 1
           /\ \A i \in 1 .. Len(s) - 1 : Front(s)[i] = s[i]
           /\ IsInjective(s) => IsInjective(Front(s)) /\ ToSet(Front(s)) = ToSet(s) \ {Last(s)}
<1>1. Len(s) \in Nat \ {0} /\ DOMAIN s = 1 .. Len(s)
  BY EmptySeq, LenProperties
<1>2. Last(s) = s[Len(s)] /\ Last(s) \in S /\ Last(s) \in ToSet(s)
  BY <1>1 DEF Last, ToSet
<1>3. /\ Front(s) \in Seq(S) /\ Len(Front(s)) = Len(s) - 1
      /\ \A i \in 1 .. Len(s) - 1 : Front(s)[i] = s[i]
  BY <1>1 DEF Front
<1>4. DOMAIN Front(s) = 1 .. Len(s) - 1
  BY <1>1, <1>3
<1>5. ASSUME IsInjective(s) PROVE IsInjective(Front(s)) /\ ToSet(Front(s)) = ToSet(s) \ {Last(s)}
  <2>1. IsInjective(Front(s))
    BY <1>1, <1>3, <1>4, <1>5 DEF IsInjective
  <2>2. ASSUME NEW i \in 1 .. Len(s) - 1 PROVE Front(s)[i] \in ToSet(s) \ {Last(s)}
    <3>1. i \in 1 .. Len(s) /\ Len(s) \in 1 .. Len(s) /\ i # Len(s)
      <4> DEFINE n == Len(s)
      <4>1. n \in Nat \ {0} /\ i \in 1 .. n - 1
        BY <1>1
      <4> HIDE DEF n
      <4>2. i \in 1 .. n /\ n \in 1 .. n /\ i # n
        BY <4>1
      <4> QED BY <4>2 DEF n
    <3>2. s[i] # s[Len(s)]
      BY <1>1, <1>5, <3>1 DEF IsInjective
    <3> QED BY <1>1, <1>2, <1>3, <3>1, <3>2 DEF ToSet
  <2>3. ASSUME NEW i \in 1 .. Len(s), s[i] # Last(s) PROVE s[i] \in ToSet(Front(s))
    BY <1>1, <1>2, <1>3, <1>4, <2>3 DEF ToSet
  <2> QED BY <1>1, <1>4, <2>1, <2>2, <2>3 DEF ToSet
<1> QED BY <1>1, <1>2, <1>3, <1>5

(* A sequence with another last element.                                  *)
LEMMA Replacing ==
    ASSUME NEW T, NEW s \in Seq(T), s # << >>, NEW e \in T
    PROVE  LET r == Append(Front(s), e) IN
           /\ r \in Seq(T) /\ Len(r) = Len(s) /\ r[Len(s)] = e /\ \A i \in 1 .. Len(s) - 1 : r[i] = s[i]
<1> DEFINE n == Len(s)
           q == Front(s)
           r == Append(q, e)
<1>1. n \in Nat \ {0} /\ q \in Seq(T) /\ Len(q) = n - 1 /\ \A i \in 1 .. n - 1 : q[i] = s[i]
  BY EndOfPath
<1> HIDE DEF n, q
<1>2. r \in Seq(T) /\ Len(r) = (n - 1) + 1 /\ r[(n - 1) + 1] = e /\ \A i \in 1 .. n - 1 : r[i] = q[i]
  BY <1>1, Appending
<1>3. (n - 1) + 1 = n
  BY <1>1
<1> HIDE DEF r
<1>4. r \in Seq(T) /\ Len(r) = n /\ r[n] = e /\ \A i \in 1 .. n - 1 : r[i] = s[i]
  BY <1>1, <1>2, <1>3
<1> QED BY <1>4 DEF r, q, n

(* Two sequences with nothing in common, one behind the other.             *)
LEMMA Joining ==
    ASSUME NEW T, NEW s \in Seq(T), NEW r \in Seq(T), IsInjective(s), IsInjective(r), ToSet(s) \cap ToSet(r) = {}
    PROVE  s \o r \in Seq(T) /\ ToSet(s \o r) = ToSet(s) \cup ToSet(r) /\ IsInjective(s \o r)
<1> DEFINE m == Len(s)
           n == Len(r)
           q == s \o r
<1>1. /\ m \in Nat /\ n \in Nat /\ DOMAIN s = 1 .. m /\ DOMAIN r = 1 .. n
      /\ q \in Seq(T) /\ Len(q) = m + n
      /\ \A i \in 1 .. m + n : q[i] = IF i <= m THEN s[i] ELSE r[i - m]
  BY ConcatProperties
<1>2. DOMAIN q = 1 .. m + n
  BY <1>1
<1> HIDE DEF m, n, q
<1>3. \A i \in 1 .. m : i \in 1 .. m + n /\ q[i] = s[i]
  BY <1>1
<1>4. \A i \in 1 .. n : i + m \in 1 .. m + n /\ q[i + m] = r[i]
  <2>1. \A i \in 1 .. n : i + m \in 1 .. m + n /\ ~ (i + m <= m) /\ (i + m) - m = i
    BY <1>1
  <2> QED BY <1>1, <2>1
<1>5. ASSUME NEW i \in 1 .. m + n PROVE i \in 1 .. m \/ (i - m \in 1 .. n /\ i = (i - m) + m)
  BY <1>1
<1>6. ToSet(q) = ToSet(s) \cup ToSet(r)
  <2>1. ToSet(q) \subseteq ToSet(s) \cup ToSet(r)
    <3>1. ASSUME NEW i \in 1 .. m + n PROVE q[i] \in ToSet(s) \cup ToSet(r)
      <4>1. CASE i \in 1 .. m
        <5>1. q[i] = s[i] /\ s[i] \in ToSet(s)
          BY <1>1, <1>3, <4>1 DEF ToSet
        <5> QED BY <5>1
      <4>2. CASE i - m \in 1 .. n /\ i = (i - m) + m
        <5>1. q[i] = r[i - m] /\ r[i - m] \in ToSet(r)
          BY <1>1, <1>4, <4>2 DEF ToSet
        <5> QED BY <5>1
      <4> QED BY <1>5, <4>1, <4>2
    <3> QED BY <1>2, <3>1 DEF ToSet
  <2>2. \A i \in 1 .. m + n : q[i] \in ToSet(q)
    BY <1>2 DEF ToSet
  <2>3. ToSet(s) \subseteq ToSet(q)
    <3>1. \A i \in 1 .. m : s[i] \in ToSet(q)
      BY <1>3, <2>2
    <3> QED BY <1>1, <3>1 DEF ToSet
  <2>4. ToSet(r) \subseteq ToSet(q)
    <3>1. \A i \in 1 .. n : r[i] \in ToSet(q)
      BY <1>4, <2>2
    <3> QED BY <1>1, <3>1 DEF ToSet
  <2> QED BY <2>1, <2>3, <2>4
<1>7. ASSUME NEW i \in 1 .. m + n, NEW j \in 1 .. m + n, q[i] = q[j] PROVE i = j
  <2>1. CASE i \in 1 .. m /\ j \in 1 .. m
    BY <1>1, <1>3, <1>7, <2>1 DEF IsInjective
  <2>2. CASE i - m \in 1 .. n /\ j - m \in 1 .. n
    <3>1. q[i] = r[i - m] /\ q[j] = r[j - m]
      BY <1>1, <1>4, <2>2
    <3>2. i - m = j - m
      BY <1>1, <1>7, <2>2, <3>1 DEF IsInjective
    <3> QED BY <1>1, <3>2
  <2>3. ASSUME NEW a \in 1 .. m, NEW b \in 1 .. m + n, b - m \in 1 .. n PROVE q[a] # q[b]
    <3>1. q[a] = s[a] /\ q[b] = r[b - m]
      BY <1>1, <1>3, <1>4, <2>3
    <3>2. s[a] \in ToSet(s) /\ r[b - m] \in ToSet(r)
      BY <1>1, <2>3 DEF ToSet
    <3> QED BY <3>1, <3>2
  <2> QED BY <1>5, <1>7, <2>1, <2>2, <2>3
<1>8. IsInjective(q)
  BY <1>2, <1>7 DEF IsInjective
<1> QED BY <1>1, <1>6, <1>8 DEF q

-----------------------------------------------------------------------------
(* f adds at each step what next has for the members it has already.       *)
Grows(f, base, next) == f[0] = base /\ \A n \in Nat : f[n + 1] = f[n] \cup UNION {next[x] : x \in f[n]}

(* next leads out of S to nothing.                                         *)
ClosedUnder(S, next) == \A x \in S : next[x] \subseteq S

(* S is the least set with base that next leads to nothing out of.         *)
IsReach(S, base, next, X) ==
    /\ base \subseteq S /\ S \subseteq X /\ ClosedUnder(S, next)
    /\ \A C \in SUBSET X : base \subseteq C /\ ClosedUnder(C, next) => S \subseteq C

(* There is such a function.                                               *)
LEMMA GrowthExists ==
  ASSUME NEW X, NEW base \in SUBSET X, NEW next \in [X -> SUBSET X]
  PROVE  \E f \in [Nat -> SUBSET X] : Grows(f, base, next)
<1> DEFINE T == SUBSET X
           rule == [p \in Nat \X T |-> p[2] \cup UNION {next[x] : x \in p[2]}]
<1>1. rule \in [Nat \X T -> T]
  <2>1. \A p \in Nat \X T : p[2] \in T /\ UNION {next[x] : x \in p[2]} \in T
    OBVIOUS
  <2>2. \A p \in Nat \X T : p[2] \cup UNION {next[x] : x \in p[2]} \in T
    BY <2>1
  <2> HIDE DEF T
  <2> QED BY <2>2
<1>2. PICK f \in [Nat -> T] : RecursUp(f, base, rule)
  <2>1. base \in T
    OBVIOUS
  <2> HIDE DEF T, rule
  <2> QED BY <1>1, <2>1, NatRecursion
<1>3. ASSUME NEW n \in Nat PROVE f[n + 1] = f[n] \cup UNION {next[x] : x \in f[n]}
  <2>1. f[n] \in T /\ <<n, f[n]>> \in Nat \X T
    BY <1>2
  <2>2. f[n + 1] = rule[<<n, f[n]>>]
    <3> HIDE DEF rule
    <3> QED BY <1>2 DEF RecursUp
  <2> HIDE DEF T
  <2> QED BY <2>1, <2>2
<1>4. f[0] = base
  BY <1>2 DEF RecursUp
<1> QED BY <1>2, <1>3, <1>4 DEF Grows

(* In as many steps as X has members it has reached everything it can.     *)
LEMMA GrowthEnds ==
  ASSUME NEW X, IsFiniteSet(X), NEW base \in SUBSET X, NEW next \in [X -> SUBSET X],
         NEW f, Grows(f, base, next)
  PROVE  IsReach(f[Cardinality(X)], base, next, X)
<1> DEFINE Within == {n \in Nat : f[n] \subseteq X /\ base \subseteq f[n]}
           Big == {n \in Nat : ClosedUnder(f[n], next) \/ Cardinality(f[n]) >= n}
<1>1. Nat \subseteq Within
  <2>1. 0 \in Within
    BY DEF Grows
  <2>2. ASSUME NEW n \in Nat, n \in Within PROVE n + 1 \in Within
    BY <2>2 DEF Grows
  <2> HIDE DEF Within
  <2> QED BY <2>1, <2>2, SetInduction
<1>2. \A n \in Nat : IsFiniteSet(f[n]) /\ Cardinality(f[n]) \in Nat
  BY <1>1, FS_Subset, FS_CardinalityType
<1>3. Nat \subseteq Big
  <2>1. 0 \in Big
    BY <1>2
  <2>2. ASSUME NEW n \in Nat, n \in Big PROVE n + 1 \in Big
    <3>1. f[n + 1] = f[n] \cup UNION {next[x] : x \in f[n]} /\ f[n] \subseteq f[n + 1] /\ n + 1 \in Nat
      BY DEF Grows
    <3>2. CASE ClosedUnder(f[n], next)
      <4>1. f[n + 1] = f[n]
        BY <3>1, <3>2 DEF ClosedUnder
      <4> QED BY <3>1, <3>2, <4>1
    <3>3. CASE ~ ClosedUnder(f[n], next)
      <4>1. f[n + 1] # f[n]
        BY <3>1, <3>3 DEF ClosedUnder
      <4> DEFINE a == Cardinality(f[n])
                 b == Cardinality(f[n + 1])
      <4>2. a \in Nat /\ b \in Nat /\ a <= b /\ a # b
        BY <1>2, <3>1, <4>1, FS_Subset
      <4>3. a >= n
        BY <2>2, <3>3
      <4>4. b >= n + 1
        <5> HIDE DEF a, b
        <5> QED BY <4>2, <4>3
      <4> QED BY <3>1, <4>4
    <3> QED BY <3>2, <3>3
  <2> HIDE DEF Big
  <2> QED BY <2>1, <2>2, SetInduction
<1> DEFINE c == Cardinality(X)
<1>4. c \in Nat /\ f[c] \subseteq X /\ base \subseteq f[c]
  BY <1>1, FS_CardinalityType
<1>5. ClosedUnder(f[c], next)
  <2>1. c \in Big
    <3> HIDE DEF Big, c
    <3> QED BY <1>3, <1>4
  <2>2. CASE Cardinality(f[c]) >= c
    <3>1. Cardinality(f[c]) <= c /\ Cardinality(f[c]) \in Nat
      BY <1>2, <1>4, FS_Subset
    <3>2. Cardinality(f[c]) = c
      <4> HIDE DEF c
      <4> QED BY <1>4, <2>2, <3>1
    <3>3. f[c] = X
      BY <1>4, <3>2, FS_Subset
    <3> QED BY <3>3 DEF ClosedUnder
  <2> QED BY <2>1, <2>2
<1>6. ASSUME NEW C \in SUBSET X, base \subseteq C, ClosedUnder(C, next) PROVE f[c] \subseteq C
  <2> DEFINE Inside == {n \in Nat : f[n] \subseteq C}
  <2>1. 0 \in Inside
    BY <1>6 DEF Grows
  <2>2. ASSUME NEW n \in Nat, n \in Inside PROVE n + 1 \in Inside
    BY <1>6, <2>2 DEF Grows, ClosedUnder
  <2>3. Nat \subseteq Inside
    <3> HIDE DEF Inside
    <3> QED BY <2>1, <2>2, SetInduction
  <2> QED BY <1>4, <2>3
<1> HIDE DEF c
<1>7. IsReach(f[c], base, next, X)
  BY <1>4, <1>5, <1>6 DEF IsReach
<1> QED BY <1>7 DEF c

(* In a finite set in which everything is led to by a member something     *)
(* leads to itself: a least one among the sets of what leads to a member.  *)
LEMMA SomethingFirst ==
  ASSUME NEW X, IsFiniteSet(X), NEW behind \in [X -> SUBSET X], NEW U \in SUBSET X,
         \A u \in U : \E p \in U : behind[p] \subseteq behind[u] /\ behind[p] # behind[u]
  PROVE  U = {}
<1> DEFINE Free == {A \in SUBSET X : \A u \in U : behind[u] # A}
<1>1. ASSUME NEW A \in SUBSET X, \A B \in SUBSET A : B # A => B \in Free PROVE A \in Free
  BY <1>1
<1>2. SUBSET X \subseteq Free
  <2> HIDE DEF Free
  <2> QED BY <1>1, FiniteInduction
<1> QED BY <1>2
(* The defining equation of a fold over a sequence from its left, as a     *)
(* function of the sets of positions taken so far.                         *)
Folds(f, seq, base, rule) ==
    /\ f[{}] = base
    /\ \A A \in SUBSET (1 .. Len(seq)) :
          A # {} => Max(A) \in A /\ f[A] = rule[<<f[A \ {Max(A)}], seq[Max(A)]>>]

(* There is one: a fold over a sequence is defined.                        *)
LEMMA FoldExists ==
  ASSUME NEW H, NEW seq \in Seq(H), NEW T, NEW base \in T, NEW rule \in [T \X H -> T]
  PROVE  \E f \in [SUBSET (1 .. Len(seq)) -> T] : Folds(f, seq, base, rule)
<1> DEFINE n == Len(seq)
           X == 1 .. n
           pick == [A \in SUBSET X |-> Max(A)]
           turned == [p \in X \X T |-> rule[<<p[2], seq[p[1]]>>]]
<1>1. n \in Nat /\ IsFiniteSet(X) /\ \A k \in X : seq[k] \in H
  BY FS_Interval
<1>2. ASSUME NEW A \in SUBSET X, A # {} PROVE pick[A] = Max(A) /\ Max(A) \in A
  <2>1. A \in SUBSET Int
    BY <1>1
  <2>2. IsFiniteSet(A)
    <3> HIDE DEF n, X
    <3> QED BY <1>1, FS_Subset
  <2> QED BY <1>2, <2>1, <2>2, MaxOfFinite
<1>3. Chooses(pick, X)
  <2> HIDE DEF pick
  <2> QED BY <1>2 DEF Chooses
<1>4. turned \in [X \X T -> T]
  BY <1>1
<1>5. PICK f \in [SUBSET X -> T] : Recurs(f, X, base, pick, turned)
  <2> HIDE DEF pick, turned, X
  <2> QED BY <1>1, <1>3, <1>4, FiniteRecursion
<1>6. ASSUME NEW A \in SUBSET X, A # {}
      PROVE  Max(A) \in A /\ f[A] = rule[<<f[A \ {Max(A)}], seq[Max(A)]>>]
  <2>1. pick[A] = Max(A) /\ Max(A) \in X /\ f[A \ {Max(A)}] \in T
    BY <1>2, <1>5, <1>6
  <2>2. f[A] = turned[<<pick[A], f[A \ {pick[A]}]>>]
    BY <1>5, <1>6 DEF Recurs
  <2> HIDE DEF pick
  <2> QED BY <1>2, <1>6, <2>1, <2>2
<1>7. Folds(f, seq, base, rule)
  BY <1>5, <1>6 DEF Folds, Recurs
<1> QED BY <1>5, <1>7

(* The last position of a prefix, and what is left without it.             *)
LEMMA MaxOfPrefix ==
  ASSUME NEW k \in Nat \ {0}
  PROVE  Max(1 .. k) = k /\ (1 .. k) \ {k} = 1 .. (k - 1) /\ 1 .. k # {}
<1>1. k \in 1 .. k /\ \A y \in 1 .. k : k >= y
  OBVIOUS
<1>2. \A x \in 1 .. k : (\A y \in 1 .. k : x >= y) => x = k
  BY <1>1
<1>3. Max(1 .. k) = k
  BY <1>1, <1>2 DEF Max
<1> QED BY <1>1, <1>3

(* Sequences over a larger set, one after another, many of them.           *)
LEMMA WiderSeq ==
    ASSUME NEW S, NEW T, S \subseteq T, NEW s \in Seq(S)
    PROVE  s \in Seq(T)
  OBVIOUS

-----------------------------------------------------------------------------
(* Sequences of sequences.                                                 *)
LEMMA ConcatMembers ==
    ASSUME NEW T, NEW s \in Seq(T), NEW r \in Seq(T)
    PROVE  s \o r \in Seq(T) /\ ToSet(s \o r) = ToSet(s) \cup ToSet(r)
<1> DEFINE m == Len(s)
           n == Len(r)
           q == s \o r
<1>1. /\ m \in Nat /\ n \in Nat /\ DOMAIN s = 1 .. m /\ DOMAIN r = 1 .. n
      /\ q \in Seq(T) /\ Len(q) = m + n
      /\ \A i \in 1 .. m + n : q[i] = IF i <= m THEN s[i] ELSE r[i - m]
  BY ConcatProperties
<1>2. DOMAIN q = 1 .. m + n
  BY <1>1
<1> HIDE DEF m, n, q
<1>3. \A i \in 1 .. m : i \in 1 .. m + n /\ q[i] = s[i]
  BY <1>1
<1>4. \A i \in 1 .. n : i + m \in 1 .. m + n /\ q[i + m] = r[i]
  <2>1. \A i \in 1 .. n : i + m \in 1 .. m + n /\ ~ (i + m <= m) /\ (i + m) - m = i
    BY <1>1
  <2> QED BY <1>1, <2>1
<1>5. \A i \in 1 .. m + n : q[i] \in ToSet(s) \cup ToSet(r)
  <2>1. ASSUME NEW i \in 1 .. m + n PROVE i \in 1 .. m \/ (i - m \in 1 .. n /\ i = (i - m) + m)
    BY <1>1
  <2>2. \A i \in 1 .. m : s[i] \in ToSet(s)
    BY <1>1 DEF ToSet
  <2>3. \A i \in 1 .. n : r[i] \in ToSet(r)
    BY <1>1 DEF ToSet
  <2>4. \A i \in 1 .. m + n : i - m \in 1 .. n /\ i = (i - m) + m => q[i] = r[i - m]
    BY <1>4
  <2> QED BY <1>3, <2>1, <2>2, <2>3, <2>4
<1>6. ToSet(s) \cup ToSet(r) \subseteq ToSet(q)
  <2>1. \A i \in 1 .. m + n : q[i] \in ToSet(q)
    BY <1>2 DEF ToSet
  <2>2. \A i \in 1 .. m : s[i] \in ToSet(q)
    BY <1>3, <2>1
  <2>3. \A i \in 1 .. n : r[i] \in ToSet(q)
    BY <1>4, <2>1
  <2> QED BY <1>1, <2>2, <2>3 DEF ToSet
<1>7. ToSet(q) \subseteq ToSet(s) \cup ToSet(r)
  BY <1>2, <1>5 DEF ToSet
<1> QED BY <1>1, <1>6, <1>7 DEF q

LEMMA FlattenMembers ==
    ASSUME NEW T, NEW parts \in Seq(Seq(T))
    PROVE  /\ FlattenSeq(parts) \in Seq(T)
           /\ ToSet(FlattenSeq(parts)) = UNION {ToSet(parts[i]) : i \in DOMAIN parts}
<1> DEFINE n == Len(parts)
<1>1. n \in Nat /\ DOMAIN parts = 1 .. n /\ \A i \in 1 .. n : parts[i] \in Seq(T)
  OBVIOUS
<1>2. CASE n = 0
  <2>1. parts = << >> /\ FlattenSeq(parts) = << >> /\ DOMAIN parts = {}
    BY <1>1, <1>2 DEF FlattenSeq
  <2>2. ToSet(<< >>) = {}
    BY DEF ToSet
  <2>3. << >> \in Seq(T) /\ UNION {ToSet(parts[i]) : i \in {}} = {}
    OBVIOUS
  <2>4. UNION {ToSet(parts[i]) : i \in DOMAIN parts} = {}
    BY <2>1
  <2>5. FlattenSeq(parts) \in Seq(T) /\ ToSet(FlattenSeq(parts)) = {}
    BY <2>1, <2>2, <2>3
  <2> QED BY <2>4, <2>5
<1>3. CASE n # 0
  <2> DEFINE rule == [p \in Nat \X Seq(T) |->
                         IF p[1] + 1 \in 1 .. n THEN p[2] \o parts[p[1] + 1] ELSE p[2]]
             Eqn(f) == f = [i \in 1 .. n |-> IF i = 1 THEN parts[i] ELSE f[i - 1] \o parts[i]]
             flat == CHOOSE f : Eqn(f)
  <2>1. \E f : Eqn(f)
    <3>1. rule \in [Nat \X Seq(T) -> Seq(T)]
      <4>1. ASSUME NEW p \in Nat \X Seq(T), p[1] + 1 \in 1 .. n PROVE p[2] \o parts[p[1] + 1] \in Seq(T)
        BY <1>1, <4>1, ConcatProperties
      <4> HIDE DEF n
      <4> QED BY <4>1
    <3>2. PICK f \in [Nat -> Seq(T)] : RecursUp(f, << >>, rule)
      <4> HIDE DEF rule
      <4>1. << >> \in Seq(T)
        OBVIOUS
      <4> QED BY <3>1, <4>1, NatRecursion
    <3>3. ASSUME NEW i \in 1 .. n PROVE f[i] = f[i - 1] \o parts[i]
      <4>1. i - 1 \in Nat /\ (i - 1) + 1 = i /\ f[i - 1] \in Seq(T)
        BY <3>2
      <4>2. f[(i - 1) + 1] = rule[<<i - 1, f[i - 1]>>]
        <5> HIDE DEF rule
        <5> QED BY <3>2, <4>1 DEF RecursUp
      <4>3. rule[<<i - 1, f[i - 1]>>] = f[i - 1] \o parts[i]
        BY <3>3, <4>1
      <4> HIDE DEF rule
      <4> QED BY <4>1, <4>2, <4>3
    <3>4. f[1] = parts[1]
      <4>1. 1 \in 1 .. n /\ 1 - 1 = 0
        BY <1>1, <1>3
      <4>2. f[1] = f[0] \o parts[1] /\ parts[1] \in Seq(T)
        BY <1>1, <3>3, <4>1
      <4>3. f[0] = << >>
        BY <3>2 DEF RecursUp
      <4> HIDE DEF n
      <4> QED BY <4>2, <4>3
    <3>5. Eqn([i \in 1 .. n |-> f[i]])
      <4> DEFINE h == [i \in 1 .. n |-> f[i]]
                 r == [i \in 1 .. n |-> IF i = 1 THEN parts[i] ELSE h[i - 1] \o parts[i]]
      <4>1. ASSUME NEW i \in 1 .. n PROVE h[i] = r[i]
        <5>1. CASE i = 1
          BY <3>4, <5>1
        <5>2. CASE i # 1
          <6>1. i - 1 \in 1 .. n
            BY <1>1, <5>2
          <6>2. h[i - 1] = f[i - 1] /\ h[i] = f[i]
            BY <6>1
          <6> QED BY <3>3, <5>2, <6>2
        <5> QED BY <5>1, <5>2
      <4>2. h = r
        <5>1. DOMAIN r = 1 .. n /\ r = [i \in 1 .. n |-> r[i]]
          OBVIOUS
        <5> HIDE DEF r
        <5> QED BY <4>1, <5>1
      <4> QED BY <4>2
    <3> QED BY <3>5
  <2>2. Eqn(flat)
    <3> HIDE DEF Eqn
    <3> QED BY <2>1
  <2>3. FlattenSeq(parts) = flat[n]
    BY <1>3 DEF FlattenSeq
  <2> HIDE DEF flat
  <2> DEFINE upto(k) == UNION {ToSet(parts[i]) : i \in 1 .. k}
             Good == {k \in Nat : k \in 1 .. n => flat[k] \in Seq(T) /\ ToSet(flat[k]) = upto(k)}
  <2>4. 0 \in Good
    OBVIOUS
  <2>5. ASSUME NEW k \in Nat, k \in Good PROVE k + 1 \in Good
    <3>1. SUFFICES ASSUME k + 1 \in 1 .. n
                   PROVE  flat[k + 1] \in Seq(T) /\ ToSet(flat[k + 1]) = upto(k + 1)
      OBVIOUS
    <3>2. CASE k = 0
      <4>1. flat[k + 1] = parts[k + 1] /\ parts[k + 1] \in Seq(T)
        BY <1>1, <2>2, <3>1, <3>2
      <4>2. 1 .. k + 1 = {k + 1}
        BY <3>2
      <4> QED BY <4>1, <4>2
    <3>3. CASE k # 0
      <4>1. k \in 1 .. n /\ k + 1 # 1 /\ (k + 1) - 1 = k
        BY <1>1, <3>1, <3>3
      <4>2. flat[k + 1] = flat[k] \o parts[k + 1]
        BY <2>2, <3>1, <4>1
      <4>3. flat[k] \in Seq(T) /\ ToSet(flat[k]) = upto(k) /\ parts[k + 1] \in Seq(T)
        BY <1>1, <2>5, <3>1, <4>1
      <4>4. upto(k + 1) = upto(k) \cup ToSet(parts[k + 1])
        <5>1. 1 .. k + 1 = (1 .. k) \cup {k + 1}
          OBVIOUS
        <5> QED BY <5>1
      <4> DEFINE a == flat[k]
                 b == parts[k + 1]
      <4>5. a \o b \in Seq(T) /\ ToSet(a \o b) = ToSet(a) \cup ToSet(b)
        <5>1. a \in Seq(T) /\ b \in Seq(T)
          BY <4>3
        <5> HIDE DEF a, b
        <5> QED BY <5>1, ConcatMembers
      <4> HIDE DEF upto
      <4> QED BY <4>2, <4>3, <4>4, <4>5
    <3> QED BY <3>2, <3>3
  <2>6. Nat \subseteq Good
    <3> HIDE DEF Good
    <3> QED BY <2>4, <2>5, SetInduction
  <2>7. n \in 1 .. n
    BY <1>1, <1>3
  <2>8. flat[n] \in Seq(T) /\ ToSet(flat[n]) = upto(n)
    <3> HIDE DEF upto, n
    <3> QED BY <1>1, <2>6, <2>7
  <2> QED BY <1>1, <2>3, <2>8
<1> QED BY <1>2, <1>3
=============================================================================
