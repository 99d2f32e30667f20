----------------------------- MODULE Iteration -----------------------------
(***************************************************************************)
(* Induction, and what it says about loops.  The models write a loop over  *)
(* a list as a fold: FoldLeft(Step, s, l) is the state in which the loop   *)
(* with the body Step ends that starts in s and runs over l.  The lemmas   *)
(* are for any body; a module that proves something about a loop takes     *)
(* them with INSTANCE, with the loop's body for Step and the invariant of  *)
(* the loop for Good.                                                      *)
(***************************************************************************)
EXTENDS Integers, Sequences, SequencesExt, WellFoundedInduction, TLAPS

CONSTANTS Step(_, _),      \* state, element of the list
          Good(_, _, _)    \* context, state, number of rounds done

-----------------------------------------------------------------------------
(* Induction over the naturals, for sets instead of predicates. *)

\* A set that has 0 and with each number the next one has all naturals.
LEMMA Induction ==
    ASSUME NEW T, 0 \in T, \A n \in Nat : n \in T => n + 1 \in T
    PROVE  Nat \subseteq T
<1> DEFINE R == {ss \in Nat \X Nat : ss[1] < ss[2]}
           bad == Nat \ T
<1>1. IsWellFoundedOn(R, Nat)
  BY NatLessThanWellFounded DEF OpToRel
<1>2. SUFFICES ASSUME bad # {} PROVE FALSE
  OBVIOUS
<1>3. PICK x \in bad : \A y \in bad : <<y, x>> \notin R
  <2> HIDE DEF R
  <2>1. bad \subseteq Nat
    OBVIOUS
  <2> HIDE DEF bad
  <2> QED
    BY <1>1, <1>2, <2>1, WFMin
<1>4. x \in Nat /\ x # 0 /\ x - 1 \in Nat /\ x = (x - 1) + 1
  BY <1>3
<1>5. x - 1 \notin bad
  <2>1. <<x - 1, x>> \in R
    BY <1>4
  <2> QED
    BY <1>3, <2>1
<1>6. x \in T
  BY <1>4, <1>5
<1> QED
  BY <1>3, <1>6

-----------------------------------------------------------------------------
(* Folds. *)

\* The end of the loop over l, from s on.
End(s, l) == FoldLeft(Step, s, l)

\* The function by which FoldLeft is defined, for the first m elements.
IsIter(f, base, l, m) ==
    f = [s \in SUBSET (1..m) |->
            IF s = {} THEN base ELSE Step(f[s \ {Max(s)}], l[Max(s)])]

\* Max returns the largest element.
LEMMA MaxOf ==
    ASSUME NEW s, NEW x \in s, x \in Int, \A y \in s : y \in Int /\ y <= x
    PROVE  Max(s) = x
<1> DEFINE m == CHOOSE z \in s : \A y \in s : z >= y
<1>1. m \in s /\ \A y \in s : m >= y
  <2>1. \A y \in s : x >= y
    OBVIOUS
  <2> QED
    BY <2>1
<1> HIDE DEF m
<1>2. m >= x /\ m <= x /\ m \in Int
  BY <1>1
<1>3. m = x
  BY <1>2
<1> QED
  BY <1>3 DEF Max, m

\* The function exists.
LEMMA IterExists ==
    ASSUME NEW base, NEW l, NEW n \in Nat
    PROVE  \E f : IsIter(f, base, l, n)
<1> DEFINE T == {m \in Nat : \E f : IsIter(f, base, l, m)}
<1>1. 0 \in T
  <2> DEFINE f == [s \in SUBSET (1..0) |-> base]
  <2>1. 1..0 = {}
    OBVIOUS
  <2>2. \A s \in SUBSET (1..0) : s = {}
    BY <2>1
  <2>3. IsIter(f, base, l, 0)
    BY <2>2 DEF IsIter
  <2> QED
    BY <2>3
<1>2. ASSUME NEW m \in Nat, m \in T PROVE m + 1 \in T
  <2>1. PICK f : IsIter(f, base, l, m)
    BY <1>2
  <2> DEFINE g == [s \in SUBSET (1..(m + 1)) |->
                     IF m + 1 \in s THEN Step(f[s \ {m + 1}], l[m + 1]) ELSE f[s]]
             Body(h, s) == IF s = {} THEN base ELSE Step(h[s \ {Max(s)}], l[Max(s)])
  <2>2. ASSUME NEW s \in SUBSET (1..(m + 1)) PROVE g[s] = Body(g, s)
    <3>1. CASE m + 1 \in s
      <4>1. Max(s) = m + 1
        <5>1. m + 1 \in Int /\ \A y \in s : y \in Int /\ y <= m + 1
          OBVIOUS
        <5> QED
          BY <3>1, <5>1, MaxOf
      <4>2. s \ {m + 1} \in SUBSET (1..m) /\ s \ {m + 1} \in SUBSET (1..(m + 1)) /\ m + 1 \notin s \ {m + 1}
        BY <3>1
      <4> QED
        BY <3>1, <4>1, <4>2
    <3>2. CASE m + 1 \notin s
      <4>1. s \in SUBSET (1..m)
        BY <3>2
      <4>2. f[s] = Body(f, s)
        BY <2>1, <4>1 DEF IsIter
      <4>3. s \ {Max(s)} \in SUBSET (1..(m + 1)) /\ m + 1 \notin s \ {Max(s)}
        BY <3>2
      <4>4. g[s \ {Max(s)}] = f[s \ {Max(s)}]
        BY <4>3
      <4> QED
        BY <3>2, <4>2, <4>4
    <3> QED
      BY <3>1, <3>2
  <2>3. IsIter(g, base, l, m + 1)
    <3>1. g = [s \in SUBSET (1..(m + 1)) |-> g[s]]
      OBVIOUS
    <3> HIDE DEF g
    <3> QED
      BY <3>1, <2>2 DEF IsIter
  <2> QED
    BY <2>3
<1> HIDE DEF T
<1>3. n \in T
  BY <1>1, <1>2, Induction
<1> QED
  BY <1>3 DEF T

\* The states the loop goes through, from the first to the last.
LEMMA LoopTrace ==
    ASSUME NEW base, NEW l, Len(l) \in Nat, DOMAIN l = 1..Len(l)
    PROVE  \E f : /\ f[0] = base
                  /\ \A k \in 1..Len(l) : f[k] = Step(f[k - 1], l[k])
                  /\ f[Len(l)] = End(base, l)
<1> DEFINE iter == CHOOSE f : IsIter(f, base, l, Len(l))
           f == [k \in 0..Len(l) |-> iter[1..k]]
<1>1. IsIter(iter, base, l, Len(l))
  BY IterExists
<1>2. End(base, l) = iter[1..Len(l)]
  BY DEF End, FoldLeft, MapThenFoldSet, IsIter
<1> HIDE DEF iter
<1>3. f[0] = base
  <2>1. 1..0 = {} /\ {} \in SUBSET (1..Len(l))
    OBVIOUS
  <2> QED
    BY <1>1, <2>1 DEF IsIter
<1>4. ASSUME NEW k \in 1..Len(l) PROVE f[k] = Step(f[k - 1], l[k])
  <2>1. Max(1..k) = k
    <3>1. k \in 1..k /\ k \in Int /\ \A y \in 1..k : y \in Int /\ y <= k
      OBVIOUS
    <3> QED
      BY <3>1, MaxOf
  <2>2. (1..k) \ {k} = 1..(k - 1) /\ 1..k \in SUBSET (1..Len(l)) /\ 1..k # {}
    <3>1. (1..k) \ {k} = 1..(k - 1)
      OBVIOUS
    <3>2. \A i \in 1..k : i \in 1..Len(l)
      OBVIOUS
    <3>3. k \in 1..k
      OBVIOUS
    <3> QED
      BY <3>1, <3>2, <3>3
  <2>3. iter[1..k] = Step(iter[1..(k - 1)], l[k])
    BY <1>1, <2>1, <2>2 DEF IsIter
  <2> QED
    BY <2>3
<1>5. f[Len(l)] = iter[1..Len(l)]
  OBVIOUS
<1> HIDE DEF f
<1>6. f[Len(l)] = End(base, l)
  BY <1>2, <1>5
<1> QED
  BY <1>3, <1>4, <1>6

\* What holds before a loop starts and is kept by each round holds when it has
\* ended.
LEMMA LoopKeeps ==
    ASSUME NEW c, NEW s0, NEW l, Len(l) \in Nat, DOMAIN l = 1..Len(l),
           Good(c, s0, 0),
           \A k \in 1..Len(l) : \A s : Good(c, s, k - 1) => Good(c, Step(s, l[k]), k)
    PROVE  Good(c, End(s0, l), Len(l))
<1>1. PICK f : /\ f[0] = s0
               /\ \A k \in 1..Len(l) : f[k] = Step(f[k - 1], l[k])
               /\ f[Len(l)] = End(s0, l)
  BY LoopTrace
<1> DEFINE T == {k \in Nat : k <= Len(l) => Good(c, f[k], k)}
<1>2. 0 \in T
  BY <1>1
<1>3. ASSUME NEW m \in Nat, m \in T PROVE m + 1 \in T
  <2>1. SUFFICES ASSUME m + 1 <= Len(l) PROVE Good(c, f[m + 1], m + 1)
    OBVIOUS
  <2>2. f[m + 1] = Step(f[m], l[m + 1])
    BY <1>1, <2>1
  <2>3. Good(c, f[m], m) /\ m + 1 \in 1..Len(l) /\ (m + 1) - 1 = m
    BY <1>3, <2>1
  <2> QED
    BY <2>2, <2>3
<1> HIDE DEF T
<1>4. Len(l) \in T
  BY <1>2, <1>3, Induction
<1> QED
  BY <1>1, <1>4 DEF T
=============================================================================
