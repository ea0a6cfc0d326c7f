---------------------------- MODULE FoldTheorems ----------------------------
(***************************************************************************)
(* Induction over the folds of the community modules.  A fold over a set   *)
(* is a recursive function on its subsets, which takes the elements in an  *)
(* order of its own: what holds of its result is shown for every order.    *)
(*                                                                         *)
(* The step of the fold and the property are parameters of the module, so  *)
(* that an instance of it is an instance of the induction.                 *)
(***************************************************************************)
EXTENDS Integers, FiniteSetTheorems, TLAPS

CONSTANTS
    Step(_, _, _),   \* Step(c, x, a): element x, in context c, added to a
    Pick(_),         \* the element of a set that the fold takes last
    P(_, _, _)       \* P(c, T, a): what holds of the fold a over T

\* Induction on finite sets, for what holds of a set in F: it holds of S if
\* it holds of each subset of S whenever it holds of that subset less any one
\* of its elements.
LEMMA FiniteInduction ==
    ASSUME NEW S, IsFiniteSet(S), NEW F \in SUBSET (SUBSET S),
           \A T \in SUBSET S : (\A x \in T : T \ {x} \in F) => T \in F
    PROVE  S \in F
  <1> DEFINE R == StrictSubsetOrdering(S)
             bad == (SUBSET S) \ F
  <1> SUFFICES ASSUME S \notin F
               PROVE  FALSE
    OBVIOUS
  <1>1. IsWellFoundedOn(R, FiniteSubsetsOf(S))
    BY FS_StrictSubsetOrderingWellFounded
  <1>2. bad \subseteq FiniteSubsetsOf(S)
    BY FS_Subset DEF FiniteSubsetsOf
  <1>3. bad # {}
    OBVIOUS
  <1>4. PICK T \in bad : \A y \in bad : ~(<<y, T>> \in R)
    <2> HIDE DEF bad, R
    <2> QED
      BY <1>1, <1>2, <1>3, WFMin
  <1>5. \A x \in T : <<T \ {x}, T>> \in R
    BY DEF StrictSubsetOrdering
  <1> QED
    BY <1>4, <1>5

\* It is one of its elements.
Picks(S) == \A s \in SUBSET S : s # {} => Pick(s) \in s

\* The equation of the fold, for the subsets of T.
Body(c, base, T, it) ==
    [s \in SUBSET T |-> IF s = {} THEN base ELSE Step(c, Pick(s), it[s \ {Pick(s)}])]
Recursive(c, base, T, it) == it = Body(c, base, T, it)

\* The fold itself, as the definitions of the community modules come out.
Fold(c, base, S) ==
    (CHOOSE it : it = [s \in SUBSET S |->
        IF s = {} THEN base ELSE Step(c, Pick(s), it[s \ {Pick(s)}])])[S]

\* The equation at a set.
At(c, base, it, s) == it[s] = IF s = {} THEN base ELSE Step(c, Pick(s), it[s \ {Pick(s)}])

\* It holds at every subset.
LEMMA RecursiveAt ==
    ASSUME NEW c, NEW base, NEW T, NEW it, Recursive(c, base, T, it), NEW s \in SUBSET T
    PROVE  At(c, base, it, s)
  BY DEF Recursive, Body, At

\* Solutions agree where both are defined.
LEMMA Agree ==
    ASSUME NEW c, NEW base, NEW T, NEW it, Recursive(c, base, T, it),
           NEW T2, NEW it2, Recursive(c, base, T2, it2),
           NEW s, s \subseteq T, s \subseteq T2, IsFiniteSet(s), Picks(s)
    PROVE  it[s] = it2[s]
  <1> DEFINE F == {u \in SUBSET s : it[u] = it2[u]}
  <1>1. ASSUME NEW u \in SUBSET s, \A x \in u : u \ {x} \in F
        PROVE  u \in F
    <2>1. u \in SUBSET T /\ u \in SUBSET T2
      OBVIOUS
    <2>2. /\ it[u] = IF u = {} THEN base ELSE Step(c, Pick(u), it[u \ {Pick(u)}])
          /\ it2[u] = IF u = {} THEN base ELSE Step(c, Pick(u), it2[u \ {Pick(u)}])
      BY <2>1, RecursiveAt DEF At
    <2>3. u # {} => it[u \ {Pick(u)}] = it2[u \ {Pick(u)}]
      BY <1>1 DEF Picks
    <2> QED
      BY <2>2, <2>3
  <1>2. F \in SUBSET (SUBSET s)
    OBVIOUS
  <1> HIDE DEF F
  <1>3. s \in F
    BY <1>1, <1>2, FiniteInduction
  <1> QED
    BY <1>3 DEF F

\* There is a solution for every finite set.
LEMMA Solution ==
    ASSUME NEW c, NEW base, NEW S, IsFiniteSet(S), Picks(S)
    PROVE  \E it : Recursive(c, base, S, it)
  <1> DEFINE F == {T \in SUBSET S : \E it : Recursive(c, base, T, it)}
  <1>1. ASSUME NEW T \in SUBSET S, \A x \in T : T \ {x} \in F
        PROVE  T \in F
    <2> DEFINE h(x) == CHOOSE it : Recursive(c, base, T \ {x}, it)
               other(s) == CHOOSE x \in T \ s : TRUE
               top == IF T = {} THEN base ELSE Step(c, Pick(T), h(Pick(T))[T \ {Pick(T)}])
               new == [s \in SUBSET T |-> IF s = T THEN top ELSE h(other(s))[s]]
    <2>1. \A x \in T : Recursive(c, base, T \ {x}, h(x))
      BY <1>1
    <2>2. \A s \in SUBSET T : s # T => other(s) \in T /\ other(s) \notin s
      OBVIOUS
    <2>3. \A s \in SUBSET T : IsFiniteSet(s)
      BY FS_Subset
    <2> HIDE DEF h, other
    <2>4. ASSUME NEW s \in SUBSET T, NEW x \in T, x \notin s
          PROVE  new[s] = h(x)[s]
      <3>1. other(s) \in T /\ other(s) \notin s /\ new[s] = h(other(s))[s]
        BY <2>2, <2>4
      <3>2. s \subseteq T \ {x} /\ s \subseteq T \ {other(s)} /\ IsFiniteSet(s)
        BY <2>3, <2>4, <3>1
      <3>3. h(other(s))[s] = h(x)[s]
        <4>1. Recursive(c, base, T \ {x}, h(x)) /\ Recursive(c, base, T \ {other(s)}, h(other(s)))
          BY <2>1, <2>4, <3>1
        <4> DEFINE g == h(x)
                   g2 == h(other(s))
                   U == T \ {x}
                   U2 == T \ {other(s)}
        <4>2. /\ Recursive(c, base, U, g) /\ Recursive(c, base, U2, g2)
              /\ s \subseteq U /\ s \subseteq U2 /\ IsFiniteSet(s) /\ Picks(s)
          BY <3>2, <4>1 DEF Picks
        <4> HIDE DEF g, g2, U, U2
        <4>3. g2[s] = g[s]
          BY <4>2, Agree
        <4> QED
          BY <4>3 DEF g, g2
      <3> QED
        BY <3>1, <3>3
    <2>5. ASSUME NEW s \in SUBSET T
          PROVE  new[s] = IF s = {} THEN base ELSE Step(c, Pick(s), new[s \ {Pick(s)}])
      <3>1. CASE s = T
        <4>1. CASE T = {}
          BY <3>1, <4>1
        <4>2. CASE T # {}
          <5>1. Pick(T) \in T
            BY <4>2 DEF Picks
          <5>2. new[T] = Step(c, Pick(T), h(Pick(T))[T \ {Pick(T)}])
            BY <4>2
          <5>3. new[T \ {Pick(T)}] = h(Pick(T))[T \ {Pick(T)}]
            BY <2>4, <5>1
          <5> QED
            BY <3>1, <4>2, <5>2, <5>3
        <4> QED
          BY <4>1, <4>2
      <3>2. CASE s # T
        <4>1. PICK x \in T : x \notin s
          BY <3>2
        <4>2. new[s] = h(x)[s]
          BY <2>4, <4>1
        <4>3. s \in SUBSET (T \ {x}) /\ Recursive(c, base, T \ {x}, h(x))
          BY <2>1, <4>1
        <4>4. h(x)[s] = IF s = {} THEN base ELSE Step(c, Pick(s), h(x)[s \ {Pick(s)}])
          <5>1. At(c, base, h(x), s)
            BY <4>3, RecursiveAt, Zenon
          <5> QED
            BY <5>1 DEF At
        <4>5. new[s \ {Pick(s)}] = h(x)[s \ {Pick(s)}]
          <5>1. s \ {Pick(s)} \in SUBSET T /\ x \notin s \ {Pick(s)}
            BY <4>1
          <5> QED
            BY <2>4, <5>1
        <4> QED
          BY <4>2, <4>4, <4>5
      <3> QED
        BY <3>1, <3>2
    <2>6. Recursive(c, base, T, new)
      <3>1. new = [s \in SUBSET T |-> new[s]]
        OBVIOUS
      <3> HIDE DEF new
      <3> QED
        BY <2>5, <3>1 DEF Recursive, Body
    <2> QED
      BY <2>6
  <1>2. F \in SUBSET (SUBSET S)
    OBVIOUS
  <1> HIDE DEF F
  <1>3. S \in F
    BY <1>1, <1>2, FiniteInduction
  <1> QED
    BY <1>3 DEF F

\* The property holds of the base for no element, and every step keeps it.
Inductive(c, base, S) ==
    /\ Picks(S)
    /\ P(c, {}, base)
    /\ \A T \in SUBSET S : \A x \in T : \A a : P(c, T \ {x}, a) => P(c, T, Step(c, x, a))

\* Then it holds of the fold.
LEMMA FoldInduction ==
    ASSUME NEW c, NEW base, NEW S, IsFiniteSet(S), Inductive(c, base, S)
    PROVE  P(c, S, Fold(c, base, S))
  <1> DEFINE iter == CHOOSE it : Recursive(c, base, S, it)
  <1>1. Recursive(c, base, S, iter)
    BY Solution, Zenon DEF Inductive
  <1>2. Fold(c, base, S) = iter[S]
    BY DEF Fold, Recursive, Body
  <1> HIDE DEF iter
  <1>a. /\ Picks(S)
        /\ P(c, {}, base)
        /\ \A T \in SUBSET S : \A x \in T : \A a : P(c, T \ {x}, a) => P(c, T, Step(c, x, a))
    BY DEF Inductive
  <1> DEFINE F == {T \in SUBSET S : P(c, T, iter[T])}
  <1>3. ASSUME NEW T \in SUBSET S, \A x \in T : T \ {x} \in F
        PROVE  T \in F
    <2>1. iter[T] = IF T = {} THEN base ELSE Step(c, Pick(T), iter[T \ {Pick(T)}])
      <3>1. At(c, base, iter, T)
        BY <1>1, RecursiveAt, Zenon
      <3> QED
        BY <3>1 DEF At
    <2>2. CASE T = {}
      BY <1>a, <2>1, <2>2
    <2>3. CASE T # {}
      <3>1. Pick(T) \in T
        BY <1>a, <2>3 DEF Picks
      <3>2. P(c, T \ {Pick(T)}, iter[T \ {Pick(T)}])
        BY <1>3, <3>1
      <3>3. P(c, T, Step(c, Pick(T), iter[T \ {Pick(T)}]))
        BY <1>a, <3>1, <3>2
      <3> QED
        BY <2>1, <2>3, <3>3
    <2> QED
      BY <2>2, <2>3
  <1>4. F \in SUBSET (SUBSET S)
    OBVIOUS
  <1> HIDE DEF F
  <1>5. S \in F
    BY <1>3, <1>4, FiniteInduction
  <1> QED
    BY <1>2, <1>5 DEF F

\* A fold is the step of the element taken last on the fold of the others.
LEMMA FoldEquation ==
    ASSUME NEW c, NEW base, NEW S, IsFiniteSet(S), Picks(S)
    PROVE  Fold(c, base, S) =
             IF S = {} THEN base ELSE Step(c, Pick(S), Fold(c, base, S \ {Pick(S)}))
  <1> DEFINE iter(T) == CHOOSE it : Recursive(c, base, T, it)
  <1>1. \A T : Fold(c, base, T) = iter(T)[T]
    BY DEF Fold, Recursive, Body
  <1>2. \A T \in SUBSET S : Recursive(c, base, T, iter(T))
    <2> SUFFICES ASSUME NEW T \in SUBSET S PROVE Recursive(c, base, T, iter(T))
      OBVIOUS
    <2>1. IsFiniteSet(T) /\ Picks(T)
      BY FS_Subset DEF Picks
    <2>2. \E it : Recursive(c, base, T, it)
      BY <2>1, Solution
    <2> QED
      BY <2>2
  <1> HIDE DEF iter
  <1>3. iter(S)[S] = IF S = {} THEN base ELSE Step(c, Pick(S), iter(S)[S \ {Pick(S)}])
    <2> DEFINE g == iter(S)
    <2>1. Recursive(c, base, S, g) /\ S \in SUBSET S
      BY <1>2
    <2> HIDE DEF g
    <2>2. At(c, base, g, S)
      BY <2>1, RecursiveAt, Zenon
    <2> QED
      BY <2>2 DEF At, g
  <1>4. ASSUME S # {}
        PROVE  iter(S)[S \ {Pick(S)}] = Fold(c, base, S \ {Pick(S)})
    <2> DEFINE T == S \ {Pick(S)}
               g == iter(S)
               g2 == iter(T)
    <2>1. T \in SUBSET S /\ IsFiniteSet(T) /\ Picks(T)
      BY FS_Subset DEF Picks
    <2>2. Recursive(c, base, S, g) /\ Recursive(c, base, T, g2)
      BY <1>2, <2>1
    <2> HIDE DEF g, g2, T
    <2>3. g[T] = g2[T]
      BY <2>1, <2>2, Agree
    <2> QED
      BY <1>1, <2>3 DEF g, g2, T
  <1> QED
    BY <1>1, <1>3, <1>4

\* Steps that may be swapped.
Commutes(c, S) ==
    \A T \in SUBSET S : \A x, y \in T : \A a : P(c, T \ {x, y}, a) =>
        Step(c, x, Step(c, y, a)) = Step(c, y, Step(c, x, a))

\* Then any of the elements may be the last.
LEMMA FoldAny ==
    ASSUME NEW c, NEW base, NEW S, IsFiniteSet(S), Inductive(c, base, S), Commutes(c, S),
           NEW x \in S
    PROVE  Fold(c, base, S) = Step(c, x, Fold(c, base, S \ {x}))
  <1> DEFINE fold(T) == Fold(c, base, T)
             F == {T \in SUBSET S : \A z \in T : fold(T) = Step(c, z, fold(T \ {z}))}
  <1>1. Picks(S)
    BY DEF Inductive
  <1>2. \A T \in SUBSET S : IsFiniteSet(T) /\ Picks(T) /\ Inductive(c, base, T)
    <2> SUFFICES ASSUME NEW T \in SUBSET S PROVE IsFiniteSet(T) /\ Picks(T) /\ Inductive(c, base, T)
      OBVIOUS
    <2>1. IsFiniteSet(T) /\ Picks(T)
      BY <1>1, FS_Subset DEF Picks
    <2>2. Inductive(c, base, T)
      BY <2>1 DEF Inductive
    <2> QED
      BY <2>1, <2>2
  <1>3. \A T \in SUBSET S : P(c, T, fold(T))
    BY <1>2, FoldInduction
  <1>4. \A T \in SUBSET S : T # {} => Pick(T) \in T /\ fold(T) = Step(c, Pick(T), fold(T \ {Pick(T)}))
    BY <1>1, <1>2, FoldEquation DEF Picks
  <1> HIDE DEF fold
  <1>5. ASSUME NEW T \in SUBSET S, \A z \in T : T \ {z} \in F
        PROVE  T \in F
    <2> SUFFICES ASSUME NEW z \in T PROVE fold(T) = Step(c, z, fold(T \ {z}))
      OBVIOUS
    <2> DEFINE y == Pick(T)
    <2>1. y \in T /\ fold(T) = Step(c, y, fold(T \ {y}))
      BY <1>4
    <2> HIDE DEF y
    <2>2. CASE y = z
      BY <2>1, <2>2
    <2>3. CASE y # z
      <3> DEFINE U == T \ {z, y}
      <3>1. (T \ {y}) \ {z} = U /\ (T \ {z}) \ {y} = U
        OBVIOUS
      <3>2. fold(T \ {y}) = Step(c, z, fold(U))
        <4>1. T \ {y} \in F /\ z \in T \ {y}
          BY <1>5, <2>1, <2>3
        <4>2. fold(T \ {y}) = Step(c, z, fold((T \ {y}) \ {z}))
          BY <4>1
        <4> QED
          BY <3>1, <4>2
      <3>3. fold(T \ {z}) = Step(c, y, fold(U))
        <4>1. T \ {z} \in F /\ y \in T \ {z}
          BY <1>5, <2>1, <2>3
        <4>2. fold(T \ {z}) = Step(c, y, fold((T \ {z}) \ {y}))
          BY <4>1
        <4> QED
          BY <3>1, <4>2
      <3>4. P(c, U, fold(U))
        BY <1>3
      <3> HIDE DEF F
      <3>5. Step(c, y, Step(c, z, fold(U))) = Step(c, z, Step(c, y, fold(U)))
        BY <2>1, <3>4 DEF Commutes
      <3> QED
        BY <2>1, <3>2, <3>3, <3>5
    <2> QED
      BY <2>2, <2>3
  <1>6. F \in SUBSET (SUBSET S)
    OBVIOUS
  <1> HIDE DEF F
  <1>7. S \in F
    BY <1>5, <1>6, FiniteInduction
  <1> QED
    BY <1>7 DEF F, fold
=============================================================================
