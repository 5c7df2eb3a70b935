------------------------------ MODULE LeftFolds ------------------------------
(***************************************************************************)
(* A fold from the left as its trace: what it has made of the first k      *)
(* elements, for each k.  A proof about a fold is an induction up to its   *)
(* length.  Op is a parameter of the module because no prover can be given *)
(* an operator: a proof module has an instance for each Op that is folded, *)
(* and c is all that the Op needs besides what is folded.                  *)
(***************************************************************************)
EXTENDS Integers, FiniteSetsExt, SequencesExt, WellFoundedInduction, TLAPS

CONSTANT Op(_, _, _)

Folded(c, base, seq) == FoldLeft(LAMBDA x, y : Op(c, x, y), base, seq)

\* The results after 0, 1, ... n elements.
IsTrace(H, c, base, seq, n) ==
  /\ DOMAIN H = 0 .. n /\ H[0] = base
  /\ \A k \in 1 .. n : H[k] = Op(c, H[k - 1], seq[k])

\* A set of numbers that is not empty has a least one.
LEMMA LeastExists ==
  ASSUME NEW S \in SUBSET Nat, S # {}
  PROVE  \E x \in S : \A y \in S : x <= y
<1> DEFINE R == {ss \in Nat \X Nat : ss[1] < ss[2]}
<1>1. IsWellFoundedOn(R, Nat)
  BY NatLessThanWellFounded DEF OpToRel
<1>2. PICK x \in S : \A y \in S : <<y, x>> \notin R
  <2> HIDE DEF R
  <2> QED  BY <1>1, WFMin
<1>3. ASSUME NEW y \in S PROVE x <= y
  <2>1. x \in Nat /\ y \in Nat /\ <<y, x>> \in Nat \X Nat
    OBVIOUS
  <2> QED
    BY <1>2, <2>1
<1> QED
  BY <1>3

\* Induction up to n.
THEOREM UpTo ==
  \A n \in Nat : \A G : 0 \in G /\ (\A k \in 1 .. n : k - 1 \in G => k \in G)
                          => \A k \in 0 .. n : k \in G
<1> SUFFICES ASSUME NEW n \in Nat, NEW G, 0 \in G,
                    \A k \in 1 .. n : k - 1 \in G => k \in G
             PROVE  \A k \in 0 .. n : k \in G
  OBVIOUS
<1> DEFINE bad == {k \in 0 .. n : k \notin G}
<1>1. ASSUME NEW m \in bad, \A y \in bad : m <= y PROVE FALSE
  <2>1. m \in 1 .. n /\ m - 1 \in 0 .. n /\ m - 1 \notin bad
    BY <1>1
  <2> QED
    BY <2>1
<1>2. bad \in SUBSET Nat
  OBVIOUS
<1>3. bad = {}
  <2> HIDE DEF bad
  <2> QED  BY <1>1, <1>2, LeastExists
<1> QED
  BY <1>3

\* The recursive function by which a fold is defined.
IsIter(f, c, base, seq, n) ==
  f = [s \in SUBSET (1 .. n) |->
         IF s = {} THEN base ELSE Op(c, f[s \ {Max(s)}], seq[Max(s)])]

LEMMA MaxOf ==
  ASSUME NEW m \in Nat, NEW s \in SUBSET (1 .. m), m \in s
  PROVE  Max(s) = m
<1>1. \A x \in s : (\A y \in s : x >= y) <=> x = m
  OBVIOUS
<1> QED
  BY <1>1 DEF Max

\* There is one.
LEMMA IterExists ==
  ASSUME NEW c, NEW base, NEW seq, NEW n \in Nat
  PROVE  \E f : IsIter(f, c, base, seq, n)
<1> DEFINE G == {m \in 0 .. n : \E f : IsIter(f, c, base, seq, m)}
<1>1. 0 \in G
  <2> DEFINE f == [s \in SUBSET (1 .. 0) |-> base]
  <2>1. SUBSET (1 .. 0) = {{}}
    OBVIOUS
  <2>2. IsIter(f, c, base, seq, 0)
    BY <2>1 DEF IsIter
  <2> QED
    BY <2>2
<1>2. ASSUME NEW m \in 1 .. n, m - 1 \in G PROVE m \in G
  <2>1. PICK f : IsIter(f, c, base, seq, m - 1)
    BY <1>2
  <2> DEFINE g == [s \in SUBSET (1 .. m) |->
                     IF m \in s THEN Op(c, f[s \ {m}], seq[m]) ELSE f[s]]
             body(h, s) == IF s = {} THEN base ELSE Op(c, h[s \ {Max(s)}], seq[Max(s)])
  <2>2. ASSUME NEW s \in SUBSET (1 .. m) PROVE g[s] = body(g, s)
    <3>1. CASE m \in s
      <4>1. Max(s) = m /\ s # {}
        BY <3>1, MaxOf
      <4>2. s \ {m} \in SUBSET (1 .. m) /\ m \notin s \ {m}
        OBVIOUS
      <4>3. g[s] = Op(c, f[s \ {m}], seq[m]) /\ g[s \ {m}] = f[s \ {m}]
        BY <3>1, <4>2
      <4> HIDE DEF g
      <4> QED
        BY <4>1, <4>3
    <3>2. CASE m \notin s
      <4>1. s \in SUBSET (1 .. m - 1)
        BY <3>2
      <4>2. g[s] = f[s] /\ f[s] = body(f, s)
        <5>1. g[s] = f[s]
          BY <3>2
        <5>2. f[s] = body(f, s)
          BY <2>1, <4>1 DEF IsIter
        <5> QED
          BY <5>1, <5>2
      <4>3. s \ {Max(s)} \in SUBSET (1 .. m) /\ m \notin s \ {Max(s)}
        BY <3>2
      <4>4. g[s \ {Max(s)}] = f[s \ {Max(s)}]
        BY <4>3
      <4> HIDE DEF g
      <4> QED
        BY <4>2, <4>4
    <3> QED
      BY <3>1, <3>2
  <2>3. g = [s \in SUBSET (1 .. m) |-> body(g, s)]
    <3>1. g = [s \in SUBSET (1 .. m) |-> g[s]]
      OBVIOUS
    <3> HIDE DEF g, body
    <3> QED
      BY <2>2, <3>1
  <2>4. IsIter(g, c, base, seq, m)
    <3> HIDE DEF g
    <3> QED  BY <2>3 DEF IsIter
  <2> QED
    BY <2>4
<1>3. \A m \in 0 .. n : m \in G
  <2> HIDE DEF G
  <2> QED  BY <1>1, <1>2, UpTo
<1> QED
  BY <1>3

\* Every fold of a sequence has a trace, and is the last of it.
THEOREM FoldTrace ==
  \A c, base, seq : \A n \in Nat :
    DOMAIN seq = 1 .. n => \E H : IsTrace(H, c, base, seq, n) /\ Folded(c, base, seq) = H[n]
<1> SUFFICES ASSUME NEW c, NEW base, NEW seq, NEW n \in Nat, DOMAIN seq = 1 .. n
             PROVE  \E H : IsTrace(H, c, base, seq, n) /\ Folded(c, base, seq) = H[n]
  OBVIOUS
<1> DEFINE iter == CHOOSE f : IsIter(f, c, base, seq, n)
<1>1. Folded(c, base, seq) = iter[1 .. n]
  BY DEF Folded, FoldLeft, MapThenFoldSet, IsIter
<1>2. IsIter(iter, c, base, seq, n)
  BY IterExists
<1> HIDE DEF iter
<1> DEFINE H == [k \in 0 .. n |-> iter[1 .. k]]
<1>3. H[0] = base
  BY <1>2 DEF IsIter
<1>4. ASSUME NEW k \in 1 .. n PROVE H[k] = Op(c, H[k - 1], seq[k])
  <2>1. (1 .. k) \in SUBSET (1 .. n) /\ Max(1 .. k) = k /\ 1 .. k # {}
    BY MaxOf
  <2>2. (1 .. k) \ {k} = 1 .. k - 1
    OBVIOUS
  <2>3. iter[1 .. k] = Op(c, iter[1 .. k - 1], seq[k])
    BY <1>2, <2>1, <2>2 DEF IsIter
  <2> QED
    BY <2>3
<1>5. IsTrace(H, c, base, seq, n)
  BY <1>3, <1>4 DEF IsTrace
<1>6. Folded(c, base, seq) = H[n]
  BY <1>1
<1> QED
  BY <1>5, <1>6

\* A fold of nothing.
THEOREM FoldOfNone == \A c, base : Folded(c, base, <<>>) = base
<1> SUFFICES ASSUME NEW c, NEW base PROVE Folded(c, base, <<>>) = base
  OBVIOUS
<1>1. DOMAIN <<>> = 1 .. 0 /\ 0 \in Nat
  OBVIOUS
<1>2. PICK H : IsTrace(H, c, base, <<>>, 0) /\ Folded(c, base, <<>>) = H[0]
  BY <1>1, FoldTrace
<1> QED
  BY <1>2 DEF IsTrace

\* A fold of one element more.
THEOREM FoldOfMore ==
  \A c, base, S : \A seq \in Seq(S), x \in S :
    Folded(c, base, Append(seq, x)) = Op(c, Folded(c, base, seq), x)
<1> SUFFICES ASSUME NEW c, NEW base, NEW S, NEW seq \in Seq(S), NEW x \in S
             PROVE  Folded(c, base, Append(seq, x)) = Op(c, Folded(c, base, seq), x)
  OBVIOUS
<1> DEFINE n == Len(seq)
           more == Append(seq, x)
<1>1. /\ n \in Nat /\ DOMAIN seq = 1 .. n /\ DOMAIN more = 1 .. n + 1 /\ more[n + 1] = x
      /\ \A k \in 1 .. n : more[k] = seq[k]
  OBVIOUS
<1> HIDE DEF n, more
<1>2. PICK H : IsTrace(H, c, base, seq, n) /\ Folded(c, base, seq) = H[n]
  BY <1>1, FoldTrace
<1>3. PICK K : IsTrace(K, c, base, more, n + 1) /\ Folded(c, base, more) = K[n + 1]
  BY <1>1, FoldTrace
<1> DEFINE G == {k \in 0 .. n : H[k] = K[k]}
<1>4. 0 \in G
  BY <1>1, <1>2, <1>3 DEF IsTrace
<1>5. ASSUME NEW k \in 1 .. n, k - 1 \in G PROVE k \in G
  <2>1. H[k] = Op(c, H[k - 1], seq[k])
    BY <1>2 DEF IsTrace
  <2>2. K[k] = Op(c, K[k - 1], more[k])
    <3>1. k \in 1 .. n + 1
      BY <1>1
    <3> QED
      BY <1>3, <3>1 DEF IsTrace
  <2> QED
    BY <1>1, <1>5, <2>1, <2>2
<1>6. \A k \in 0 .. n : k \in G
  <2> HIDE DEF G
  <2> QED  BY <1>1, <1>4, <1>5, UpTo
<1>7. H[n] = K[n]
  BY <1>1, <1>6
<1>8. K[n + 1] = Op(c, K[n], x)
  <2>1. n + 1 \in 1 .. n + 1 /\ (n + 1) - 1 = n
    BY <1>1
  <2> QED
    BY <1>1, <1>3, <2>1 DEF IsTrace
<1> QED
  BY <1>2, <1>3, <1>7, <1>8 DEF more
=============================================================================
