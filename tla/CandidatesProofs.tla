------------------------- MODULE CandidatesProofs -------------------------
(***************************************************************************)
(* Proofs about what becomes of extracted candidates, for any pages, calls *)
(* and worlds: reported batches are kept, routes stay apart, and the gate  *)
(* passes a complete list only.                                            *)
(***************************************************************************)
EXTENDS Candidates, SequenceTheorems, FiniteSetTheorems, WellFoundedInduction, TLAPS

USE CandidatesAssumption DEF CandidatesAssumption

-----------------------------------------------------------------------------
(* Induction and recursion over the first numbers.                         *)

\* A set of numbers has a least one.
LEMMA Least ==
  ASSUME NEW S \in SUBSET Nat, S # {}
  PROVE  \E x \in S : \A y \in S : x <= y
<1>1. PICK x \in S : \A y \in S : ~ (<<y, x>> \in OpToRel(<, Nat))
  BY WFMin, NatLessThanWellFounded
<1>2. \A y \in S : ~ (y < x)
  BY <1>1, Zenon DEF OpToRel
<1>3. \A y \in S : x <= y
  BY <1>2
<1> QED
  BY <1>3

\* A set of numbers up to a bound has a greatest one.
LEMMA Greatest ==
  ASSUME NEW k \in Nat, NEW S \in SUBSET (1..k), S # {}
  PROVE  \E x \in S : \A y \in S : x >= y
<1> DEFINE B == {m \in 0..k : \A y \in S : m >= y}
<1>1. k \in B
  OBVIOUS
<1>2. PICK m \in B : \A y \in B : m <= y
  <2>1. B \in SUBSET Nat
    OBVIOUS
  <2> HIDE DEF B
  <2> QED
    BY <1>1, <2>1, Least
<1>3. m \in 0..k /\ \A y \in S : m >= y
  BY <1>2
<1>4. m \in S
  <2> SUFFICES ASSUME m \notin S PROVE FALSE
    OBVIOUS
  <2>1. m # 0
    <3>1. PICK y \in S : TRUE
      OBVIOUS
    <3>2. m >= y /\ y \in 1..k
      BY <1>3
    <3> QED
      BY <3>2
  <2>2. m - 1 \in 0..k /\ ~ (m <= m - 1)
    BY <1>3, <2>1
  <2>3. ASSUME NEW y \in S PROVE m - 1 >= y
    BY <1>3, <2>3
  <2>4. m - 1 \in B
    BY <2>2, <2>3
  <2> HIDE DEF B
  <2> QED
    BY <1>2, <2>2, <2>4
<1> QED
  BY <1>3, <1>4

\* What holds at first and from one number to the next holds in the end.
LEMMA Climbs ==
  ASSUME NEW k \in Nat, NEW V, NEW f, f[0] \in V[0],
         \A n \in 1..k : f[n - 1] \in V[n - 1] => f[n] \in V[n]
  PROVE  f[k] \in V[k]
<1> DEFINE Out == {n \in 0..k : f[n] \notin V[n]}
<1> SUFFICES ASSUME Out # {} PROVE FALSE
  OBVIOUS
<1>1. PICK n \in Out : \A y \in Out : n <= y
  <2>1. Out \in SUBSET Nat
    OBVIOUS
  <2> HIDE DEF Out
  <2> QED
    BY <2>1, Least
<1>2. n \in 0..k /\ f[n] \notin V[n]
  BY <1>1
<1>3. n \in 1..k /\ n - 1 \in 0..k /\ ~ (n <= n - 1)
  BY <1>2
<1>4. f[n - 1] \notin V[n - 1]
  BY <1>2, <1>3
<1>5. n - 1 \in Out
  BY <1>3, <1>4
<1> HIDE DEF Out
<1> QED
  BY <1>1, <1>3, <1>5

\* Step n takes the values of V[n - 1] to those of V[n].
Steps(k, V, G) == \A n \in 1..k : G[n] \in [V[n - 1] -> V[n]]

\* The values that k such steps run through.
Follows(f, k, V, b, G) ==
  /\ f = [n \in 0..k |-> f[n]] /\ f[0] = b
  /\ \A n \in 1..k : f[n] = G[n][f[n - 1]]
  /\ \A n \in 0..k : f[n] \in V[n]

\* A sequence of values in which each follows from the one before exists.
LEMMA Recursion ==
  ASSUME NEW k \in Nat, NEW V, NEW b \in V[0], NEW G, Steps(k, V, G)
  PROVE  \E f : Follows(f, k, V, b, G)
<1> DEFINE Is(f, m) == /\ f = [n \in 0..m |-> f[n]] /\ f[0] = b
                       /\ \A n \in 1..m : f[n] = G[n][f[n - 1]]
                       /\ \A n \in 0..m : f[n] \in V[n]
           Missing == {m \in 0..k : ~ \E f : Is(f, m)}
<1> SUFFICES ASSUME Missing # {} PROVE FALSE
  <2>1. k \in 0..k
    OBVIOUS
  <2>2. k \notin Missing => \E f : Is(f, k)
    BY <2>1, Zenon
  <2>3. PICK f : Is(f, k)
    BY <2>2, Zenon
  <2> QED
    BY <2>3, Zenon DEF Follows
<1>1. PICK m \in Missing : \A y \in Missing : m <= y
  <2>1. Missing \in SUBSET Nat
    OBVIOUS
  <2> HIDE DEF Missing
  <2> QED
    BY <2>1, Least
<1>2. m \in 0..k /\ ~ \E f : Is(f, m)
  BY <1>1
<1>3. m # 0
  <2> DEFINE e == [n \in 0..0 |-> b]
  <2>1. Is(e, 0)
    OBVIOUS
  <2> HIDE DEF e, Is
  <2> QED
    BY <1>2, <2>1
<1>4. m - 1 \in 0..k /\ ~ (m <= m - 1) /\ m \in 1..k
  BY <1>2, <1>3
<1>5. \E f : Is(f, m - 1)
  <2>1. m - 1 \notin Missing
    <3> HIDE DEF Missing
    <3> QED
      BY <1>1, <1>4
  <2> HIDE DEF Is
  <2> QED
    BY <1>4, <2>1
<1>6. PICK f : Is(f, m - 1)
  BY <1>5
<1> DEFINE g == [n \in 0..m |-> IF n = m THEN G[m][f[m - 1]] ELSE f[n]]
<1>7. f[m - 1] \in V[m - 1] /\ G[m][f[m - 1]] \in V[m]
  BY <1>4, <1>6 DEF Steps
<1>8. ASSUME NEW n \in 0..m
      PROVE  g[n] \in V[n] /\ (n = 0 => g[n] = b) /\ (n # 0 => g[n] = G[n][g[n - 1]])
  <2>1. CASE n = m
    <3>1. g[n] = G[m][f[m - 1]] /\ g[n - 1] = f[n - 1]
      BY <1>4, <2>1
    <3> HIDE DEF g
    <3> QED
      BY <1>3, <1>7, <2>1, <3>1
  <2>2. CASE n # m
    <3>1. n \in 0..m - 1
      BY <1>4, <2>2
    <3>2. g[n] = f[n]
      BY <2>2
    <3>3. n # 0 => g[n - 1] = f[n - 1]
      BY <3>1
    <3>4. f[n] \in V[n] /\ (n = 0 => f[n] = b) /\ (n # 0 => f[n] = G[n][f[n - 1]])
      <4>1. n \in 0..m - 1 /\ n \in 0..k /\ (n # 0 => n \in 1..m - 1)
        BY <1>2, <3>1
      <4> QED
        BY <1>6, <4>1
    <3> HIDE DEF g
    <3> QED
      BY <3>2, <3>3, <3>4
  <2> QED
    BY <2>1, <2>2
<1>9. Is(g, m)
  <2>1. g = [n \in 0..m |-> g[n]]
    OBVIOUS
  <2>2. 0 \in 0..m /\ \A n \in 1..m : n \in 0..m /\ n # 0
    BY <1>2
  <2> HIDE DEF g
  <2> QED
    BY <1>8, <2>1, <2>2
<1> HIDE DEF g, Is
<1> QED
  BY <1>2, <1>9

-----------------------------------------------------------------------------
(* What a sequence contains.                                               *)

LEMMA InSequence ==
  ASSUME NEW T, NEW s \in Seq(T)
  PROVE  /\ Len(s) \in Nat /\ DOMAIN s = 1..Len(s)
         /\ ToSet(s) = {s[i] : i \in 1..Len(s)} /\ ToSet(s) \in SUBSET T
  BY DEF ToSet

\* A member is added.
LEMMA InAppended ==
  ASSUME NEW T, NEW s \in Seq(T), NEW c \in T
  PROVE  Append(s, c) \in Seq(T) /\ ToSet(Append(s, c)) = ToSet(s) \cup {c}
<1> DEFINE x == Append(s, c)
<1>1. /\ x \in Seq(T) /\ Len(x) = Len(s) + 1 /\ x[Len(s) + 1] = c
      /\ \A i \in 1..Len(s) : x[i] = s[i]
  BY AppendProperties
<1>2. Len(s) \in Nat /\ ToSet(s) = {s[i] : i \in 1..Len(s)} /\ ToSet(x) = {x[i] : i \in 1..Len(x)}
  BY <1>1, InSequence
<1> HIDE DEF x
<1>3. \A i \in 1..Len(x) : i \in 1..Len(s) \/ i = Len(s) + 1
  BY <1>1, <1>2
<1>4. 1..Len(s) \subseteq 1..Len(x) /\ Len(s) + 1 \in 1..Len(x)
  BY <1>1, <1>2
<1>5. ToSet(x) = ToSet(s) \cup {c}
  BY <1>1, <1>2, <1>3, <1>4
<1> QED
  BY <1>1, <1>5 DEF x

\* Two sequences are joined.
LEMMA InJoined ==
  ASSUME NEW T, NEW s \in Seq(T), NEW t \in Seq(T)
  PROVE  s \o t \in Seq(T) /\ ToSet(s \o t) = ToSet(s) \cup ToSet(t)
<1> DEFINE x == s \o t
<1>1. /\ x \in Seq(T) /\ Len(x) = Len(s) + Len(t)
      /\ \A i \in 1..Len(s) + Len(t) : x[i] = IF i <= Len(s) THEN s[i] ELSE t[i - Len(s)]
  BY ConcatProperties
<1>2. /\ Len(s) \in Nat /\ ToSet(s) = {s[i] : i \in 1..Len(s)}
      /\ Len(t) \in Nat /\ ToSet(t) = {t[i] : i \in 1..Len(t)}
      /\ ToSet(x) = {x[i] : i \in 1..Len(x)}
  BY <1>1, InSequence
<1> HIDE DEF x
<1>3. \A i \in 1..Len(s) : i \in 1..Len(x) /\ x[i] = s[i]
  BY <1>1, <1>2
<1>4. \A i \in 1..Len(t) : i + Len(s) \in 1..Len(x) /\ x[i + Len(s)] = t[i]
  <2> TAKE i \in 1..Len(t)
  <2>1. i + Len(s) \in 1..Len(s) + Len(t) /\ ~ (i + Len(s) <= Len(s)) /\ i + Len(s) - Len(s) = i
    BY <1>2
  <2> QED
    BY <1>1, <2>1
<1>5. \A i \in 1..Len(x) : \/ i \in 1..Len(s)
                           \/ i - Len(s) \in 1..Len(t) /\ i - Len(s) + Len(s) = i
  BY <1>1, <1>2
<1>6. \A i \in 1..Len(x) : \/ \E j \in 1..Len(s) : x[i] = s[j]
                           \/ \E j \in 1..Len(t) : x[i] = t[j]
  BY <1>3, <1>4, <1>5
<1>7. ToSet(x) = ToSet(s) \cup ToSet(t)
  <2>1. \A i \in 1..Len(s) : s[i] \in ToSet(x)
    BY <1>2, <1>3
  <2>2. \A i \in 1..Len(t) : t[i] \in ToSet(x)
    BY <1>2, <1>4
  <2>3. \A i \in 1..Len(x) : x[i] \in ToSet(s) \cup ToSet(t)
    BY <1>2, <1>6
  <2>4. ToSet(s) \subseteq ToSet(x) /\ ToSet(t) \subseteq ToSet(x)
    BY <1>2, <2>1, <2>2
  <2>5. ToSet(x) \subseteq ToSet(s) \cup ToSet(t)
    BY <1>2, <2>3
  <2> QED
    BY <2>4, <2>5
<1> QED
  BY <1>1, <1>7 DEF x

\* The first n are the first n - 1 and the n-th.
LEMMA FirstOnes ==
  ASSUME NEW n \in Nat \ {0}, NEW s
  PROVE  {s[i] : i \in 1..n} = {s[i] : i \in 1..n - 1} \cup {s[n]}
<1>1. \A i \in 1..n : i \in 1..n - 1 \/ i = n
  OBVIOUS
<1>2. 1..n - 1 \subseteq 1..n /\ n \in 1..n
  OBVIOUS
<1> QED
  BY <1>1, <1>2

\* Filtered keeps what is in the set.
LEMMA FilteredOK ==
  ASSUME NEW T, NEW s \in Seq(T), NEW kept
  PROVE  Filtered(s, kept) \in Seq(T) /\ ToSet(Filtered(s, kept)) = ToSet(s) \cap kept
<1> DEFINE k == Len(s)
           Step(n, x) == IF s[n] \in kept THEN Append(x, s[n]) ELSE x
           V == [n \in 0..k |-> {x \in Seq(T) : ToSet(x) = {s[i] : i \in 1..n} \cap kept}]
           G == [n \in 1..k |-> [x \in V[n - 1] |-> Step(n, x)]]
           F == CHOOSE f : f = [n \in 0..k |-> IF n = 0 THEN <<>> ELSE
                                  IF s[n] \in kept THEN Append(f[n - 1], s[n]) ELSE f[n - 1]]
<1>1. k \in Nat /\ ToSet(s) = {s[i] : i \in 1..k}
  BY InSequence
<1>2. <<>> \in V[0]
  BY <1>1 DEF ToSet
<1>3. ASSUME NEW n \in 1..k, NEW x \in V[n - 1] PROVE Step(n, x) \in V[n]
  <2>1. n - 1 \in 0..k /\ n \in 0..k /\ s[n] \in T /\ n \in Nat \ {0}
    BY <1>1
  <2>2. x \in Seq(T) /\ ToSet(x) = {s[i] : i \in 1..n - 1} \cap kept
    BY <2>1
  <2>3. {s[i] : i \in 1..n} = {s[i] : i \in 1..n - 1} \cup {s[n]}
    BY <2>1, FirstOnes
  <2>4. CASE s[n] \in kept
    <3>1. Append(x, s[n]) \in Seq(T) /\ ToSet(Append(x, s[n])) = ToSet(x) \cup {s[n]}
      BY <2>1, <2>2, InAppended
    <3> QED
      BY <2>1, <2>2, <2>3, <2>4, <3>1
  <2>5. CASE s[n] \notin kept
    BY <2>1, <2>2, <2>3, <2>5
  <2> QED
    BY <2>4, <2>5
<1>4. Filtered(s, kept) = F[k]
  BY Zenon DEF Filtered
<1> HIDE DEF V
<1>5. Steps(k, V, G)
  BY <1>3 DEF Steps
<1>6. PICK f : Follows(f, k, V, <<>>, G)
  <2> HIDE DEF G, k
  <2> QED
    BY <1>1, <1>2, <1>5, Recursion
<1>7. /\ f = [n \in 0..k |-> f[n]] /\ f[0] = <<>>
      /\ \A n \in 1..k : f[n] = G[n][f[n - 1]]
      /\ \A n \in 0..k : f[n] \in V[n]
  BY <1>6, Zenon DEF Follows
<1>8. ASSUME NEW n \in 1..k PROVE G[n][f[n - 1]] = Step(n, f[n - 1])
  <2>1. n - 1 \in 0..k
    BY <1>1
  <2>2. f[n - 1] \in V[n - 1]
    BY <1>7, <2>1
  <2> QED
    BY <2>2
<1> HIDE DEF G
<1>9. f = [n \in 0..k |-> IF n = 0 THEN <<>> ELSE Step(n, f[n - 1])]
  <2>1. \A n \in 0..k : n # 0 => n \in 1..k
    BY <1>1
  <2> DEFINE h == [n \in 0..k |-> IF n = 0 THEN <<>> ELSE Step(n, f[n - 1])]
  <2> HIDE DEF Step
  <2>2. \A n \in 0..k : f[n] = h[n]
    BY <1>7, <1>8, <2>1
  <2>3. h = [n \in 0..k |-> h[n]]
    OBVIOUS
  <2> HIDE DEF h
  <2>4. f = h
    BY <1>7, <2>2, <2>3
  <2> QED
    BY <2>4 DEF h
<1>10. F = [n \in 0..k |-> IF n = 0 THEN <<>> ELSE
              IF s[n] \in kept THEN Append(F[n - 1], s[n]) ELSE F[n - 1]]
  <2> HIDE DEF k
  <2> QED
    BY <1>9, Zenon
<1> HIDE DEF F
<1>11. F[0] = <<>> /\ \A n \in 1..k : F[n] = Step(n, F[n - 1])
  <2> HIDE DEF k
  <2>1. \A n \in 0..k : F[n] = IF n = 0 THEN <<>> ELSE
              IF s[n] \in kept THEN Append(F[n - 1], s[n]) ELSE F[n - 1]
    BY <1>10, Zenon
  <2>2. 0 \in 0..k /\ \A n \in 1..k : n \in 0..k /\ n # 0
    BY <1>1
  <2> QED
    BY <2>1, <2>2, Zenon
<1>12. F[k] \in V[k] /\ k \in 0..k
  <2>1. F[0] \in V[0]
    BY <1>2, <1>11
  <2>2. \A n \in 1..k : F[n - 1] \in V[n - 1] => F[n] \in V[n]
    <3> HIDE DEF Step
    <3> QED
      BY <1>3, <1>11
  <2> HIDE DEF k
  <2> QED
    BY <1>1, <2>1, <2>2, Climbs
<1> QED
  BY <1>1, <1>4, <1>12 DEF V

-----------------------------------------------------------------------------
(* The writer: what a batch adds to a file.                                *)

\* The elements of x are from C, and every identity of C is among them.
Gathers(x, C) ==
  /\ ToSet(x) \subseteq C
  /\ \A c \in C : \E d \in ToSet(x) : Identity(d) = Identity(c)

\* No identity is there twice.
Apart(x) == \A i, j \in DOMAIN x : Identity(x[i]) = Identity(x[j]) => i = j

\* One candidate is added, if its identity is new.
LEMMA AddedOK ==
  ASSUME NEW T, NEW x \in Seq(T), NEW c \in T, NEW C, Gathers(x, C)
  PROVE  /\ Added(x, c) \in Seq(T)
         /\ Gathers(Added(x, c), C \cup {c})
         /\ Apart(x) => Apart(Added(x, c))
<1>0. Len(x) \in Nat /\ DOMAIN x = 1..Len(x) /\ ToSet(x) = {x[i] : i \in 1..Len(x)}
  BY InSequence
<1>1. CASE \E i \in DOMAIN x : Identity(x[i]) = Identity(c)
  <2>1. Added(x, c) = x
    BY <1>1, Zenon DEF Added
  <2>2. PICK d \in ToSet(x) : Identity(d) = Identity(c)
    BY <1>0, <1>1
  <2>3. Gathers(x, C \cup {c})
    BY <2>2 DEF Gathers
  <2> QED
    BY <2>1, <2>3
<1>2. CASE ~ \E i \in DOMAIN x : Identity(x[i]) = Identity(c)
  <2> DEFINE y == Append(x, c)
  <2>1. Added(x, c) = y
    BY <1>2, Zenon DEF Added
  <2>2. y \in Seq(T) /\ ToSet(y) = ToSet(x) \cup {c}
    BY InAppended
  <2>3. Gathers(y, C \cup {c})
    BY <2>2 DEF Gathers
  <2>4. ASSUME Apart(x), NEW i \in DOMAIN y, NEW j \in DOMAIN y, Identity(y[i]) = Identity(y[j])
        PROVE  i = j
    <3>1. /\ DOMAIN y = 1..Len(x) + 1 /\ y[Len(x) + 1] = c
          /\ \A n \in 1..Len(x) : y[n] = x[n]
      BY AppendProperties
    <3> HIDE DEF y
    <3>2. /\ i \in 1..Len(x) \/ i = Len(x) + 1
          /\ j \in 1..Len(x) \/ j = Len(x) + 1
      BY <1>0, <2>4, <3>1
    <3>3. CASE i \in 1..Len(x) /\ j \in 1..Len(x)
      BY <1>0, <2>4, <3>1, <3>3, Zenon DEF Apart
    <3>4. CASE i \in 1..Len(x) /\ j = Len(x) + 1
      BY <1>0, <1>2, <2>4, <3>1, <3>4, Zenon
    <3>5. CASE i = Len(x) + 1 /\ j \in 1..Len(x)
      <4>1. Identity(x[j]) = Identity(c)
        BY <2>4, <3>1, <3>5, Zenon
      <4> QED
        BY <1>0, <1>2, <4>1, <3>5, Zenon
    <3> QED
      BY <3>2, <3>3, <3>4, <3>5
  <2>5. Apart(x) => Apart(y)
    <3> HIDE DEF y
    <3> QED
      BY <2>4, Zenon DEF Apart
  <2> HIDE DEF y
  <2> QED
    BY <2>1, <2>2, <2>3, <2>5
<1> QED
  BY <1>1, <1>2

\* Accumulated has every identity of the file and of the batch, and none twice.
LEMMA AccumulatedOK ==
  ASSUME NEW T, NEW found \in Seq(T), NEW batch \in Seq(T)
  PROVE  /\ Accumulated(found, batch) \in Seq(T)
         /\ Gathers(Accumulated(found, batch), ToSet(found) \cup ToSet(batch))
         /\ Apart(found) => Apart(Accumulated(found, batch))
<1> DEFINE Good(x, n) == /\ Gathers(x, ToSet(found) \cup {batch[i] : i \in 1..n})
                         /\ Apart(found) => Apart(x)
<1> DEFINE k == Len(batch)
           Step(n, x) == Added(x, batch[n])
           V == [n \in 0..k |-> {x \in Seq(T) : Good(x, n)}]
           G == [n \in 1..k |-> [x \in V[n - 1] |-> Step(n, x)]]
           F == CHOOSE f : f = [n \in 0..k |-> IF n = 0 THEN found ELSE
                                  Added(f[n - 1], batch[n])]
<1>1. k \in Nat /\ ToSet(batch) = {batch[i] : i \in 1..k}
  BY InSequence
<1>2. found \in V[0]
  <2>1. Gathers(found, ToSet(found))
    BY DEF Gathers
  <2>2. ToSet(found) \cup {batch[i] : i \in 1..0} = ToSet(found)
    OBVIOUS
  <2>3. Good(found, 0)
    BY <2>1, <2>2
  <2>4. 0 \in 0..k
    BY <1>1
  <2> HIDE DEF Good
  <2> QED
    BY <2>3, <2>4
<1>3. ASSUME NEW n \in 1..k, NEW x \in V[n - 1] PROVE Step(n, x) \in V[n]
  <2> DEFINE C(m) == ToSet(found) \cup {batch[i] : i \in 1..m}
  <2>1. n - 1 \in 0..k /\ n \in 0..k /\ batch[n] \in T /\ n \in Nat \ {0}
    BY <1>1
  <2>2. x \in Seq(T) /\ Gathers(x, C(n - 1)) /\ (Apart(found) => Apart(x))
    <3>1. x \in Seq(T) /\ Good(x, n - 1)
      <4> HIDE DEF Good
      <4> QED
        BY <2>1
    <3> QED
      BY <3>1, Zenon
  <2>3. C(n) = C(n - 1) \cup {batch[n]}
    BY <2>1, FirstOnes
  <2> HIDE DEF C
  <2>4. Step(n, x) \in Seq(T) /\ Gathers(Step(n, x), C(n)) /\ (Apart(found) => Apart(Step(n, x)))
    <3>1. /\ Added(x, batch[n]) \in Seq(T)
          /\ Gathers(Added(x, batch[n]), C(n - 1) \cup {batch[n]})
          /\ Apart(x) => Apart(Added(x, batch[n]))
      BY <2>1, <2>2, AddedOK, Zenon
    <3> QED
      BY <2>2, <2>3, <3>1, Zenon
  <2>5. Good(Step(n, x), n)
    BY <2>4, Zenon DEF C
  <2> HIDE DEF Step, Good
  <2> QED
    BY <2>1, <2>4, <2>5
<1>4. Accumulated(found, batch) = F[k]
  BY Zenon DEF Accumulated
<1> HIDE DEF V
<1>5. Steps(k, V, G)
  BY <1>3 DEF Steps
<1>6. PICK f : Follows(f, k, V, found, G)
  <2> HIDE DEF G, k
  <2> QED
    BY <1>1, <1>2, <1>5, Recursion
<1>7. /\ f = [n \in 0..k |-> f[n]] /\ f[0] = found
      /\ \A n \in 1..k : f[n] = G[n][f[n - 1]]
      /\ \A n \in 0..k : f[n] \in V[n]
  BY <1>6, Zenon DEF Follows
<1>8. ASSUME NEW n \in 1..k PROVE G[n][f[n - 1]] = Step(n, f[n - 1])
  <2>1. n - 1 \in 0..k
    BY <1>1
  <2>2. f[n - 1] \in V[n - 1]
    BY <1>7, <2>1
  <2> QED
    BY <2>2
<1> HIDE DEF G
<1>9. f = [n \in 0..k |-> IF n = 0 THEN found ELSE Step(n, f[n - 1])]
  <2>1. \A n \in 0..k : n # 0 => n \in 1..k
    BY <1>1
  <2> DEFINE h == [n \in 0..k |-> IF n = 0 THEN found ELSE Step(n, f[n - 1])]
  <2> HIDE DEF Step
  <2>2. \A n \in 0..k : f[n] = h[n]
    BY <1>7, <1>8, <2>1
  <2>3. h = [n \in 0..k |-> h[n]]
    OBVIOUS
  <2> HIDE DEF h
  <2>4. f = h
    BY <1>7, <2>2, <2>3
  <2> QED
    BY <2>4 DEF h
<1>10. F = [n \in 0..k |-> IF n = 0 THEN found ELSE
              Added(F[n - 1], batch[n])]
  <2> HIDE DEF k
  <2> QED
    BY <1>9, Zenon
<1> HIDE DEF F
<1>11. F[0] = found /\ \A n \in 1..k : F[n] = Step(n, F[n - 1])
  <2> HIDE DEF k
  <2>1. \A n \in 0..k : F[n] = IF n = 0 THEN found ELSE
              Added(F[n - 1], batch[n])
    BY <1>10, Zenon
  <2>2. 0 \in 0..k /\ \A n \in 1..k : n \in 0..k /\ n # 0
    BY <1>1
  <2> QED
    BY <2>1, <2>2, Zenon
<1>12. F[k] \in V[k] /\ k \in 0..k
  <2>1. F[0] \in V[0]
    BY <1>2, <1>11
  <2>2. \A n \in 1..k : F[n - 1] \in V[n - 1] => F[n] \in V[n]
    <3> HIDE DEF Step
    <3> QED
      BY <1>3, <1>11
  <2> HIDE DEF k
  <2> QED
    BY <1>1, <2>1, <2>2, Climbs
<1>13. F[k] \in Seq(T) /\ Good(F[k], k)
  <2> HIDE DEF Good
  <2> QED
    BY <1>12 DEF V
<1> QED
  BY <1>1, <1>4, <1>13, Zenon

\* Loaded has what is in the files, and nothing else.
LEMMA LoadedOK ==
  ASSUME NEW T, world.others \in Seq(T), \A p \in Pages : files[p].list \in Seq(T)
  PROVE  /\ Loaded \in Seq(T)
         /\ ToSet(Loaded) = (UNION {ToSet(files[p].list) : p \in Pages}) \cup ToSet(world.others)
<1> DEFINE inFile == [p \in Pages |-> ToSet(files[p].list)]
<1> DEFINE k == Cardinality(Pages)
           Step(n, x) == x \o files[n].list
           V == [n \in 0..k |-> {x \in Seq(T) : ToSet(x) = UNION {inFile[p] : p \in 1..n}}]
           G == [n \in 1..k |-> [x \in V[n - 1] |-> Step(n, x)]]
           F == CHOOSE f : f = [n \in 0..k |-> IF n = 0 THEN <<>> ELSE
                                  f[n - 1] \o files[n].list]
<1>1. k \in Nat /\ Pages = 1..k
  BY FS_CardinalityType
<1>2. <<>> \in V[0]
  <2>1. ToSet(<<>>) = {}
    BY DEF ToSet
  <2>2. UNION {inFile[p] : p \in 1..0} = {}
    OBVIOUS
  <2> HIDE DEF inFile
  <2> QED
    BY <1>1, <2>1, <2>2
<1>3. ASSUME NEW n \in 1..k, NEW x \in V[n - 1] PROVE Step(n, x) \in V[n]
  <2>1. /\ n - 1 \in 0..k /\ n \in 0..k /\ n \in Nat \ {0} /\ n \in Pages
        /\ files[n].list \in Seq(T) /\ inFile[n] = ToSet(files[n].list)
    BY <1>1
  <2> HIDE DEF inFile
  <2>2. x \in Seq(T) /\ ToSet(x) = UNION {inFile[p] : p \in 1..n - 1}
    BY <2>1
  <2>3. {inFile[p] : p \in 1..n} = {inFile[p] : p \in 1..n - 1} \cup {inFile[n]}
    BY <2>1, FirstOnes
  <2>4. Step(n, x) \in Seq(T) /\ ToSet(Step(n, x)) = ToSet(x) \cup inFile[n]
    BY <2>1, <2>2, InJoined
  <2> HIDE DEF Step
  <2>5. ToSet(Step(n, x)) = UNION {inFile[p] : p \in 1..n}
    BY <2>2, <2>3, <2>4
  <2> QED
    BY <2>1, <2>4, <2>5
<1>4. Loaded = F[k] \o world.others
  BY Zenon DEF Loaded
<1> HIDE DEF V
<1>5. Steps(k, V, G)
  BY <1>3 DEF Steps
<1>6. PICK f : Follows(f, k, V, <<>>, G)
  <2> HIDE DEF G, k
  <2> QED
    BY <1>1, <1>2, <1>5, Recursion
<1>7. /\ f = [n \in 0..k |-> f[n]] /\ f[0] = <<>>
      /\ \A n \in 1..k : f[n] = G[n][f[n - 1]]
      /\ \A n \in 0..k : f[n] \in V[n]
  BY <1>6, Zenon DEF Follows
<1>8. ASSUME NEW n \in 1..k PROVE G[n][f[n - 1]] = Step(n, f[n - 1])
  <2>1. n - 1 \in 0..k
    BY <1>1
  <2>2. f[n - 1] \in V[n - 1]
    BY <1>7, <2>1
  <2> QED
    BY <2>2
<1> HIDE DEF G
<1>9. f = [n \in 0..k |-> IF n = 0 THEN <<>> ELSE Step(n, f[n - 1])]
  <2>1. \A n \in 0..k : n # 0 => n \in 1..k
    BY <1>1
  <2> DEFINE h == [n \in 0..k |-> IF n = 0 THEN <<>> ELSE Step(n, f[n - 1])]
  <2> HIDE DEF Step
  <2>2. \A n \in 0..k : f[n] = h[n]
    BY <1>7, <1>8, <2>1
  <2>3. h = [n \in 0..k |-> h[n]]
    OBVIOUS
  <2> HIDE DEF h
  <2>4. f = h
    BY <1>7, <2>2, <2>3
  <2> QED
    BY <2>4 DEF h
<1>10. F = [n \in 0..k |-> IF n = 0 THEN <<>> ELSE
              F[n - 1] \o files[n].list]
  <2> HIDE DEF k
  <2> QED
    BY <1>9, Zenon
<1> HIDE DEF F
<1>11. F[0] = <<>> /\ \A n \in 1..k : F[n] = Step(n, F[n - 1])
  <2> HIDE DEF k
  <2>1. \A n \in 0..k : F[n] = IF n = 0 THEN <<>> ELSE
              F[n - 1] \o files[n].list
    BY <1>10, Zenon
  <2>2. 0 \in 0..k /\ \A n \in 1..k : n \in 0..k /\ n # 0
    BY <1>1
  <2> QED
    BY <2>1, <2>2, Zenon
<1>12. F[k] \in V[k] /\ k \in 0..k
  <2>1. F[0] \in V[0]
    BY <1>2, <1>11
  <2>2. \A n \in 1..k : F[n - 1] \in V[n - 1] => F[n] \in V[n]
    <3> HIDE DEF Step
    <3> QED
      BY <1>3, <1>11
  <2> HIDE DEF k
  <2> QED
    BY <1>1, <2>1, <2>2, Climbs
<1>13. F[k] \in Seq(T) /\ ToSet(F[k]) = UNION {inFile[p] : p \in Pages}
  <2> HIDE DEF inFile
  <2> QED
    BY <1>1, <1>12 DEF V
<1>14. {inFile[p] : p \in Pages} = {ToSet(files[p].list) : p \in Pages}
  OBVIOUS
<1> HIDE DEF inFile, k
<1>15. /\ F[k] \o world.others \in Seq(T)
       /\ ToSet(F[k] \o world.others) = ToSet(F[k]) \cup ToSet(world.others)
  BY <1>13, InJoined
<1> QED
  BY <1>4, <1>13, <1>14, <1>15

-----------------------------------------------------------------------------
(* The merge: what a cluster holds and what becomes of it.                 *)

\* A cluster: rows of one identity, whose routes do not contradict each other if the
\* rows have descriptions.
Whole(m) ==
  /\ m \in Seq(CandidateType) /\ Len(m) > 0
  /\ \A i, j \in DOMAIN m :
       /\ JobIdentity(m[i]) = JobIdentity(m[j])
       /\ HasBody(m[1]) => m[i].url = m[j].url \/ None \in {m[i].url, m[j].url}

\* The clusters are of rows of C, and each of these is in one.
Covers(x, C) ==
  /\ \A k \in DOMAIN x : Whole(x[k]) /\ ToSet(x[k]) \subseteq C
  /\ \A c \in C : \E k \in DOMAIN x : c \in ToSet(x[k])

\* Rows of one identity have descriptions or none of them does.
LEMMA OneKind ==
  ASSUME NEW c \in CandidateType, NEW d \in CandidateType, JobIdentity(c) = JobIdentity(d)
  PROVE  /\ HasBody(c) <=> HasBody(d)
         /\ c.company = d.company /\ c.place = d.place
         /\ ~HasBody(c) => c.title = d.title
<1>1. CASE HasBody(c)
  BY <1>1 DEF JobIdentity
<1>2. CASE ~HasBody(c)
  BY <1>2 DEF JobIdentity
<1> QED
  BY <1>1, <1>2

\* A row is a cluster.
LEMMA Alone ==
  ASSUME NEW c \in CandidateType
  PROVE  Whole(<<c>>) /\ ToSet(<<c>>) = {c}
  BY DEF Whole, ToSet

\* A row that fits joins.
LEMMA Joins ==
  ASSUME NEW m, Whole(m), NEW c \in CandidateType, Fits(c, m)
  PROVE  Whole(Append(m, c)) /\ ToSet(Append(m, c)) = ToSet(m) \cup {c}
<1> DEFINE y == Append(m, c)
<1>1. /\ m \in Seq(CandidateType) /\ Len(m) \in Nat /\ Len(m) > 0 /\ DOMAIN m = 1..Len(m)
      /\ 1 \in DOMAIN m /\ \A i \in DOMAIN m : m[i] \in CandidateType
  BY InSequence DEF Whole
<1>2. /\ y \in Seq(CandidateType) /\ Len(y) = Len(m) + 1 /\ DOMAIN y = 1..Len(m) + 1
      /\ y[Len(m) + 1] = c /\ \A i \in 1..Len(m) : y[i] = m[i]
  BY <1>1, AppendProperties
<1>3. ToSet(y) = ToSet(m) \cup {c}
  BY <1>1, InAppended
<1> HIDE DEF y
<1>4. y[1] = m[1]
  BY <1>1, <1>2
<1>5. ASSUME NEW i \in DOMAIN m
      PROVE  /\ JobIdentity(m[i]) = JobIdentity(c)
             /\ HasBody(m[1]) => m[i].url = c.url \/ None \in {m[i].url, c.url}
  <2>1. JobIdentity(m[i]) = JobIdentity(m[1]) /\ JobIdentity(m[1]) = JobIdentity(c)
    BY <1>1, <1>5 DEF Whole, Fits
  <2>2. ASSUME HasBody(m[1]), m[i].url # None, c.url # None PROVE m[i].url = c.url
    <3>1. HasBody(c)
      BY <1>1, <2>1, <2>2, OneKind
    <3>2. PICK j \in DOMAIN m : m[j].url = c.url
      BY <2>2, <3>1 DEF Fits, Compatible
    <3>3. m[i].url = m[j].url \/ None \in {m[i].url, m[j].url}
      BY <1>5, <2>2, <3>2, Zenon DEF Whole
    <3> QED
      BY <2>2, <3>2, <3>3
  <2> QED
    BY <2>1, <2>2
<1>6. ASSUME NEW i \in DOMAIN y, NEW j \in DOMAIN y
      PROVE  /\ JobIdentity(y[i]) = JobIdentity(y[j])
             /\ HasBody(y[1]) => y[i].url = y[j].url \/ None \in {y[i].url, y[j].url}
  <2>1. /\ (i \in DOMAIN m /\ y[i] = m[i]) \/ y[i] = c
        /\ (j \in DOMAIN m /\ y[j] = m[j]) \/ y[j] = c
    BY <1>1, <1>2
  <2>2. CASE i \in DOMAIN m /\ y[i] = m[i] /\ j \in DOMAIN m /\ y[j] = m[j]
    BY <1>4, <2>2, Zenon DEF Whole
  <2>3. CASE i \in DOMAIN m /\ y[i] = m[i] /\ y[j] = c
    BY <1>4, <1>5, <2>3
  <2>4. CASE y[i] = c /\ j \in DOMAIN m /\ y[j] = m[j]
    BY <1>4, <1>5, <2>4
  <2>5. CASE y[i] = c /\ y[j] = c
    BY <2>5
  <2> QED
    BY <2>1, <2>2, <2>3, <2>4, <2>5, Zenon
<1>7. Whole(y)
  <2>1. Len(y) > 0
    BY <1>1, <1>2
  <2> QED
    BY <1>2, <1>6, <2>1, Zenon DEF Whole
<1> QED
  BY <1>3, <1>7 DEF y

\* One row finds its place.
LEMMA PlaceOK ==
  ASSUME NEW x \in Seq(Seq(CandidateType)), NEW c \in CandidateType, NEW C, Covers(x, C)
  PROVE  Place(x, c) \in Seq(Seq(CandidateType)) /\ Covers(Place(x, c), C \cup {c})
<1> DEFINE fits == {k \in DOMAIN x : Fits(c, x[k])}
<1>1. Len(x) \in Nat /\ DOMAIN x = 1..Len(x)
  BY InSequence
<1>2. CASE fits = {}
  <2> DEFINE y == Append(x, <<c>>)
  <2>1. Place(x, c) = y
    BY <1>2 DEF Place
  <2>2. /\ y \in Seq(Seq(CandidateType)) /\ DOMAIN y = 1..Len(x) + 1
        /\ y[Len(x) + 1] = <<c>> /\ \A k \in DOMAIN x : y[k] = x[k]
    BY <1>1, AppendProperties
  <2> HIDE DEF y
  <2>3. \A k \in DOMAIN y : k \in DOMAIN x \/ k = Len(x) + 1
    BY <1>1, <2>2
  <2>4. ASSUME NEW k \in DOMAIN y PROVE Whole(y[k]) /\ ToSet(y[k]) \subseteq C \cup {c}
    <3>1. CASE k \in DOMAIN x
      BY <2>2, <3>1 DEF Covers
    <3>2. CASE k = Len(x) + 1
      BY <2>2, <3>2, Alone
    <3> QED
      BY <2>3, <3>1, <3>2
  <2>5. ASSUME NEW d \in C \cup {c} PROVE \E k \in DOMAIN y : d \in ToSet(y[k])
    <3>1. CASE d \in C
      <4>1. PICK k \in DOMAIN x : d \in ToSet(x[k])
        BY <3>1 DEF Covers
      <4>2. k \in DOMAIN y /\ y[k] = x[k]
        BY <1>1, <2>2
      <4> QED
        BY <4>1, <4>2
    <3>2. CASE d = c
      <4>1. Len(x) + 1 \in DOMAIN y /\ ToSet(y[Len(x) + 1]) = {c}
        BY <1>1, <2>2, Alone
      <4> QED
        BY <3>2, <4>1
    <3> QED
      BY <3>1, <3>2
  <2> QED
    BY <2>1, <2>2, <2>4, <2>5, Zenon DEF Covers
<1>3. CASE fits # {}
  <2> DEFINE l == Min(fits)
             y == [x EXCEPT ![l] = Append(x[l], c)]
  <2>1. l \in fits
    <3>1. fits \in SUBSET Nat
      BY <1>1
    <3> HIDE DEF fits
    <3>2. \E z \in fits : \A w \in fits : z <= w
      BY <1>3, <3>1, Least
    <3> QED
      BY <3>2 DEF Min
  <2>2. Place(x, c) = y
    BY <1>3, Zenon DEF Place
  <2>3. l \in DOMAIN x /\ Fits(c, x[l]) /\ Whole(x[l]) /\ ToSet(x[l]) \subseteq C
    <3>1. l \in DOMAIN x /\ Fits(c, x[l])
      BY <2>1
    <3> HIDE DEF l
    <3> QED
      BY <3>1 DEF Covers
  <2> HIDE DEF l, fits
  <2>4. Whole(Append(x[l], c)) /\ ToSet(Append(x[l], c)) = ToSet(x[l]) \cup {c}
    BY <2>3, Joins
  <2>5. /\ y \in Seq(Seq(CandidateType)) /\ DOMAIN y = DOMAIN x /\ y[l] = Append(x[l], c)
        /\ \A k \in DOMAIN x \ {l} : y[k] = x[k]
    <3>1. Append(x[l], c) \in Seq(CandidateType)
      BY <2>4 DEF Whole
    <3> QED
      BY <2>3, <3>1, ExceptSeq
  <2> HIDE DEF y
  <2>6. ASSUME NEW k \in DOMAIN y PROVE Whole(y[k]) /\ ToSet(y[k]) \subseteq C \cup {c}
    <3>1. CASE k = l
      BY <2>3, <2>4, <2>5, <3>1
    <3>2. CASE k # l
      <4>1. y[k] = x[k] /\ k \in DOMAIN x
        BY <2>5, <3>2
      <4> QED
        BY <4>1 DEF Covers
    <3> QED
      BY <3>1, <3>2
  <2>7. ASSUME NEW d \in C \cup {c} PROVE \E k \in DOMAIN y : d \in ToSet(y[k])
    <3>1. d \in ToSet(x[l]) \cup {c} => d \in ToSet(y[l]) /\ l \in DOMAIN y
      BY <2>3, <2>4, <2>5
    <3>2. CASE d \notin ToSet(x[l]) \cup {c}
      <4>1. PICK k \in DOMAIN x : d \in ToSet(x[k])
        BY <3>2 DEF Covers
      <4>2. k # l /\ y[k] = x[k] /\ k \in DOMAIN y
        BY <2>5, <3>2, <4>1
      <4> QED
        BY <4>1, <4>2
    <3> QED
      BY <3>1, <3>2
  <2> QED
    BY <2>2, <2>5, <2>6, <2>7, Zenon DEF Covers
<1> QED
  BY <1>2, <1>3

\* The rows of a sequence that are no placeholders.
Proper(s) == {c \in ToSet(s) : ~Junk(c)}

\* The clusters cover these.
LEMMA ClustersOK ==
  ASSUME NEW s \in Seq(CandidateType)
  PROVE  Clusters(s) \in Seq(Seq(CandidateType)) /\ Covers(Clusters(s), Proper(s))
<1> DEFINE C(n) == {c \in {s[i] : i \in 1..n} : ~Junk(c)}
<1> DEFINE k == Len(s)
           Step(n, x) == IF Junk(s[n]) THEN x ELSE Place(x, s[n])
           V == [n \in 0..k |-> {x \in Seq(Seq(CandidateType)) : Covers(x, C(n))}]
           G == [n \in 1..k |-> [x \in V[n - 1] |-> Step(n, x)]]
           F == CHOOSE f : f = [n \in 0..k |-> IF n = 0 THEN <<>> ELSE
                                  IF Junk(s[n]) THEN f[n - 1] ELSE Place(f[n - 1], s[n])]
<1>1. k \in Nat /\ ToSet(s) = {s[i] : i \in 1..k}
  BY InSequence
<1>2. <<>> \in V[0]
  <2>1. C(0) = {}
    OBVIOUS
  <2> HIDE DEF C
  <2>2. Covers(<<>>, C(0))
    BY <2>1 DEF Covers
  <2>3. 0 \in 0..k /\ <<>> \in Seq(Seq(CandidateType))
    BY <1>1
  <2> QED
    BY <2>2, <2>3
<1>3. ASSUME NEW n \in 1..k, NEW x \in V[n - 1] PROVE Step(n, x) \in V[n]
  <2>1. n - 1 \in 0..k /\ n \in 0..k /\ s[n] \in CandidateType /\ n \in Nat \ {0}
    BY <1>1
  <2>2. x \in Seq(Seq(CandidateType)) /\ Covers(x, C(n - 1))
    <3> HIDE DEF C
    <3> QED
      BY <2>1
  <2>3. C(n) = C(n - 1) \cup (IF Junk(s[n]) THEN {} ELSE {s[n]})
    BY <2>1, FirstOnes
  <2> HIDE DEF C
  <2>4. Step(n, x) \in Seq(Seq(CandidateType)) /\ Covers(Step(n, x), C(n))
    <3>1. CASE Junk(s[n])
      <4>1. C(n) = C(n - 1)
        BY <2>3, <3>1
      <4> QED
        BY <2>2, <3>1, <4>1, Zenon
    <3>2. CASE ~Junk(s[n])
      <4>1. C(n) = C(n - 1) \cup {s[n]}
        BY <2>3, <3>2
      <4>2. /\ Place(x, s[n]) \in Seq(Seq(CandidateType))
            /\ Covers(Place(x, s[n]), C(n - 1) \cup {s[n]})
        BY <2>1, <2>2, PlaceOK, Zenon
      <4> QED
        BY <3>2, <4>1, <4>2, Zenon
    <3> QED
      BY <3>1, <3>2
  <2> HIDE DEF Step
  <2> QED
    BY <2>1, <2>4
<1>4. Clusters(s) = F[k]
  BY Zenon DEF Clusters
<1> HIDE DEF V
<1>5. Steps(k, V, G)
  BY <1>3 DEF Steps
<1>6. PICK f : Follows(f, k, V, <<>>, G)
  <2> HIDE DEF G, k
  <2> QED
    BY <1>1, <1>2, <1>5, Recursion
<1>7. /\ f = [n \in 0..k |-> f[n]] /\ f[0] = <<>>
      /\ \A n \in 1..k : f[n] = G[n][f[n - 1]]
      /\ \A n \in 0..k : f[n] \in V[n]
  BY <1>6, Zenon DEF Follows
<1>8. ASSUME NEW n \in 1..k PROVE G[n][f[n - 1]] = Step(n, f[n - 1])
  <2>1. n - 1 \in 0..k
    BY <1>1
  <2>2. f[n - 1] \in V[n - 1]
    BY <1>7, <2>1
  <2> QED
    BY <2>2
<1> HIDE DEF G
<1>9. f = [n \in 0..k |-> IF n = 0 THEN <<>> ELSE Step(n, f[n - 1])]
  <2>1. \A n \in 0..k : n # 0 => n \in 1..k
    BY <1>1
  <2> DEFINE h == [n \in 0..k |-> IF n = 0 THEN <<>> ELSE Step(n, f[n - 1])]
  <2> HIDE DEF Step
  <2>2. \A n \in 0..k : f[n] = h[n]
    BY <1>7, <1>8, <2>1
  <2>3. h = [n \in 0..k |-> h[n]]
    OBVIOUS
  <2> HIDE DEF h
  <2>4. f = h
    BY <1>7, <2>2, <2>3
  <2> QED
    BY <2>4 DEF h
<1>10. F = [n \in 0..k |-> IF n = 0 THEN <<>> ELSE
              IF Junk(s[n]) THEN F[n - 1] ELSE Place(F[n - 1], s[n])]
  <2> HIDE DEF k
  <2> QED
    BY <1>9, Zenon
<1> HIDE DEF F
<1>11. F[0] = <<>> /\ \A n \in 1..k : F[n] = Step(n, F[n - 1])
  <2> HIDE DEF k
  <2>1. \A n \in 0..k : F[n] = IF n = 0 THEN <<>> ELSE
              IF Junk(s[n]) THEN F[n - 1] ELSE Place(F[n - 1], s[n])
    BY <1>10, Zenon
  <2>2. 0 \in 0..k /\ \A n \in 1..k : n \in 0..k /\ n # 0
    BY <1>1
  <2> QED
    BY <2>1, <2>2, Zenon
<1>12. F[k] \in V[k] /\ k \in 0..k
  <2>1. F[0] \in V[0]
    BY <1>2, <1>11
  <2>2. \A n \in 1..k : F[n - 1] \in V[n - 1] => F[n] \in V[n]
    <3> HIDE DEF Step
    <3> QED
      BY <1>3, <1>11
  <2> HIDE DEF k
  <2> QED
    BY <1>1, <2>1, <2>2, Climbs
<1>13. F[k] \in Seq(Seq(CandidateType)) /\ Covers(F[k], C(k))
  <2> HIDE DEF C
  <2> QED
    BY <1>12 DEF V
<1>14. C(k) = Proper(s)
  BY <1>1 DEF Proper
<1> HIDE DEF C
<1> QED
  BY <1>4, <1>13, <1>14, Zenon

\* The least and the greatest of a set of numbers.
LEMMA MinOK ==
  ASSUME NEW S \in SUBSET Nat, S # {}
  PROVE  Min(S) \in S /\ \A y \in S : Min(S) <= y
<1>1. \E x \in S : \A y \in S : x <= y
  BY Least
<1> QED
  BY <1>1 DEF Min

\* The greatest of some numbers is one of them.
LEMMA MaxOK ==
  ASSUME NEW k \in Nat, NEW S \in SUBSET (1..k), S # {}
  PROVE  Max(S) \in S
<1>1. \E x \in S : \A y \in S : x >= y
  BY Greatest
<1> QED
  BY <1>1 DEF Max

\* What becomes of a cluster.
LEMMA CombinedOK ==
  ASSUME NEW m, Whole(m)
  PROVE  /\ Combined(m) \in CandidateType
         /\ Combined(m).title = m[1].title
         /\ Combined(m).refs = UNION {m[i].refs : i \in DOMAIN m}
         /\ \E i \in DOMAIN m : Combined(m).url = m[i].url
         /\ m[1].url # None => Combined(m).url = m[1].url
         /\ \A i \in DOMAIN m :
              /\ Combined(m).company = m[i].company /\ Combined(m).place = m[i].place
              /\ HasBody(Combined(m)) <=> HasBody(m[i])
<1> DEFINE routed == {i \in DOMAIN m : m[i].url # None}
           full == {i \in DOMAIN m : HasBody(m[i])}
           refs == UNION {m[i].refs : i \in DOMAIN m}
           url == IF routed = {} THEN None ELSE m[Min(routed)].url
           body == IF full = {} THEN None ELSE m[Max(full)].body
           d == Combined(m)
<1>1. /\ Len(m) \in Nat /\ DOMAIN m = 1..Len(m) /\ 1 \in DOMAIN m
      /\ \A i \in DOMAIN m : m[i] \in CandidateType
  BY InSequence DEF Whole
<1>2. \A i \in DOMAIN m : /\ HasBody(m[1]) <=> HasBody(m[i])
                          /\ m[1].company = m[i].company /\ m[1].place = m[i].place
  BY <1>1, OneKind DEF Whole
<1>3. d = [m[1] EXCEPT !.refs = refs, !.url = url, !.body = body]
  BY Zenon DEF Combined
<1>4. refs \in SUBSET Openings
  <2>1. \A i \in DOMAIN m : m[i].refs \in SUBSET Openings
    BY <1>1 DEF CandidateType
  <2> QED
    BY <2>1
<1>5. url \in Urls \cup {None} /\ (\E i \in DOMAIN m : url = m[i].url)
      /\ (m[1].url # None => url = m[1].url)
  <2>1. CASE routed = {}
    BY <1>1, <2>1
  <2>2. CASE routed # {}
    <3>1. routed \in SUBSET Nat
      BY <1>1
    <3>2. Min(routed) \in routed /\ \A y \in routed : Min(routed) <= y
      <4> HIDE DEF routed
      <4> QED
        BY <2>2, <3>1, MinOK
    <3>3. Min(routed) \in DOMAIN m
      BY <3>2
    <3>4. 1 \in routed => Min(routed) = 1
      <4> HIDE DEF routed
      <4> QED
        BY <1>1, <3>2, <3>3
    <3>5. m[Min(routed)].url \in Urls \cup {None}
      BY <1>1, <3>3 DEF CandidateType
    <3>6. url = m[Min(routed)].url
      BY <2>2, Zenon
    <3>7. m[1].url # None => 1 \in routed
      BY <1>1
    <3> HIDE DEF routed, url
    <3> QED
      BY <3>3, <3>4, <3>5, <3>6, <3>7
  <2> QED
    BY <2>1, <2>2
<1>6. body \in Bodies \cup {None} /\ (body # None <=> HasBody(m[1]))
  <2>1. CASE full = {}
    BY <1>1, <2>1
  <2>2. CASE full # {}
    <3>1. full \in SUBSET (1..Len(m))
      BY <1>1
    <3>2. Max(full) \in full
      <4> HIDE DEF full
      <4> QED
        BY <1>1, <2>2, <3>1, MaxOK
    <3>3. Max(full) \in DOMAIN m /\ HasBody(m[Max(full)])
      BY <3>2
    <3>4. body = m[Max(full)].body
      BY <2>2, Zenon
    <3> HIDE DEF full, body
    <3>5. m[Max(full)].body \in Bodies \cup {None}
      BY <1>1, <3>3 DEF CandidateType
    <3>6. HasBody(m[1])
      BY <1>2, <3>3
    <3>7. body # None
      BY <3>3, <3>4 DEF HasBody
    <3> QED
      BY <3>4, <3>5, <3>6, <3>7
  <2> QED
    BY <2>1, <2>2
<1> HIDE DEF routed, full, refs, url, body, d
<1>7. /\ d \in CandidateType /\ d.title = m[1].title /\ d.refs = refs /\ d.url = url
      /\ d.company = m[1].company /\ d.place = m[1].place /\ d.body = body
  <2>1. m[1] \in CandidateType
    BY <1>1
  <2> QED
    BY <1>3, <1>4, <1>5, <1>6, <2>1 DEF CandidateType
<1>8. HasBody(d) <=> HasBody(m[1])
  BY <1>6, <1>7 DEF HasBody
<1>9. \A i \in DOMAIN m : /\ d.company = m[i].company /\ d.place = m[i].place
                          /\ HasBody(d) <=> HasBody(m[i])
  BY <1>2, <1>7, <1>8
<1> QED
  BY <1>5, <1>7, <1>9 DEF d, refs

\* What the first two passes make of a sequence: each result comes from a cluster of
\* proper rows, and each of these that has a description is cited by a result.
LEMMA ShrunkOK ==
  ASSUME NEW s \in Seq(CandidateType), NEW w, w = WithoutEchoes(Deduplicated(s))
  PROVE  /\ w \in Seq(CandidateType)
         /\ \A d \in ToSet(w) :
              \E m : Whole(m) /\ ToSet(m) \subseteq Proper(s) /\ d = Combined(m)
         /\ \A c \in Proper(s) : HasBody(c) =>
              \E d \in ToSet(w) : /\ d.company = c.company /\ d.place = c.place
                                  /\ c.refs \subseteq d.refs /\ HasBody(d)
<1> DEFINE x == Clusters(s)
           y == Deduplicated(s)
           titles == {c.title : c \in {d \in ToSet(y) : HasBody(d)}}
           kept == {c \in ToSet(y) : HasBody(c) \/ c.title \notin titles}
<1>1. x \in Seq(Seq(CandidateType)) /\ Covers(x, Proper(s))
  BY ClustersOK
<1>2. y = [k \in DOMAIN x |-> Combined(x[k])]
  BY Zenon DEF Deduplicated
<1> HIDE DEF x, y
<1>3. Len(x) \in Nat /\ DOMAIN x = 1..Len(x)
  BY <1>1, InSequence
<1>4. \A k \in DOMAIN x : /\ Whole(x[k]) /\ ToSet(x[k]) \subseteq Proper(s)
                          /\ Combined(x[k]) \in CandidateType
  BY <1>1, CombinedOK DEF Covers
<1>5. y \in Seq(CandidateType) /\ ToSet(y) = {Combined(x[k]) : k \in DOMAIN x}
  <2>1. y \in [1..Len(x) -> CandidateType]
    BY <1>2, <1>3, <1>4
  <2> QED
    BY <1>2, <1>3, <2>1 DEF ToSet
<1>6. w = Filtered(y, kept)
  BY Zenon DEF WithoutEchoes, y
<1>7. w \in Seq(CandidateType) /\ ToSet(w) = ToSet(y) \cap kept
  <2> HIDE DEF kept
  <2> QED
    BY <1>5, <1>6, FilteredOK
<1>8. ASSUME NEW d \in ToSet(w)
      PROVE  \E m : Whole(m) /\ ToSet(m) \subseteq Proper(s) /\ d = Combined(m)
  <2>1. PICK k \in DOMAIN x : d = Combined(x[k])
    BY <1>5, <1>7
  <2> QED
    BY <1>4, <2>1
<1>9. ASSUME NEW c \in Proper(s), HasBody(c)
      PROVE  \E d \in ToSet(w) : /\ d.company = c.company /\ d.place = c.place
                                 /\ c.refs \subseteq d.refs /\ HasBody(d)
  <2>1. PICK k \in DOMAIN x : c \in ToSet(x[k])
    BY <1>1 DEF Covers
  <2>2. PICK i \in DOMAIN x[k] : c = x[k][i]
    BY <2>1 DEF ToSet
  <2> DEFINE d == Combined(x[k])
  <2>3. /\ d.company = c.company /\ d.place = c.place /\ HasBody(d)
        /\ d.refs = UNION {x[k][j].refs : j \in DOMAIN x[k]}
    BY <1>4, <1>9, <2>2, CombinedOK
  <2>4. d \in ToSet(y)
    BY <1>5
  <2> HIDE DEF d
  <2>5. c.refs \subseteq d.refs
    BY <2>2, <2>3
  <2>6. d \in ToSet(w)
    BY <1>7, <2>3, <2>4
  <2> QED
    BY <2>3, <2>5, <2>6
<1> QED
  BY <1>7, <1>8, <1>9

\* Clearing shared routes changes nothing else.
LEMMA ClearedOK ==
  ASSUME NEW s \in Seq(CandidateType)
  PROVE  /\ WithoutSharedUrls(s) \in Seq(CandidateType)
         /\ DOMAIN WithoutSharedUrls(s) = DOMAIN s
         /\ \A i \in DOMAIN s :
              LET c == s[i]
                  d == WithoutSharedUrls(s)[i]
              IN  /\ d.url \in {c.url, None} /\ d.refs = c.refs /\ d.title = c.title
                  /\ d.company = c.company /\ d.place = c.place
                  /\ HasBody(d) <=> HasBody(c)
<1> DEFINE w == WithoutSharedUrls(s)
<1>1. /\ Len(s) \in Nat /\ DOMAIN s = 1..Len(s)
      /\ \A i \in DOMAIN s : s[i] \in CandidateType
  BY InSequence
<1>2. w = [i \in DOMAIN s |-> IF s[i].url \in SharedUrls(s) THEN [s[i] EXCEPT !.url = None]
                                                            ELSE s[i]]
  BY Zenon DEF WithoutSharedUrls
<1> HIDE DEF w
<1>3. ASSUME NEW i \in DOMAIN s
      PROVE  w[i] = s[i] \/ w[i] = [s[i] EXCEPT !.url = None]
  BY <1>2
<1>4. ASSUME NEW i \in DOMAIN s
      PROVE  /\ w[i] \in CandidateType
             /\ w[i].url \in {s[i].url, None} /\ w[i].refs = s[i].refs
             /\ w[i].title = s[i].title /\ w[i].company = s[i].company
             /\ w[i].place = s[i].place /\ w[i].body = s[i].body
  <2> DEFINE c == s[i]
             d == [c EXCEPT !.url = None]
  <2>1. c \in CandidateType
    BY <1>1
  <2>2. w[i] = c \/ w[i] = d
    BY <1>3
  <2> HIDE DEF c
  <2>3. /\ d \in CandidateType /\ d.url = None /\ d.refs = c.refs /\ d.title = c.title
        /\ d.company = c.company /\ d.place = c.place /\ d.body = c.body
    BY <2>1 DEF CandidateType
  <2> HIDE DEF d
  <2>4. CASE w[i] = c
    BY <2>1, <2>4 DEF c
  <2>5. CASE w[i] = d
    BY <2>3, <2>5 DEF c
  <2> QED
    BY <2>2, <2>4, <2>5
<1>5. DOMAIN w = DOMAIN s /\ w \in Seq(CandidateType)
  <2>1. w \in [1..Len(s) -> CandidateType]
    BY <1>1, <1>2, <1>4
  <2> QED
    BY <1>1, <2>1
<1> QED
  BY <1>4, <1>5 DEF w, HasBody

\* Where a route determines the title, no route is shared.
LEMMA UnsharedOK ==
  ASSUME NEW s \in Seq(CandidateType),
         \A i, j \in DOMAIN s : s[i].url = s[j].url => s[i].title = s[j].title
  PROVE  WithoutSharedUrls(s) = s
<1>1. Len(s) \in Nat /\ DOMAIN s = 1..Len(s) /\ s = [i \in DOMAIN s |-> s[i]]
  BY InSequence
<1>2. SharedUrls(s) = {}
  <2> SUFFICES ASSUME NEW u \in Urls,
                      Cardinality({s[i].title : i \in {j \in DOMAIN s : s[j].url = u}}) > 1
               PROVE  FALSE
    BY Zenon DEF SharedUrls
  <2> DEFINE t == {s[i].title : i \in {j \in DOMAIN s : s[j].url = u}}
  <2>1. CASE t = {}
    <3>1. Cardinality(t) = 0
      <4> HIDE DEF t
      <4> QED
        BY <2>1, FS_EmptySet
    <3> QED
      BY <3>1
  <2>2. CASE t # {}
    <3>1. PICK i \in DOMAIN s : s[i].url = u
      BY <2>2
    <3>2. t = {s[i].title}
      BY <3>1
    <3>3. Cardinality(t) = 1
      <4> HIDE DEF t
      <4> QED
        BY <3>2, FS_Singleton
    <3> QED
      BY <3>3
  <2> QED
    BY <2>1, <2>2
<1> DEFINE w == WithoutSharedUrls(s)
<1>3. w = [i \in DOMAIN s |-> IF s[i].url \in SharedUrls(s) THEN [s[i] EXCEPT !.url = None]
                                                            ELSE s[i]]
  BY Zenon DEF WithoutSharedUrls
<1> HIDE DEF w
<1>4. \A i \in DOMAIN s : w[i] = s[i]
  BY <1>2, <1>3
<1>5. w = [i \in DOMAIN s |-> w[i]]
  BY <1>3
<1>6. w = s
  BY <1>1, <1>4, <1>5
<1> QED
  BY <1>6 DEF w

\* A result of the merge: it comes from a cluster of proper rows of s and cites what
\* they cite.
Comes(d, s) ==
  \E m : /\ Whole(m) /\ ToSet(m) \subseteq Proper(s)
         /\ d.refs = UNION {m[j].refs : j \in DOMAIN m}
         /\ HasBody(d) <=> HasBody(m[1])

\* Nothing of it was cleared.
ComesWhole(d, s) ==
  \E m : /\ Whole(m) /\ ToSet(m) \subseteq Proper(s) /\ d = Combined(m)
         /\ d.url = m[1].url /\ d.url # None

\* All three passes.
LEMMA ProcessedOK ==
  ASSUME NEW s \in Seq(CandidateType), NEW r, r = Processed(s)
  PROVE  /\ r \in Seq(CandidateType)
         /\ \A i \in DOMAIN r : Comes(r[i], s)
         /\ \A c \in Proper(s) : HasBody(c) =>
              \E i \in DOMAIN r : /\ r[i].company = c.company /\ r[i].place = c.place
                                  /\ c.refs \subseteq r[i].refs
<1> DEFINE w == WithoutEchoes(Deduplicated(s))
<1>1. /\ w \in Seq(CandidateType)
      /\ \A d \in ToSet(w) :
           \E m : Whole(m) /\ ToSet(m) \subseteq Proper(s) /\ d = Combined(m)
      /\ \A c \in Proper(s) : HasBody(c) =>
           \E d \in ToSet(w) : /\ d.company = c.company /\ d.place = c.place
                               /\ c.refs \subseteq d.refs /\ HasBody(d)
  BY ShrunkOK, Zenon
<1>2. r = WithoutSharedUrls(w)
  BY Zenon DEF Processed
<1> HIDE DEF w
<1>3. /\ r \in Seq(CandidateType) /\ DOMAIN r = DOMAIN w
      /\ \A i \in DOMAIN w : /\ r[i].refs = w[i].refs /\ r[i].company = w[i].company
                             /\ r[i].place = w[i].place
                             /\ HasBody(r[i]) <=> HasBody(w[i])
  BY <1>1, <1>2, ClearedOK
<1>4. DOMAIN w = 1..Len(w) /\ ToSet(w) = {w[i] : i \in 1..Len(w)}
  BY <1>1, InSequence
<1>5. ASSUME NEW i \in DOMAIN r
      PROVE  Comes(r[i], s)
  <2>1. w[i] \in ToSet(w)
    BY <1>3, <1>4
  <2>2. PICK m : Whole(m) /\ ToSet(m) \subseteq Proper(s) /\ w[i] = Combined(m)
    BY <1>1, <2>1, Zenon
  <2>3. 1 \in DOMAIN m
    BY <2>2, InSequence DEF Whole
  <2>4. /\ w[i].refs = UNION {m[j].refs : j \in DOMAIN m}
        /\ HasBody(w[i]) <=> HasBody(m[1])
    BY <2>2, <2>3, CombinedOK
  <2>5. /\ r[i].refs = UNION {m[j].refs : j \in DOMAIN m}
        /\ HasBody(r[i]) <=> HasBody(m[1])
    BY <1>3, <1>5, <2>4
  <2> QED
    BY <2>2, <2>5, Zenon DEF Comes
<1>6. ASSUME NEW c \in Proper(s), HasBody(c)
      PROVE  \E i \in DOMAIN r : /\ r[i].company = c.company /\ r[i].place = c.place
                                 /\ c.refs \subseteq r[i].refs
  <2>1. PICK d \in ToSet(w) : /\ d.company = c.company /\ d.place = c.place
                              /\ c.refs \subseteq d.refs
    BY <1>1, <1>6
  <2>2. PICK i \in DOMAIN w : d = w[i]
    BY <1>4, <2>1
  <2> QED
    BY <1>3, <2>1, <2>2
<1> QED
  BY <1>3, <1>5, <1>6, Zenon

\* Where each row has a route and the route determines the title, no route is lost.
LEMMA RoutedOK ==
  ASSUME NEW s \in Seq(CandidateType), NEW r, r = Processed(s),
         \A c, d \in ToSet(s) : c.url # None /\ (c.url = d.url => c.title = d.title)
  PROVE  /\ WithoutSharedUrls(r) = r
         /\ \A i \in DOMAIN r : ComesWhole(r[i], s)
<1> DEFINE w == WithoutEchoes(Deduplicated(s))
<1>1. /\ w \in Seq(CandidateType)
      /\ \A d \in ToSet(w) :
           \E m : Whole(m) /\ ToSet(m) \subseteq Proper(s) /\ d = Combined(m)
  BY ShrunkOK, Zenon
<1>2. r = WithoutSharedUrls(w)
  BY Zenon DEF Processed
<1> HIDE DEF w
<1>3. DOMAIN w = 1..Len(w) /\ ToSet(w) = {w[i] : i \in 1..Len(w)}
  BY <1>1, InSequence
<1>4. ASSUME NEW i \in DOMAIN w
      PROVE  \E m : /\ Whole(m) /\ ToSet(m) \subseteq Proper(s) /\ w[i] = Combined(m)
                    /\ w[i].url = m[1].url /\ w[i].url # None /\ w[i].title = m[1].title
                    /\ m[1] \in ToSet(s)
  <2>1. w[i] \in ToSet(w)
    BY <1>3
  <2>2. PICK m : Whole(m) /\ ToSet(m) \subseteq Proper(s) /\ w[i] = Combined(m)
    BY <1>1, <2>1, Zenon
  <2>3. m[1] \in ToSet(m)
    BY <2>2, InSequence DEF Whole
  <2>4. m[1] \in ToSet(s)
    BY <2>2, <2>3 DEF Proper
  <2>5. m[1].url # None
    BY <2>4
  <2>6. w[i].url = m[1].url /\ w[i].title = m[1].title
    BY <2>2, <2>5, CombinedOK
  <2> QED
    BY <2>2, <2>4, <2>5, <2>6
<1>5. ASSUME NEW i \in DOMAIN w, NEW j \in DOMAIN w, w[i].url = w[j].url
      PROVE  w[i].title = w[j].title
  <2>1. PICK c \in ToSet(s) : w[i].url = c.url /\ w[i].title = c.title
    BY <1>4
  <2>2. PICK d \in ToSet(s) : w[j].url = d.url /\ w[j].title = d.title
    BY <1>4
  <2> QED
    BY <1>5, <2>1, <2>2
<1>6. WithoutSharedUrls(w) = w
  BY <1>1, <1>5, UnsharedOK
<1>7. r = w
  BY <1>2, <1>6
<1>8. \A i \in DOMAIN w : ComesWhole(w[i], s)
  BY <1>4, Zenon DEF ComesWhole
<1> QED
  BY <1>6, <1>7, <1>8

-----------------------------------------------------------------------------
(* The inductive invariant.                                                *)

\* What can be extracted from a page and written.
Solid(p) == {c \in world.emits[p] : Valid(c)}

\* The identities of C are in s.
Has(s, C) == \A a \in C : \E d \in ToSet(s) : Identity(d) = Identity(a)

\* The variables have their types.
Typed ==
  /\ world \in Worlds
  /\ files \in [Pages -> [is : {"absent", "torn", "list"}, list : Seq(CandidateType)]]
  /\ calls \in [Calls -> [at : {"idle", "loaded", "open"}, page : Pages,
                          found : Seq(CandidateType), batch : Seq(CandidateType)]]
  /\ left \in [Pages -> 0..MaxCalls]
  /\ answered \in [Pages -> SUBSET CandidateType]
  /\ disturbed \subseteq Pages
  /\ stage \in {"extracting", "merged", "judged"}
  /\ merged \in Seq(CandidateType)
  /\ verdict \in [passed : BOOLEAN, counted : BOOLEAN]

\* What is in a file or on its way there was extracted from the page, and each
\* identity once.
FileClean(p) == ToSet(files[p].list) \subseteq Solid(p) /\ Apart(files[p].list)

CallClean(c) ==
  calls[c].at # "idle" =>
    /\ ToSet(calls[c].found) \cup ToSet(calls[c].batch) \subseteq Solid(calls[c].page)
    /\ Apart(calls[c].found)

\* On a page that nothing disturbed there is one call at a time; it has read what
\* the file had, and what was answered is in the file, or in the call that has
\* emptied the file.
Orderly(p) ==
  p \notin disturbed =>
    /\ \A c, d \in Busy(p) : c = d
    /\ \A c \in Busy(p) :
         /\ calls[c].at = "loaded" => calls[c].found = files[p].list
         /\ calls[c].at = "open" => Has(calls[c].found, answered[p]) /\ files[p].is = "torn"
    /\ (\A c \in Busy(p) : calls[c].at # "open") => Has(files[p].list, answered[p])

\* After the merge no call is under way, and the merged list and the verdict are
\* those of the files.
Late ==
  stage # "extracting" =>
    /\ \A c \in Calls : calls[c].at = "idle"
    /\ merged = Processed(Loaded)
    /\ stage = "judged" /\ verdict.passed =>
         \E t \in BOOLEAN : Reasons(merged, t, verdict.counted) = {}

IInv ==
  /\ Typed
  /\ \A p \in Pages : FileClean(p) /\ Orderly(p)
  /\ \A c \in Calls : CallClean(c)
  /\ Late

\* What can be extracted is typed.
LEMMA WorldOK ==
  ASSUME Typed
  PROVE  /\ world.others \in Seq(CandidateType) /\ world.listed \in SUBSET Openings
         /\ \A p \in Pages : /\ world.emits[p] \in SUBSET CandidateType
                             /\ Solid(p) \in SUBSET CandidateType
<1>1. world \in WorldType
  BY DEF Typed
<1>2. /\ world.others \in Seq(CandidateType) /\ world.listed \in SUBSET Openings
      /\ \A p \in Pages : world.emits[p] \in SUBSET CandidateType
  BY <1>1 DEF WorldType
<1> QED
  BY <1>2 DEF Solid

\* The batches of a page are sequences of what can be extracted from it.
LEMMA BatchesOK ==
  ASSUME NEW p \in Pages, NEW b \in Batches(p)
  PROVE  b \in Seq(world.emits[p])
<1>1. b \in UNION {[1..n -> world.emits[p]] : n \in 0..BatchMax}
  BY DEF Batches, BoundedSeq, SeqOf
<1>2. PICK n \in 0..BatchMax : b \in [1..n -> world.emits[p]]
  BY <1>1
<1> QED
  BY <1>2

\* An empty sequence has nothing that could be wrong.
LEMMA EmptyOK == <<>> \in Seq(CandidateType) /\ ToSet(<<>>) = {} /\ Apart(<<>>)
  BY DEF ToSet, Apart

\* The invariant holds initially, is kept by each step, and so holds always.
LEMMA InitOK == Init => IInv
<1> SUFFICES ASSUME Init PROVE IInv
  OBVIOUS
<1> USE DEF Init
<1>1. \A p \in Pages : files[p] = Absent /\ answered[p] = {} /\ Busy(p) = {}
  BY DEF Busy, Idle
<1>2. Absent.list = <<>>
  BY DEF Absent
<1>3. Typed
  <2>1. 1 \in Pages
    BY FS_CardinalityType
  <2>2. Absent \in [is : {"absent", "torn", "list"}, list : Seq(CandidateType)]
    BY EmptyOK DEF Absent
  <2>3. Idle \in [at : {"idle", "loaded", "open"}, page : Pages,
                  found : Seq(CandidateType), batch : Seq(CandidateType)]
    BY <2>1, EmptyOK DEF Idle
  <2>4. files \in [Pages -> [is : {"absent", "torn", "list"}, list : Seq(CandidateType)]]
    BY <2>2
  <2>5. calls \in [Calls -> [at : {"idle", "loaded", "open"}, page : Pages,
                             found : Seq(CandidateType), batch : Seq(CandidateType)]]
    BY <2>3
  <2>6. left \in [Pages -> 0..MaxCalls] /\ answered \in [Pages -> SUBSET CandidateType]
    OBVIOUS
  <2>7. verdict \in [passed : BOOLEAN, counted : BOOLEAN] /\ merged \in Seq(CandidateType)
    BY EmptyOK DEF NoVerdict
  <2> QED
    BY <2>4, <2>5, <2>6, <2>7 DEF Typed
<1>4. \A p \in Pages : FileClean(p) /\ Orderly(p)
  <2> TAKE p \in Pages
  <2>1. FileClean(p)
    BY <1>1, <1>2, EmptyOK DEF FileClean
  <2>2. Has(files[p].list, answered[p])
    BY <1>1 DEF Has
  <2> QED
    BY <1>1, <2>1, <2>2 DEF Orderly
<1>5. \A c \in Calls : CallClean(c)
  BY DEF CallClean, Idle
<1>6. Late
  BY DEF Late
<1> QED
  BY <1>3, <1>4, <1>5, <1>6 DEF IInv

\* A page that a step does not touch stays orderly.
LEMMA Untouched ==
  ASSUME NEW q \in Pages, Orderly(q), files'[q] = files[q], answered'[q] = answered[q],
         q \in disturbed => q \in disturbed',
         \A c \in Calls : calls'[c] = calls[c] \/ (c \notin Busy(q) /\ c \notin Busy(q)')
  PROVE  Orderly(q)'
<1>1. \A c \in Calls : c \in Busy(q)' <=> c \in Busy(q)
  BY DEF Busy
<1>2. Busy(q)' = Busy(q)
  BY <1>1 DEF Busy
<1>3. \A c \in Busy(q) : c \in Calls /\ calls'[c] = calls[c]
  BY <1>2 DEF Busy
<1>4. \A s : Has(s, answered'[q]) <=> Has(s, answered[q])
  OBVIOUS
<1> SUFFICES ASSUME q \notin disturbed'
             PROVE  /\ \A c, d \in Busy(q) : c = d
                    /\ \A c \in Busy(q) :
                         /\ calls[c].at = "loaded" => calls[c].found = files[q].list
                         /\ calls[c].at = "open" =>
                              Has(calls[c].found, answered[q]) /\ files[q].is = "torn"
                    /\ (\A c \in Busy(q) : calls[c].at # "open") => Has(files[q].list, answered[q])
  BY <1>2, <1>3 DEF Orderly, Has
<1> QED
  BY DEF Orderly

\* A call that is under way belongs to the extraction.
LEMMA BusyEarly ==
  ASSUME IInv, NEW c \in Calls, calls[c].at # "idle"
  PROVE  /\ stage = "extracting" /\ calls[c].page \in Pages /\ c \in Busy(calls[c].page)
         /\ ToSet(calls[c].found) \cup ToSet(calls[c].batch) \subseteq Solid(calls[c].page)
         /\ Apart(calls[c].found)
         /\ calls[c].found \in Seq(CandidateType) /\ calls[c].batch \in Seq(CandidateType)
<1>1. calls[c] \in [at : {"idle", "loaded", "open"}, page : Pages,
                    found : Seq(CandidateType), batch : Seq(CandidateType)]
  BY DEF IInv, Typed
<1>2. stage = "extracting"
  BY DEF IInv, Late
<1>3. CallClean(c)
  BY DEF IInv
<1> QED
  BY <1>1, <1>2, <1>3 DEF Busy, CallClean

\* A call reads the file of its page.
LEMMA LoadOK ==
  ASSUME IInv, NEW c \in Calls, NEW p \in Pages, NEW batch \in Seq(world.emits[p]),
         Load(c, p, batch)
  PROVE  IInv'
<1> DEFINE valid == {b \in ToSet(batch) : Valid(b)}
           kept == Filtered(batch, valid)
           call == [at |-> "loaded", page |-> p, found |-> files[p].list, batch |-> kept]
<1>1. /\ stage = "extracting" /\ calls[c].at = "idle" /\ left[p] > 0
      /\ calls' = [calls EXCEPT ![c] = call]
      /\ left' = [left EXCEPT ![p] = @ - 1]
      /\ disturbed' = IF Busy(p) = {} THEN disturbed ELSE disturbed \cup {p}
      /\ UNCHANGED <<world, files, answered, stage, merged, verdict>>
  BY DEF Load, Found
<1>2. kept \in Seq(CandidateType) /\ ToSet(kept) \subseteq Solid(p)
  <2>1. kept \in Seq(world.emits[p]) /\ ToSet(kept) = ToSet(batch) \cap valid
    <3> HIDE DEF valid
    <3> QED
      BY FilteredOK
  <2>2. ToSet(batch) \in SUBSET world.emits[p]
    BY InSequence
  <2>3. world.emits[p] \in SUBSET CandidateType
    BY WorldOK DEF IInv
  <2> HIDE DEF kept
  <2> QED
    BY <2>1, <2>2, <2>3 DEF Solid
<1> HIDE DEF kept
<1>3. Typed /\ FileClean(p) /\ files[p].list \in Seq(CandidateType)
  BY DEF IInv, Typed
<1>4. /\ call \in [at : {"idle", "loaded", "open"}, page : Pages,
                   found : Seq(CandidateType), batch : Seq(CandidateType)]
      /\ call.at = "loaded" /\ call.page = p /\ call.found = files[p].list /\ call.batch = kept
  BY <1>2, <1>3
<1> HIDE DEF call
<1>5. calls'[c] = call /\ \A d \in Calls \ {c} : calls'[d] = calls[d]
  BY <1>1, <1>3 DEF Typed
<1>6. Typed'
  <2>1. calls' \in [Calls -> [at : {"idle", "loaded", "open"}, page : Pages,
                              found : Seq(CandidateType), batch : Seq(CandidateType)]]
    BY <1>1, <1>3, <1>4 DEF Typed
  <2>2. left' \in [Pages -> 0..MaxCalls]
    <3>1. left[p] - 1 \in 0..MaxCalls
      BY <1>1, <1>3 DEF Typed
    <3> QED
      BY <1>1, <1>3, <3>1 DEF Typed
  <2>3. disturbed' \subseteq Pages
    BY <1>1, <1>3 DEF Typed
  <2> QED
    BY <1>1, <1>3, <2>1, <2>2, <2>3 DEF Typed
<1>7. ASSUME NEW q \in Pages PROVE FileClean(q)'
  <2>1. FileClean(q)
    BY DEF IInv
  <2> QED
    BY <1>1, <2>1 DEF FileClean, Solid
<1>8. ASSUME NEW d \in Calls PROVE CallClean(d)'
  <2>1. CASE d = c
    <3>1. ToSet(call.found) \cup ToSet(call.batch) \subseteq Solid(p) /\ Apart(call.found)
      BY <1>2, <1>3, <1>4 DEF FileClean
    <3>2. Solid(p)' = Solid(p)
      BY <1>1 DEF Solid
    <3> QED
      BY <1>4, <1>5, <2>1, <3>1, <3>2 DEF CallClean
  <2>2. CASE d # c
    <3>1. CallClean(d) /\ calls'[d] = calls[d]
      BY <1>5, <2>2 DEF IInv
    <3>2. \A q : Solid(q)' = Solid(q)
      BY <1>1 DEF Solid
    <3> QED
      BY <3>1, <3>2 DEF CallClean
  <2> QED
    BY <2>1, <2>2
<1>9. ASSUME NEW q \in Pages PROVE Orderly(q)'
  <2>1. Orderly(q)
    BY DEF IInv
  <2>2. CASE q # p
    <3>1. c \notin Busy(q) /\ c \notin Busy(q)'
      BY <1>1, <1>4, <1>5, <2>2 DEF Busy
    <3>2. q \in disturbed => q \in disturbed'
      BY <1>1
    <3> QED
      BY <1>1, <1>5, <2>1, <3>1, <3>2, Untouched
  <2>3. CASE q = p /\ Busy(p) # {}
    BY <1>1, <2>3 DEF Orderly
  <2>4. CASE q = p /\ Busy(p) = {} /\ p \notin disturbed
    <3>1. Busy(p)' = {c}
      <4>1. c \in Busy(p)'
        BY <1>4, <1>5 DEF Busy
      <4>2. \A d \in Calls \ {c} : d \notin Busy(p)'
        BY <1>5, <2>4 DEF Busy
      <4> QED
        BY <4>1, <4>2 DEF Busy
    <3>2. Has(files[p].list, answered[p])
      BY <2>1, <2>4 DEF Orderly
    <3>3. Has(files[p].list, answered[p])'
      BY <1>1, <3>2 DEF Has
    <3> QED
      BY <1>1, <1>4, <1>5, <2>4, <3>1, <3>3 DEF Orderly
  <2>5. CASE q = p /\ p \in disturbed
    BY <1>1, <2>5 DEF Orderly
  <2> QED
    BY <2>2, <2>3, <2>4, <2>5
<1>10. Late'
  BY <1>1 DEF Late
<1> QED
  BY <1>6, <1>7, <1>8, <1>9, <1>10 DEF IInv

\* A call that touches no file.
LEMMA RefuseOK ==
  ASSUME IInv, NEW p \in Pages, Refuse(p)
  PROVE  IInv'
<1>1. /\ stage = "extracting" /\ left[p] > 0 /\ left' = [left EXCEPT ![p] = @ - 1]
      /\ UNCHANGED <<world, files, calls, answered, disturbed, stage, merged, verdict>>
  BY DEF Refuse
<1>2. Typed
  BY DEF IInv
<1>3. Typed'
  <2>1. left[p] - 1 \in 0..MaxCalls
    BY <1>1, <1>2 DEF Typed
  <2> QED
    BY <1>1, <1>2, <2>1 DEF Typed
<1>4. ASSUME NEW q \in Pages PROVE FileClean(q)' /\ Orderly(q)'
  <2>1. FileClean(q) /\ Orderly(q)
    BY DEF IInv
  <2>2. FileClean(q)'
    BY <1>1, <2>1 DEF FileClean, Solid
  <2>3. Orderly(q)'
    BY <1>1, <2>1, Untouched
  <2> QED
    BY <2>2, <2>3
<1>5. ASSUME NEW c \in Calls PROVE CallClean(c)'
  <2>1. CallClean(c)
    BY DEF IInv
  <2> QED
    BY <1>1, <2>1 DEF CallClean, Solid
<1>6. Late'
  BY <1>1 DEF Late
<1> QED
  BY <1>3, <1>4, <1>5, <1>6 DEF IInv

\* The file is emptied.
LEMMA OpenOK ==
  ASSUME IInv, NEW c \in Calls, Open(c)
  PROVE  IInv'
<1> DEFINE p == calls[c].page
<1>1. /\ calls[c].at = "loaded"
      /\ files' = [files EXCEPT ![p] = Torn]
      /\ calls' = [calls EXCEPT ![c].at = "open"]
      /\ UNCHANGED <<world, left, answered, disturbed, stage, merged, verdict>>
  BY DEF Open
<1>2. /\ stage = "extracting" /\ p \in Pages /\ c \in Busy(p)
      /\ ToSet(calls[c].found) \cup ToSet(calls[c].batch) \subseteq Solid(p)
      /\ Apart(calls[c].found)
      /\ calls[c].found \in Seq(CandidateType) /\ calls[c].batch \in Seq(CandidateType)
  BY <1>1, BusyEarly
<1>3. Typed
  BY DEF IInv
<1>4. PICK q \in Pages : q = p
  BY <1>2
<1> HIDE DEF p
<1>5. /\ files'[q] = Torn /\ \A o \in Pages \ {q} : files'[o] = files[o]
      /\ Torn.list = <<>> /\ Torn.is = "torn"
  BY <1>1, <1>3, <1>4 DEF Typed, Torn
<1>6. /\ calls'[c].at = "open" /\ calls'[c].page = q /\ calls'[c].found = calls[c].found
      /\ calls'[c].batch = calls[c].batch
      /\ \A d \in Calls \ {c} : calls'[d] = calls[d]
  BY <1>1, <1>3, <1>4 DEF Typed, p
<1>7. Typed'
  <2>1. files' \in [Pages -> [is : {"absent", "torn", "list"}, list : Seq(CandidateType)]]
    <3>1. Torn \in [is : {"absent", "torn", "list"}, list : Seq(CandidateType)]
      BY EmptyOK DEF Torn
    <3> QED
      BY <1>1, <1>3, <3>1 DEF Typed
  <2>2. calls' \in [Calls -> [at : {"idle", "loaded", "open"}, page : Pages,
                              found : Seq(CandidateType), batch : Seq(CandidateType)]]
    <3> DEFINE R == [at : {"idle", "loaded", "open"}, page : Pages,
                     found : Seq(CandidateType), batch : Seq(CandidateType)]
               r == calls[c]
    <3>1. calls \in [Calls -> R]
      BY <1>3 DEF Typed
    <3>2. r \in R
      BY <3>1
    <3>3. calls' = [calls EXCEPT ![c] = [r EXCEPT !.at = "open"]]
      BY <1>1, <3>1
    <3> HIDE DEF r
    <3>4. [r EXCEPT !.at = "open"] \in R
      BY <3>2
    <3> HIDE DEF R
    <3>5. calls' \in [Calls -> R]
      BY <3>1, <3>3, <3>4
    <3> QED
      BY <3>5 DEF R
  <2> QED
    BY <1>1, <1>3, <2>1, <2>2 DEF Typed
<1>8. ASSUME NEW o \in Pages PROVE FileClean(o)'
  <2>1. CASE o = q
    BY <1>5, <2>1, EmptyOK DEF FileClean
  <2>2. CASE o # q
    <3>1. FileClean(o) /\ files'[o] = files[o]
      BY <1>5, <2>2 DEF IInv
    <3> QED
      BY <1>1, <3>1 DEF FileClean, Solid
  <2> QED
    BY <2>1, <2>2
<1>9. ASSUME NEW d \in Calls PROVE CallClean(d)'
  <2>0. \A o : Solid(o)' = Solid(o)
    BY <1>1 DEF Solid
  <2>1. CASE d = c
    BY <1>2, <1>4, <1>6, <2>0, <2>1 DEF CallClean
  <2>2. CASE d # c
    <3>1. CallClean(d) /\ calls'[d] = calls[d]
      BY <1>6, <2>2 DEF IInv
    <3> QED
      BY <2>0, <3>1 DEF CallClean
  <2> QED
    BY <2>1, <2>2
<1>10. ASSUME NEW o \in Pages PROVE Orderly(o)'
  <2>1. Orderly(o)
    BY DEF IInv
  <2>2. CASE o # q
    <3>1. c \notin Busy(o) /\ c \notin Busy(o)'
      BY <1>4, <1>6, <2>2 DEF Busy, p
    <3> QED
      BY <1>1, <1>5, <1>6, <2>1, <2>2, <3>1, Untouched
  <2>3. CASE o = q /\ q \notin disturbed
    <3>1. Busy(q) = {c}
      BY <1>2, <1>4, <2>1, <2>3 DEF Orderly
    <3>2. Busy(q)' = {c}
      <4>1. c \in Busy(q)'
        BY <1>6 DEF Busy
      <4>2. \A d \in Calls \ {c} : d \notin Busy(q)'
        BY <1>6, <3>1 DEF Busy
      <4> QED
        BY <4>1, <4>2 DEF Busy
    <3>3. Has(calls[c].found, answered[q])
      BY <1>1, <2>1, <2>3, <3>1 DEF Orderly
    <3>4. Has(calls[c].found, answered[q])'
      BY <1>1, <1>6, <3>3 DEF Has
    <3>5. /\ calls'[c].at = "open" /\ files'[q].is = "torn"
      BY <1>5, <1>6
    <3> QED
      BY <2>3, <3>2, <3>4, <3>5 DEF Orderly
  <2>4. CASE o = q /\ q \in disturbed
    BY <1>1, <2>4 DEF Orderly
  <2> QED
    BY <2>2, <2>3, <2>4
<1>11. Late'
  BY <1>1, <1>2 DEF Late
<1> QED
  BY <1>7, <1>8, <1>9, <1>10, <1>11 DEF IInv

\* A call that ends leaves its page in order, whatever its file has become: either
\* the page was disturbed, or the call has written what it had, or nothing.
LEMMA EndOK ==
  ASSUME IInv, NEW c \in Calls, calls[c].at # "idle",
         calls' = [calls EXCEPT ![c] = Idle], UNCHANGED <<world, left, stage, merged, verdict>>,
         NEW file \in [is : {"absent", "torn", "list"}, list : Seq(CandidateType)],
         files' = [files EXCEPT ![calls[c].page] = file],
         ToSet(file.list) \subseteq Solid(calls[c].page) /\ Apart(file.list),
         answered' \in [Pages -> SUBSET CandidateType],
         \A q \in Pages \ {calls[c].page} : answered'[q] = answered[q],
         disturbed' \in {disturbed, disturbed \cup {calls[c].page}},
         calls[c].page \in disturbed' \/ Has(file.list, answered'[calls[c].page])
  PROVE  IInv'
<1> DEFINE p == calls[c].page
<1>1. stage = "extracting" /\ p \in Pages /\ c \in Busy(p)
  BY BusyEarly
<1>2. Typed
  BY DEF IInv
<1>3. PICK q \in Pages : q = p
  BY <1>1
<1> HIDE DEF p
<1>4. files'[q] = file /\ \A o \in Pages \ {q} : files'[o] = files[o]
  BY <1>2, <1>3 DEF Typed, p
<1>5. /\ calls'[c].at = "idle" /\ \A d \in Calls \ {c} : calls'[d] = calls[d]
  BY <1>2 DEF Typed, Idle
<1>6. Typed'
  <2>1. files' \in [Pages -> [is : {"absent", "torn", "list"}, list : Seq(CandidateType)]]
    BY <1>2 DEF Typed
  <2>2. calls' \in [Calls -> [at : {"idle", "loaded", "open"}, page : Pages,
                              found : Seq(CandidateType), batch : Seq(CandidateType)]]
    <3>1. Idle \in [at : {"idle", "loaded", "open"}, page : Pages,
                    found : Seq(CandidateType), batch : Seq(CandidateType)]
      <4>1. 1 \in Pages
        BY FS_CardinalityType
      <4> QED
        BY <4>1, EmptyOK DEF Idle
    <3> QED
      BY <1>2, <3>1 DEF Typed
  <2>3. disturbed' \subseteq Pages
    BY <1>1, <1>2 DEF Typed, p
  <2> QED
    BY <1>2, <2>1, <2>2, <2>3 DEF Typed
<1>7. \A o : Solid(o)' = Solid(o)
  BY DEF Solid
<1>8. ASSUME NEW o \in Pages PROVE FileClean(o)'
  <2>1. CASE o = q
    BY <1>3, <1>4, <1>7, <2>1 DEF FileClean, p
  <2>2. CASE o # q
    <3>1. FileClean(o) /\ files'[o] = files[o]
      BY <1>4, <2>2 DEF IInv
    <3> QED
      BY <1>7, <3>1 DEF FileClean
  <2> QED
    BY <2>1, <2>2
<1>9. ASSUME NEW d \in Calls PROVE CallClean(d)'
  <2>1. CASE d = c
    BY <1>5, <2>1 DEF CallClean
  <2>2. CASE d # c
    <3>1. CallClean(d) /\ calls'[d] = calls[d]
      BY <1>5, <2>2 DEF IInv
    <3> QED
      BY <1>7, <3>1 DEF CallClean
  <2> QED
    BY <2>1, <2>2
<1>10. ASSUME NEW o \in Pages PROVE Orderly(o)'
  <2>1. Orderly(o)
    BY DEF IInv
  <2>2. CASE o # q
    <3>1. c \notin Busy(o) /\ c \notin Busy(o)'
      BY <1>3, <1>5, <2>2 DEF Busy, p
    <3>2. answered'[o] = answered[o] /\ (o \in disturbed => o \in disturbed')
      BY <1>3, <2>2 DEF p
    <3> QED
      BY <1>4, <1>5, <2>1, <2>2, <3>1, <3>2, Untouched
  <2>3. CASE o = q /\ q \notin disturbed'
    <3>1. Busy(q) = {c}
      BY <1>1, <1>3, <2>1, <2>3 DEF Orderly
    <3>2. Busy(q)' = {}
      BY <1>5, <3>1 DEF Busy
    <3>3. Has(file.list, answered'[q])
      BY <1>3, <2>3 DEF p
    <3>4. Has(files[q].list, answered[q])'
      BY <1>4, <3>3 DEF Has
    <3> QED
      BY <2>3, <3>2, <3>4 DEF Orderly
  <2>4. CASE o = q /\ q \in disturbed'
    BY <2>4 DEF Orderly
  <2> QED
    BY <2>2, <2>3, <2>4
<1>11. Late'
  BY <1>1 DEF Late
<1> QED
  BY <1>6, <1>8, <1>9, <1>10, <1>11 DEF IInv

\* What a call writes: the identities it found and those of its batch.
LEMMA ContentsOK ==
  ASSUME IInv, NEW c \in Calls, calls[c].at # "idle"
  PROVE  /\ Contents(c) \in [is : {"absent", "torn", "list"}, list : Seq(CandidateType)]
         /\ ToSet(Contents(c).list) \subseteq Solid(calls[c].page)
         /\ Apart(Contents(c).list)
         /\ Gathers(Contents(c).list, ToSet(calls[c].found) \cup ToSet(calls[c].batch))
<1> DEFINE s == Accumulated(calls[c].found, calls[c].batch)
<1>1. /\ ToSet(calls[c].found) \cup ToSet(calls[c].batch) \subseteq Solid(calls[c].page)
      /\ Apart(calls[c].found)
      /\ calls[c].found \in Seq(CandidateType) /\ calls[c].batch \in Seq(CandidateType)
  BY BusyEarly
<1>2. /\ s \in Seq(CandidateType) /\ Apart(s)
      /\ Gathers(s, ToSet(calls[c].found) \cup ToSet(calls[c].batch))
  BY <1>1, AccumulatedOK
<1>3. Contents(c) = [is |-> "list", list |-> s]
  BY Zenon DEF Contents, Listing
<1> HIDE DEF s
<1>4. ToSet(s) \subseteq ToSet(calls[c].found) \cup ToSet(calls[c].batch)
  BY <1>2 DEF Gathers
<1>5. Contents(c).list = s
  BY <1>3
<1> QED
  BY <1>1, <1>2, <1>3, <1>4, <1>5

\* The file is filled.
LEMMA FillOK ==
  ASSUME IInv, NEW c \in Calls, Fill(c)
  PROVE  IInv'
<1> DEFINE p == calls[c].page
           file == Contents(c)
           batch == ToSet(calls[c].batch)
<1>1. /\ calls[c].at = "open"
      /\ files' = [files EXCEPT ![p] = file]
      /\ answered' = [answered EXCEPT ![p] = @ \cup batch]
      /\ calls' = [calls EXCEPT ![c] = Idle]
      /\ UNCHANGED <<world, left, disturbed, stage, merged, verdict>>
  BY DEF Fill
<1>2. /\ p \in Pages /\ c \in Busy(p)
      /\ ToSet(calls[c].found) \cup batch \subseteq Solid(p)
  BY <1>1, BusyEarly
<1>3. /\ file \in [is : {"absent", "torn", "list"}, list : Seq(CandidateType)]
      /\ ToSet(file.list) \subseteq Solid(p) /\ Apart(file.list)
      /\ Gathers(file.list, ToSet(calls[c].found) \cup batch)
  BY <1>1, ContentsOK
<1> HIDE DEF file, batch
<1>4. Typed
  BY DEF IInv
<1>5. /\ answered' \in [Pages -> SUBSET CandidateType] /\ answered'[p] = answered[p] \cup batch
      /\ \A q \in Pages \ {p} : answered'[q] = answered[q]
  <2>1. batch \subseteq CandidateType
    BY <1>2, <1>4, WorldOK
  <2> QED
    BY <1>1, <1>2, <1>4, <2>1 DEF Typed
<1>6. p \in disturbed' \/ Has(file.list, answered'[p])
  <2> SUFFICES ASSUME p \notin disturbed PROVE Has(file.list, answered[p] \cup batch)
    BY <1>1, <1>5
  <2>1. Has(calls[c].found, answered[p])
    <3>1. Orderly(p)
      BY <1>2 DEF IInv
    <3> QED
      BY <1>1, <1>2, <3>1 DEF Orderly
  <2>2. ASSUME NEW a \in answered[p] \cup batch
        PROVE  \E d \in ToSet(file.list) : Identity(d) = Identity(a)
    <3>1. PICK b \in ToSet(calls[c].found) \cup batch : Identity(b) = Identity(a)
      BY <2>1, <2>2 DEF Has
    <3>2. PICK d \in ToSet(file.list) : Identity(d) = Identity(b)
      BY <1>3 DEF Gathers
    <3> QED
      BY <3>1, <3>2
  <2> QED
    BY <2>2 DEF Has
<1>7. calls[c].at # "idle"
  BY <1>1
<1>8. disturbed' \in {disturbed, disturbed \cup {p}}
  BY <1>1
<1> QED
  BY <1>1, <1>3, <1>5, <1>6, <1>7, <1>8, EndOK

\* A call is killed.
LEMMA KillOK ==
  ASSUME IInv, NEW c \in Calls, Kill(c)
  PROVE  IInv'
<1> DEFINE p == calls[c].page
<1>1. /\ calls[c].at # "idle" /\ calls' = [calls EXCEPT ![c] = Idle]
      /\ IF calls[c].at = "open"
           THEN /\ files' \in {files, [files EXCEPT ![p] = Contents(c)]}
                /\ disturbed' = disturbed \cup {p}
           ELSE UNCHANGED <<files, disturbed>>
      /\ UNCHANGED <<world, left, answered, stage, merged, verdict>>
  BY DEF Kill
<1>2. p \in Pages /\ c \in Busy(p)
  BY <1>1, BusyEarly
<1>3. Typed /\ FileClean(p) /\ Orderly(p)
  BY <1>2 DEF IInv
<1>4. /\ files[p] \in [is : {"absent", "torn", "list"}, list : Seq(CandidateType)]
      /\ files = [files EXCEPT ![p] = files[p]]
      /\ ToSet(files[p].list) \subseteq Solid(p) /\ Apart(files[p].list)
  BY <1>2, <1>3 DEF Typed, FileClean
<1>5. /\ Contents(c) \in [is : {"absent", "torn", "list"}, list : Seq(CandidateType)]
      /\ ToSet(Contents(c).list) \subseteq Solid(p) /\ Apart(Contents(c).list)
  BY <1>1, ContentsOK
<1>6. answered' \in [Pages -> SUBSET CandidateType] /\ \A q \in Pages \ {p} : answered'[q] = answered[q]
  BY <1>1, <1>3 DEF Typed
<1>7. CASE calls[c].at = "open"
  <2>1. p \in disturbed' /\ disturbed' \in {disturbed, disturbed \cup {p}}
    BY <1>1, <1>7
  <2>2. CASE files' = files
    <3>1. files' = [files EXCEPT ![p] = files[p]]
      BY <1>4, <2>2
    <3> QED
      BY <1>1, <1>4, <1>6, <2>1, <3>1, EndOK
  <2>3. CASE files' = [files EXCEPT ![p] = Contents(c)]
    BY <1>1, <1>5, <1>6, <2>1, <2>3, EndOK
  <2> QED
    BY <1>1, <1>7, <2>2, <2>3
<1>8. CASE calls[c].at # "open"
  <2>1. files' = [files EXCEPT ![p] = files[p]] /\ disturbed' = disturbed
    BY <1>1, <1>4, <1>8
  <2>2. p \in disturbed \/ Has(files[p].list, answered[p])
    BY <1>2, <1>3, <1>8 DEF Orderly
  <2>3. p \in disturbed' \/ Has(files[p].list, answered'[p])
    BY <1>1, <2>1, <2>2
  <2>4. disturbed' \in {disturbed, disturbed \cup {p}}
    BY <2>1
  <2> QED
    BY <1>1, <1>4, <1>6, <2>1, <2>3, <2>4, EndOK
<1> QED
  BY <1>7, <1>8

\* What the merge reads.
LEMMA LoadedTyped ==
  ASSUME Typed
  PROVE  /\ Loaded \in Seq(CandidateType)
         /\ ToSet(Loaded) = (UNION {ToSet(files[p].list) : p \in Pages}) \cup ToSet(world.others)
<1>1. \A p \in Pages : files[p].list \in Seq(CandidateType)
  BY DEF Typed
<1> QED
  BY <1>1, WorldOK, LoadedOK

\* The files are merged.
LEMMA MergeOK ==
  ASSUME IInv, Merge
  PROVE  IInv'
<1>1. /\ \A c \in Calls : calls[c].at = "idle"
      /\ merged' = Processed(Loaded) /\ stage' = "merged"
      /\ UNCHANGED <<world, files, calls, left, answered, disturbed, verdict>>
  BY DEF Merge
<1>2. Typed
  BY DEF IInv
<1>3. merged' \in Seq(CandidateType)
  BY <1>1, <1>2, LoadedTyped, ProcessedOK
<1>4. Typed'
  BY <1>1, <1>2, <1>3 DEF Typed
<1>5. ASSUME NEW q \in Pages PROVE FileClean(q)' /\ Orderly(q)'
  <2>1. FileClean(q) /\ Orderly(q)
    BY DEF IInv
  <2>2. FileClean(q)'
    BY <1>1, <2>1 DEF FileClean, Solid
  <2>3. Orderly(q)'
    BY <1>1, <2>1, Untouched
  <2> QED
    BY <2>2, <2>3
<1>6. ASSUME NEW c \in Calls PROVE CallClean(c)'
  <2>1. CallClean(c)
    BY DEF IInv
  <2> QED
    BY <1>1, <2>1 DEF CallClean, Solid
<1>7. Loaded' = Loaded
  BY <1>1 DEF Loaded
<1>8. Late'
  BY <1>1, <1>7 DEF Late
<1> QED
  BY <1>4, <1>5, <1>6, <1>8 DEF IInv

\* The gate judges.
LEMMA GateOK ==
  ASSUME IInv, NEW terminal \in BOOLEAN, NEW counted \in BOOLEAN, Gate(terminal, counted)
  PROVE  IInv'
<1>1. /\ stage = "merged" /\ stage' = "judged"
      /\ verdict' = [passed |-> Reasons(merged, terminal, counted) = {}, counted |-> counted]
      /\ UNCHANGED <<world, files, calls, left, answered, disturbed, merged>>
  BY DEF Gate
<1>2. Typed /\ Late
  BY DEF IInv
<1>3. Typed'
  <2>1. verdict' \in [passed : BOOLEAN, counted : BOOLEAN]
    BY <1>1
  <2> QED
    BY <1>1, <1>2, <2>1 DEF Typed
<1>4. ASSUME NEW q \in Pages PROVE FileClean(q)' /\ Orderly(q)'
  <2>1. FileClean(q) /\ Orderly(q)
    BY DEF IInv
  <2>2. FileClean(q)'
    BY <1>1, <2>1 DEF FileClean, Solid
  <2>3. Orderly(q)'
    BY <1>1, <2>1, Untouched
  <2> QED
    BY <2>2, <2>3
<1>5. ASSUME NEW c \in Calls PROVE CallClean(c)'
  <2>1. CallClean(c)
    BY DEF IInv
  <2> QED
    BY <1>1, <2>1 DEF CallClean, Solid
<1>6. Loaded' = Loaded
  BY <1>1 DEF Loaded
<1>7. verdict'.counted = counted /\ (verdict'.passed <=> Reasons(merged, terminal, counted) = {})
  BY <1>1
<1>8. Reasons(merged, terminal, counted)' = Reasons(merged, terminal, counted)
  BY <1>1 DEF Reasons
<1>9. Late'
  <2>1. (\A c \in Calls : calls[c].at = "idle")' /\ merged' = Processed(Loaded)'
    BY <1>1, <1>2, <1>6 DEF Late
  <2>2. ASSUME verdict'.passed
        PROVE  (\E t \in BOOLEAN : Reasons(merged, t, verdict.counted) = {})'
    BY <1>7, <1>8, <2>2
  <2> QED
    BY <2>1, <2>2 DEF Late
<1> QED
  BY <1>3, <1>4, <1>5, <1>9 DEF IInv

\* Nothing happens.
LEMMA StutterOK ==
  ASSUME IInv, UNCHANGED vars
  PROVE  IInv'
<1>1. UNCHANGED <<world, files, calls, left, answered, disturbed, stage, merged, verdict>>
  BY DEF vars
<1>2. Typed /\ Late
  BY DEF IInv
<1>3. Typed'
  BY <1>1, <1>2 DEF Typed
<1>4. ASSUME NEW q \in Pages PROVE FileClean(q)' /\ Orderly(q)'
  <2>1. FileClean(q) /\ Orderly(q)
    BY DEF IInv
  <2>2. FileClean(q)'
    BY <1>1, <2>1 DEF FileClean, Solid
  <2>3. Orderly(q)'
    BY <1>1, <2>1, Untouched
  <2> QED
    BY <2>2, <2>3
<1>5. ASSUME NEW c \in Calls PROVE CallClean(c)'
  <2>1. CallClean(c)
    BY DEF IInv
  <2> QED
    BY <1>1, <2>1 DEF CallClean, Solid
<1>6. Loaded' = Loaded /\ \A t, n : Reasons(merged, t, n)' = Reasons(merged, t, n)
  <2>1. Loaded' = Loaded
    BY <1>1 DEF Loaded
  <2>2. \A t, n : Reasons(merged, t, n)' = Reasons(merged, t, n)
    BY <1>1 DEF Reasons
  <2> QED
    BY <2>1, <2>2
<1>7. Late'
  <2>1. stage # "extracting" => (\A c \in Calls : calls[c].at = "idle")' /\ merged' = Processed(Loaded)'
    BY <1>1, <1>2, <1>6 DEF Late
  <2>2. ASSUME stage = "judged" /\ verdict.passed
        PROVE  (\E t \in BOOLEAN : Reasons(merged, t, verdict.counted) = {})'
    BY <1>1, <1>2, <1>6, <2>2 DEF Late
  <2> QED
    BY <1>1, <2>1, <2>2 DEF Late
<1> QED
  BY <1>3, <1>4, <1>5, <1>7 DEF IInv

LEMMA NextOK == IInv /\ [Next]_vars => IInv'
<1> SUFFICES ASSUME IInv, [Next]_vars PROVE IInv'
  OBVIOUS
<1>1. ASSUME NEW p \in Pages, NEW c \in Calls, NEW batch \in Batches(p), Load(c, p, batch)
      PROVE  IInv'
  BY <1>1, BatchesOK, LoadOK
<1>2. ASSUME NEW p \in Pages, NEW c \in Calls, LoadToPackage(c, p)
      PROVE  IInv'
  <2>1. Load(c, p, <<>>) /\ <<>> \in Seq(world.emits[p])
    BY <1>2 DEF LoadToPackage
  <2> QED
    BY <2>1, LoadOK
<1>3. ASSUME NEW p \in Pages, Refuse(p) PROVE IInv'
  BY <1>3, RefuseOK
<1>4. ASSUME NEW c \in Calls, Open(c) PROVE IInv'
  BY <1>4, OpenOK
<1>5. ASSUME NEW c \in Calls, Fill(c) PROVE IInv'
  BY <1>5, FillOK
<1>6. ASSUME NEW c \in Calls, Kill(c) PROVE IInv'
  BY <1>6, KillOK
<1>7. CASE Merge
  BY <1>7, MergeOK
<1>8. ASSUME NEW terminal \in BOOLEAN, NEW counted \in BOOLEAN, Gate(terminal, counted)
      PROVE  IInv'
  BY <1>8, GateOK
<1>9. CASE UNCHANGED vars
  BY <1>9, StutterOK
<1> QED
  BY <1>1, <1>2, <1>3, <1>4, <1>5, <1>6, <1>7, <1>8, <1>9, Zenon DEF Next

LEMMA Invariance == Spec => []IInv
  BY InitOK, NextOK, PTL DEF Spec

-----------------------------------------------------------------------------
(* The theorems.                                                           *)

\* The variables have their types, and the files hold each identity once, however
\* often a batch is sent again.
THEOREM TypeCorrect == Spec => []TypeOK
<1>1. ASSUME IInv PROVE TypeOK
  <2>1. ASSUME NEW p \in Pages
        PROVE  LET s == files[p].list
               IN  /\ files[p].is \in {"absent", "torn", "list"}
                   /\ \A i \in DOMAIN s : s[i] \in CandidateType /\ HasBody(s[i]) /\ ~s[i].titleOnly
                   /\ \A i, j \in DOMAIN s : Identity(s[i]) = Identity(s[j]) => i = j
    <3>1. Typed /\ FileClean(p) /\ Solid(p) \in SUBSET CandidateType
      BY <1>1, WorldOK DEF IInv
    <3>2. files[p] \in [is : {"absent", "torn", "list"}, list : Seq(CandidateType)]
      BY <3>1 DEF Typed
    <3>3. \A i \in DOMAIN files[p].list : files[p].list[i] \in Solid(p)
      BY <3>1, <3>2, InSequence DEF FileClean
    <3> QED
      BY <3>1, <3>2, <3>3 DEF FileClean, Apart, Solid, Valid
  <2>2. Typed
    BY <1>1 DEF IInv
  <2>3. ToSet(merged) \subseteq CandidateType
    BY <2>2, InSequence DEF Typed
  <2>4. \A c \in Calls : calls[c].at \in {"idle", "loaded", "open"} /\ calls[c].page \in Pages
    BY <2>2 DEF Typed
  <2> QED
    BY <2>1, <2>2, <2>3, <2>4 DEF TypeOK, Typed
<1> QED
  BY <1>1, Invariance, PTL

\* A row of a file is a row of what is merged.
LEMMA InLoaded ==
  ASSUME IInv, NEW p \in Pages, NEW d \in ToSet(files[p].list)
  PROVE  /\ d \in ToSet(Loaded) /\ d \in CandidateType /\ HasBody(d)
         /\ ~Junk(d) => d \in Proper(Loaded)
<1>1. Typed /\ FileClean(p) /\ Solid(p) \in SUBSET CandidateType
  BY WorldOK DEF IInv
<1>2. d \in ToSet(Loaded)
  BY <1>1, LoadedTyped
<1>3. d \in Solid(p)
  BY <1>1 DEF FileClean
<1> QED
  BY <1>1, <1>2, <1>3 DEF Solid, Valid, Proper

\* What a call reported as written stays in the file and reaches the merged list.
THEOREM AnsweredAlways == Spec => []AnsweredIsKept
<1>1. ASSUME IInv PROVE AnsweredIsKept
  <2> SUFFICES ASSUME NEW p \in Pages \ disturbed, NEW c \in answered[p]
               PROVE  /\ files[p].is = "list" =>
                           \E i \in DOMAIN files[p].list : Identity(files[p].list[i]) = Identity(c)
                      /\ stage # "extracting" =>
                           \E d \in ToSet(Loaded) :
                             /\ Identity(d) = Identity(c)
                             /\ Junk(d) \/ \E i \in DOMAIN merged :
                                  /\ merged[i].company = c.company /\ merged[i].place = c.place
                                  /\ d.refs \subseteq merged[i].refs
    BY Zenon DEF AnsweredIsKept
  <2>1. Typed /\ Orderly(p) /\ Late /\ files[p].list \in Seq(CandidateType)
    BY <1>1 DEF IInv, Typed
  <2>2. ASSUME files[p].is = "list" \/ stage # "extracting"
        PROVE  \E d \in ToSet(files[p].list) : Identity(d) = Identity(c)
    <3>1. \A k \in Busy(p) : calls[k].at # "open"
      BY <2>1, <2>2 DEF Orderly, Late, Busy
    <3>2. Has(files[p].list, answered[p])
      BY <2>1, <3>1 DEF Orderly
    <3> QED
      BY <3>2 DEF Has
  <2>3. ASSUME files[p].is = "list"
        PROVE  \E i \in DOMAIN files[p].list : Identity(files[p].list[i]) = Identity(c)
    BY <2>1, <2>2, <2>3, InSequence
  <2>4. ASSUME stage # "extracting"
        PROVE  \E d \in ToSet(Loaded) :
                 /\ Identity(d) = Identity(c)
                 /\ Junk(d) \/ \E i \in DOMAIN merged :
                      /\ merged[i].company = c.company /\ merged[i].place = c.place
                      /\ d.refs \subseteq merged[i].refs
    <3>1. PICK d \in ToSet(files[p].list) : Identity(d) = Identity(c)
      BY <2>2, <2>4
    <3>2. d \in ToSet(Loaded) /\ HasBody(d) /\ (~Junk(d) => d \in Proper(Loaded))
      BY <1>1, InLoaded
    <3>3. d.company = c.company /\ d.place = c.place
      BY <3>1 DEF Identity
    <3>4. ASSUME ~Junk(d)
          PROVE  \E i \in DOMAIN merged :
                   /\ merged[i].company = d.company /\ merged[i].place = d.place
                   /\ d.refs \subseteq merged[i].refs
      <4>1. merged = Processed(Loaded) /\ Loaded \in Seq(CandidateType)
        BY <2>1, <2>4, LoadedTyped DEF Late
      <4>2. \A e \in Proper(Loaded) : HasBody(e) =>
              \E i \in DOMAIN merged : /\ merged[i].company = e.company /\ merged[i].place = e.place
                                       /\ e.refs \subseteq merged[i].refs
        BY <4>1, ProcessedOK, Zenon
      <4> QED
        BY <3>2, <3>4, <4>2, Zenon
    <3>5. Junk(d) \/ \E i \in DOMAIN merged :
                       /\ merged[i].company = c.company /\ merged[i].place = c.place
                       /\ d.refs \subseteq merged[i].refs
      BY <3>3, <3>4
    <3> QED
      BY <3>1, <3>2, <3>5, Zenon
  <2> QED
    BY <2>3, <2>4, Zenon
<1> QED
  BY <1>1, Invariance, PTL

\* Openings that lead to different applications are not merged into one.
THEOREM RoutesApartAlways == Spec => []RoutesStayApart
<1>1. ASSUME IInv PROVE RoutesStayApart
  <2> SUFFICES ASSUME stage # "extracting", RoutesTell,
                      NEW i \in DOMAIN merged, HasBody(merged[i]),
                      NEW c \in Full, NEW d \in Full, c.refs \cup d.refs \subseteq merged[i].refs
               PROVE  c.url = d.url \/ None \in {c.url, d.url}
    BY Zenon DEF RoutesStayApart
  <2>1. merged = Processed(Loaded) /\ Loaded \in Seq(CandidateType)
    BY <1>1, LoadedTyped DEF IInv, Late
  <2>2. PICK m : /\ Whole(m) /\ ToSet(m) \subseteq Proper(Loaded)
                 /\ merged[i].refs = UNION {m[j].refs : j \in DOMAIN m}
                 /\ HasBody(merged[i]) <=> HasBody(m[1])
    <3>1. Comes(merged[i], Loaded)
      BY <2>1, ProcessedOK
    <3> QED
      BY <3>1, Zenon DEF Comes
  <2>3. /\ \A j \in DOMAIN m : m[j] \in CandidateType /\ m[j] \in ToSet(m)
        /\ 1 \in DOMAIN m
    BY <2>2, InSequence DEF Whole
  <2>4. ASSUME NEW j \in DOMAIN m PROVE m[j] \in Full
    <3>1. HasBody(m[j])
      BY <2>2, <2>3, OneKind DEF Whole
    <3>2. m[j] \in ToSet(Loaded) /\ ~Junk(m[j])
      BY <2>2, <2>3 DEF Proper
    <3> QED
      BY <3>1, <3>2 DEF Full
  <2>5. ASSUME NEW e \in Full, e.refs \subseteq merged[i].refs
        PROVE  \E j \in DOMAIN m : e.url = m[j].url
    <3>1. e.refs # {}
      BY DEF RoutesTell
    <3>2. PICK j \in DOMAIN m : e.refs \cap m[j].refs # {}
      BY <2>2, <2>5, <3>1
    <3> QED
      BY <2>4, <3>2 DEF RoutesTell
  <2>6. PICK j \in DOMAIN m : c.url = m[j].url
    BY <2>5
  <2>7. PICK k \in DOMAIN m : d.url = m[k].url
    BY <2>5
  <2>8. m[j].url = m[k].url \/ None \in {m[j].url, m[k].url}
    BY <2>2, Zenon DEF Whole
  <2> QED
    BY <2>6, <2>7, <2>8
<1> QED
  BY <1>1, Invariance, PTL

\* What the gate found if it has no reason to object.
LEMMA NoReason ==
  ASSUME NEW s, NEW t, NEW n, Reasons(s, t, n) = {}
  PROVE  /\ \A i \in DOMAIN s : HasBody(s[i])
         /\ Cardinality(GateIdentities(s)) = Len(s)
         /\ n => Len(s) = Cardinality(world.listed)
<1>1. /\ "missing_jd_body" \notin Reasons(s, t, n)
      /\ "duplicate_candidate_identity" \notin Reasons(s, t, n)
      /\ "expected_count_mismatch" \notin Reasons(s, t, n)
  OBVIOUS
<1>2. \A i \in DOMAIN s : HasBody(s[i])
  BY <1>1 DEF Reasons
<1>3. Cardinality(GateIdentities(s)) = Len(s)
  BY <1>1 DEF Reasons
<1>4. n => Len(s) = Cardinality(world.listed)
  BY <1>1 DEF Reasons
<1> QED
  BY <1>2, <1>3, <1>4

\* A function with as many values as arguments takes none of them twice.
LEMMA AllDiffer ==
  ASSUME NEW n \in Nat, NEW S, NEW f \in [1..n -> S], Cardinality({f[i] : i \in 1..n}) = n
  PROVE  \A i, j \in 1..n : f[i] = f[j] => i = j
<1> DEFINE values == {f[i] : i \in 1..n}
<1>1. IsFiniteSet(1..n) /\ Cardinality(1..n) = n
  BY FS_Interval
<1>2. f \in Surjection(1..n, values)
  BY DEF Surjection
<1>3. f \in Injection(1..n, values)
  <2> HIDE DEF values
  <2>1. Cardinality(values) = n
    BY DEF values
  <2> QED
    BY <1>1, <1>2, <2>1, FS_Surjection
<1> QED
  BY <1>3 DEF Injection, IsInjective

\* One that takes none twice, of as many values as it could take, takes them all.
LEMMA AllReached ==
  ASSUME NEW n \in Nat, NEW T, IsFiniteSet(T), Cardinality(T) = n, NEW f \in [1..n -> T],
         \A i, j \in 1..n : f[i] = f[j] => i = j
  PROVE  \A t \in T : \E i \in 1..n : f[i] = t
<1>1. IsFiniteSet(1..n) /\ Cardinality(1..n) = n
  BY FS_Interval
<1>2. f \in Injection(1..n, T)
  BY DEF Injection, IsInjective
<1>3. f \in Surjection(1..n, T)
  BY <1>1, <1>2, FS_Injection
<1> QED
  BY <1>3 DEF Surjection

\* A gate that passes with the site's own count has every opening.
THEOREM GateAlwaysSound == Spec => []GateIsSound
<1>1. ASSUME IInv PROVE GateIsSound
  <2> SUFFICES ASSUME stage = "judged", verdict.passed, verdict.counted, Routed
               PROVE  \A o \in world.listed : \E i \in DOMAIN merged : o \in merged[i].refs
    BY DEF GateIsSound
  <2> DEFINE all == (UNION {world.emits[p] : p \in Pages}) \cup ToSet(world.others)
             n == Len(merged)
  <2>1. /\ \A c \in all : c.url # None /\ \E o \in world.listed : c.refs = {o}
        /\ \A c, d \in all : /\ (c.refs = d.refs) <=> (c.url = d.url)
                             /\ (c.refs = d.refs) => (c.title = d.title)
    BY Zenon DEF Routed
  <2>2. Typed /\ Late /\ merged \in Seq(CandidateType)
    BY <1>1 DEF IInv, Typed
  <2>3. merged = Processed(Loaded) /\ Loaded \in Seq(CandidateType)
    BY <2>2, LoadedTyped DEF Late
  <2>4. ToSet(Loaded) \subseteq all
    <3>1. ASSUME NEW p \in Pages PROVE ToSet(files[p].list) \subseteq world.emits[p]
      BY <1>1 DEF IInv, FileClean, Solid
    <3>2. ToSet(Loaded) = (UNION {ToSet(files[p].list) : p \in Pages}) \cup ToSet(world.others)
      BY <2>2, LoadedTyped
    <3> QED
      BY <3>1, <3>2
  <2> HIDE DEF all
  <2>5. PICK t \in BOOLEAN : Reasons(merged, t, verdict.counted) = {}
    BY <2>2 DEF Late
  <2>6. /\ \A i \in DOMAIN merged : HasBody(merged[i])
        /\ Cardinality(GateIdentities(merged)) = n
        /\ n = Cardinality(world.listed)
    BY <2>5, NoReason
  <2>7. /\ WithoutSharedUrls(merged) = merged
        /\ \A i \in DOMAIN merged : ComesWhole(merged[i], Loaded)
    <3>1. \A c, d \in ToSet(Loaded) : c.url # None /\ (c.url = d.url => c.title = d.title)
      BY <2>1, <2>4
    <3> QED
      BY <2>3, <3>1, RoutedOK
  <2>8. n \in Nat /\ DOMAIN merged = 1..n
    BY <2>2, InSequence
  <2> HIDE DEF n
  <2>9. ASSUME NEW i \in 1..n
        PROVE  \E c \in all : merged[i].url = c.url /\ merged[i].url # None /\ merged[i].refs = c.refs
    <3>1. PICK m : /\ Whole(m) /\ ToSet(m) \subseteq Proper(Loaded) /\ merged[i] = Combined(m)
                   /\ merged[i].url = m[1].url /\ merged[i].url # None
      BY <2>7, <2>8, Zenon DEF ComesWhole
    <3>2. /\ 1 \in DOMAIN m /\ \A j \in DOMAIN m : m[j] \in ToSet(m)
      BY <3>1, InSequence DEF Whole
    <3>3. \A j \in DOMAIN m : m[j] \in all
      BY <2>4, <3>1, <3>2 DEF Proper
    <3>4. HasBody(m[1]) /\ merged[i].refs = UNION {m[j].refs : j \in DOMAIN m}
      BY <2>6, <2>8, <3>1, <3>2, CombinedOK
    <3>5. ASSUME NEW j \in DOMAIN m PROVE m[j].refs = m[1].refs
      <4>1. m[j].url = m[1].url \/ None \in {m[j].url, m[1].url}
        BY <3>1, <3>2, <3>4, Zenon DEF Whole
      <4>2. m[j].url # None /\ m[1].url # None
        BY <2>1, <3>2, <3>3
      <4>3. m[j].url = m[1].url
        BY <4>1, <4>2
      <4> QED
        BY <2>1, <3>2, <3>3, <4>3
    <3>6. merged[i].refs = m[1].refs
      BY <3>2, <3>4, <3>5
    <3> QED
      BY <3>1, <3>2, <3>3, <3>6
  <2>10. \A i, j \in 1..n : merged[i].url = merged[j].url => i = j
    <3> DEFINE f == [i \in 1..n |-> <<"url", merged[i].url>>]
    <3>1. GateIdentities(merged) = {GateIdentity(merged[i]) : i \in 1..n}
      BY <2>7, <2>8 DEF GateIdentities
    <3>2. ASSUME NEW i \in 1..n PROVE GateIdentity(merged[i]) = f[i]
      BY <2>9 DEF GateIdentity
    <3>3. GateIdentities(merged) = {f[i] : i \in 1..n}
      <4> HIDE DEF f
      <4> QED
        BY <3>1, <3>2
    <3>4. f \in [1..n -> {f[i] : i \in 1..n}]
      OBVIOUS
    <3>5. \A i, j \in 1..n : f[i] = f[j] => i = j
      <4> DEFINE S == {f[i] : i \in 1..n}
      <4>1. f \in [1..n -> S] /\ Cardinality({f[i] : i \in 1..n}) = n
        <5> HIDE DEF f
        <5> QED
          BY <2>6, <3>3, <3>4
      <4> HIDE DEF f, S
      <4> QED
        BY <2>8, <4>1, AllDiffer
    <3>6. \A i, j \in 1..n : merged[i].url = merged[j].url => f[i] = f[j]
      OBVIOUS
    <3> HIDE DEF f
    <3> QED
      BY <3>5, <3>6
  <2>11. \A i \in 1..n : \E o \in world.listed : merged[i].refs = {o}
    BY <2>1, <2>9
  <2> DEFINE g == [i \in 1..n |-> CHOOSE o \in world.listed : merged[i].refs = {o}]
  <2>12. \A i \in 1..n : g[i] \in world.listed /\ merged[i].refs = {g[i]}
    BY <2>11
  <2>13. g \in [1..n -> world.listed]
    BY <2>11
  <2> HIDE DEF g
  <2>14. ASSUME NEW i \in 1..n, NEW j \in 1..n, g[i] = g[j] PROVE i = j
    <3>1. PICK c \in all : merged[i].url = c.url /\ merged[i].refs = c.refs
      BY <2>9
    <3>2. PICK d \in all : merged[j].url = d.url /\ merged[j].refs = d.refs
      BY <2>9
    <3>3. c.refs = d.refs
      BY <2>12, <2>14, <3>1, <3>2
    <3>4. c.url = d.url
      BY <2>1, <3>3
    <3> QED
      BY <2>10, <3>1, <3>2, <3>4
  <2>15. IsFiniteSet(world.listed)
    <3>1. world.listed \in SUBSET Openings
      BY <2>2, WorldOK
    <3> QED
      BY <3>1, FS_Subset
  <2>16. \A o \in world.listed : \E i \in 1..n : g[i] = o
    BY <2>6, <2>8, <2>13, <2>14, <2>15, AllReached
  <2> QED
    BY <2>8, <2>12, <2>16
<1> QED
  BY <1>1, Invariance, PTL

=============================================================================
