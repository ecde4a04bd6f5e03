------------------------ MODULE StreamAgreementProof ------------------------
(***************************************************************************)
(* Proofs about StreamAgreement, for responses of any length and in both   *)
(* modes: a response is an error as a stream exactly when it is one as a   *)
(* whole, and otherwise the client gets the same blocks, the same stop     *)
(* reason and the same count of searches.                                  *)
(*                                                                         *)
(* The invariant says that after the first events of an item the blocks    *)
(* shown are those of the items before it, as the whole response has them, *)
(* and of this item those its events have opened (Stage).                *)
(***************************************************************************)
EXTENDS StreamAgreement, StreamBridgeProof, SequenceTheorems, WellFoundedInduction

-----------------------------------------------------------------------------
(* Induction                                                                *)

\* A set of numbers that is not empty has a least one.
LEMMA Least ==
    ASSUME NEW S \in SUBSET Nat, S # {}
    PROVE  \E n \in S : \A m \in S : n <= m
<1> DEFINE R == OpToRel(<, Nat)
<1>1. IsWellFoundedOn(R, Nat)
  BY NatLessThanWellFounded
<1>2. \A x, y \in Nat : <<x, y>> \in R <=> x < y
  BY DEF OpToRel
<1> HIDE DEF R
<1>3. PICK n \in S : \A y \in S : ~ (<<y, n>> \in R)
  BY <1>1, WFMin
<1>4. ASSUME NEW m \in S
      PROVE  n <= m
  <2>1. n \in Nat /\ m \in Nat /\ ~ (<<m, n>> \in R)
    BY <1>3
  <2>2. ~ (m < n)
    BY <2>1, <1>2
  <2> QED
    BY <2>1, <2>2
<1> QED
  BY <1>4

\* Induction over the numbers up to N, for a set.
LEMMA Induction ==
    ASSUME NEW N \in Nat, NEW S, 0 \in S, \A n \in 0 .. N : n # N /\ n \in S => n + 1 \in S
    PROVE  \A n \in 0 .. N : n \in S
<1> SUFFICES ASSUME NEW n \in 0 .. N, n \notin S
             PROVE  FALSE
  OBVIOUS
<1> DEFINE T == {m \in 0 .. N : m \notin S}
<1>1. T \in SUBSET Nat /\ T # {}
  OBVIOUS
<1> HIDE DEF T
<1>2. PICK k \in T : \A m \in T : k <= m
  BY <1>1, Least
<1>3. k # 0 /\ k \in 0 .. N /\ k \notin S
  BY <1>2 DEF T
<1>4. k - 1 \in 0 .. N /\ k - 1 # N /\ k - 1 \notin T
  BY <1>2, <1>3
<1>5. k - 1 \in S
  BY <1>4 DEF T
<1>6. (k - 1) + 1 \in S
  BY <1>4, <1>5
<1> QED
  BY <1>3, <1>6

\* Steps on T up to N, and a function that takes them, one from each number to
\* the next.
StepsOn(T, N) == [T \X (1 .. N) -> T]

Takes(f, N, base, step) == f[0] = base /\ \A n \in 1 .. N : f[n] = step[<<f[n - 1], n>>]

\* There is such a function.
LEMMA Recursion ==
    ASSUME NEW N \in Nat, NEW T, NEW base \in T, NEW step \in StepsOn(T, N)
    PROVE  \E f \in [0 .. N -> T] : Takes(f, N, base, step)
<1> USE DEF StepsOn, Takes
<1> DEFINE Good(f, n) == f[0] = base /\ \A i \in 1 .. n : f[i] = step[<<f[i - 1], i>>]
           S == {n \in 0 .. N : \E f \in [0 .. N -> T] : Good(f, n)}
<1>1. 0 \in S
  <2> DEFINE g == [i \in 0 .. N |-> base]
  <2>1. g \in [0 .. N -> T] /\ Good(g, 0)
    OBVIOUS
  <2> HIDE DEF g
  <2> QED
    BY <2>1
<1>2. ASSUME NEW n \in 0 .. N, n # N, n \in S
      PROVE  n + 1 \in S
  <2>1. PICK f \in [0 .. N -> T] : Good(f, n)
    BY <1>2
  <2> DEFINE g == [f EXCEPT ![n + 1] = step[<<f[n], n + 1>>]]
  <2>2. f[n] \in T /\ n + 1 \in 1 .. N
    BY <1>2
  <2>3. step[<<f[n], n + 1>>] \in T
    BY <2>2
  <2>4. g \in [0 .. N -> T] /\ g[n + 1] = step[<<f[n], n + 1>>] /\ \A i \in 0 .. n : g[i] = f[i]
    BY <2>2, <2>3
  <2> HIDE DEF g
  <2>5. \A i \in 1 .. (n + 1) : g[i] = step[<<g[i - 1], i>>]
    BY <2>1, <2>4
  <2>6. Good(g, n + 1)
    BY <2>1, <2>4, <2>5
  <2> QED
    BY <2>2, <2>4, <2>6
<1> HIDE DEF S
<1>3. \A n \in 0 .. N : n \in S
  BY <1>1, <1>2, Induction
<1>4. N \in S
  BY <1>3
<1> QED
  BY <1>4 DEF S

-----------------------------------------------------------------------------
(* Loops over sequences                                                     *)

\* Only, by its rounds.
OnlyRounds(f, s, K, T) ==
    /\ f \in [0 .. Len(s) -> Seq(T)]
    /\ f[0] = << >>
    /\ \A n \in 1 .. Len(s) : f[n] = IF s[n] \in K THEN Append(f[n - 1], s[n]) ELSE f[n - 1]

\* There is one function that takes these rounds.
LEMMA OnlyLoop ==
    ASSUME NEW T, NEW s \in Seq(T), NEW K
    PROVE  \E f : OnlyRounds(f, s, K, T) /\ Only(s, K) = f[Len(s)]
<1> DEFINE N == Len(s)
           Q == Seq(T)
           Is(g) == g = [k \in 0 .. N |-> IF k = 0 THEN << >>
                                          ELSE IF s[k] \in K THEN Append(g[k - 1], s[k])
                                          ELSE g[k - 1]]
           step == [x \in Q \X (1 .. N) |-> IF s[x[2]] \in K THEN Append(x[1], s[x[2]]) ELSE x[1]]
<1>1. N \in Nat /\ << >> \in Q /\ \A k \in 1 .. N : s[k] \in T
  OBVIOUS
<1>2. \A q \in Q, k \in 1 .. N : Append(q, s[k]) \in Q
  BY <1>1
<1>3. Only(s, K) = (CHOOSE g : Is(g))[N]
  BY DEF Only
<1> HIDE DEF Q
<1>4. step \in StepsOn(Q, N)
  BY <1>1, <1>2 DEF StepsOn
<1>5. \A q \in Q, k \in 1 .. N : step[<<q, k>>] = IF s[k] \in K THEN Append(q, s[k]) ELSE q
  OBVIOUS
<1> HIDE DEF step, N
<1>6. PICK f \in [0 .. N -> Q] : Takes(f, N, << >>, step)
  BY <1>1, <1>4, Recursion
<1>7. f[0] = << >> /\ \A k \in 1 .. N : f[k] = IF s[k] \in K THEN Append(f[k - 1], s[k]) ELSE f[k - 1]
  <2>1. \A k \in 1 .. N : f[k - 1] \in Q
    BY <1>1
  <2> QED
    BY <1>5, <1>6, <2>1 DEF Takes
<1> DEFINE round(g, k) == IF k = 0 THEN << >> ELSE IF s[k] \in K THEN Append(g[k - 1], s[k]) ELSE g[k - 1]
<1>13. \A k \in 0 .. N : k = 0 \/ k \in 1 .. N
  BY <1>1
<1>8. Is(f)
  <2>1. \A k \in 0 .. N : f[k] = round(f, k)
    BY <1>7, <1>13
  <2>2. f = [k \in 0 .. N |-> f[k]]
    OBVIOUS
  <2> QED
    BY <2>1, <2>2
<1> DEFINE g == CHOOSE g : Is(g)
<1>9. Is(g)
  BY <1>8
<1> HIDE DEF g
<1>10. g[0] = << >> /\ \A k \in 1 .. N : g[k] = IF s[k] \in K THEN Append(g[k - 1], s[k]) ELSE g[k - 1]
  <2>1. \A k \in 0 .. N : g[k] = round(g, k)
    BY <1>9
  <2>2. 0 \in 0 .. N /\ \A k \in 1 .. N : k \in 0 .. N /\ k # 0
    BY <1>1
  <2> QED
    BY <2>1, <2>2
<1>11. \A k \in 0 .. N : g[k] = f[k]
  <2> DEFINE S == {k \in 0 .. N : g[k] = f[k]}
  <2>1. 0 \in S
    BY <1>1, <1>7, <1>10
  <2>2. ASSUME NEW k \in 0 .. N, k # N, k \in S
        PROVE  k + 1 \in S
    <3>1. k + 1 \in 1 .. N /\ (k + 1) - 1 = k
      BY <1>1, <2>2
    <3> QED
      BY <1>7, <1>10, <2>2, <3>1
  <2> HIDE DEF S
  <2>3. \A k \in 0 .. N : k \in S
    BY <1>1, <2>1, <2>2, Induction
  <2> QED
    BY <2>3 DEF S
<1>12. Only(s, K) = f[N]
  <2>1. N \in 0 .. N /\ Only(s, K) = g[N]
    BY <1>1, <1>3 DEF g
  <2> QED
    BY <1>11, <2>1
<1> QED
  BY <1>6, <1>7, <1>12 DEF OnlyRounds, N, Q

\* Of a sequence with one element more.
LEMMA OnlyAppend ==
    ASSUME NEW T, NEW s \in Seq(T), NEW x \in T, NEW K
    PROVE  Only(Append(s, x), K) = IF x \in K THEN Append(Only(s, K), x) ELSE Only(s, K)
<1> DEFINE t == Append(s, x)
           N == Len(s)
<1>1. /\ t \in Seq(T) /\ N \in Nat /\ Len(t) = N + 1 /\ t[N + 1] = x
      /\ \A k \in 1 .. N : t[k] = s[k]
  OBVIOUS
<1> HIDE DEF t
<1>2. PICK f : OnlyRounds(f, s, K, T) /\ Only(s, K) = f[N]
  BY OnlyLoop
<1>3. PICK g : OnlyRounds(g, t, K, T) /\ Only(t, K) = g[N + 1]
  BY <1>1, OnlyLoop
<1> HIDE DEF N
<1> DEFINE S == {k \in 0 .. N : f[k] = g[k]}
<1>4. 0 \in S
  BY <1>1, <1>2, <1>3 DEF OnlyRounds
<1>5. ASSUME NEW k \in 0 .. N, k # N, k \in S
      PROVE  k + 1 \in S
  <2>1. k + 1 \in 1 .. N /\ k + 1 \in 1 .. (N + 1) /\ (k + 1) - 1 = k
    BY <1>1, <1>5
  <2>2. f[k + 1] = IF s[k + 1] \in K THEN Append(f[k], s[k + 1]) ELSE f[k]
    BY <1>2, <2>1 DEF OnlyRounds, N
  <2>3. g[k + 1] = IF t[k + 1] \in K THEN Append(g[k], t[k + 1]) ELSE g[k]
    BY <1>1, <1>3, <2>1 DEF OnlyRounds
  <2> QED
    BY <1>1, <1>5, <2>1, <2>2, <2>3
<1> HIDE DEF S
<1>6. N \in S
  <2>1. \A k \in 0 .. N : k \in S
    BY <1>1, <1>4, <1>5, Induction
  <2> QED
    BY <1>1, <2>1
<1>7. N + 1 \in 1 .. (N + 1) /\ (N + 1) - 1 = N
  BY <1>1
<1>8. g[N + 1] = IF t[N + 1] \in K THEN Append(g[N], t[N + 1]) ELSE g[N]
  BY <1>1, <1>3, <1>7 DEF OnlyRounds
<1> QED
  BY <1>1, <1>2, <1>3, <1>6, <1>8 DEF S, t

\* Of nothing, and the type of the result.
LEMMA OnlyTyped ==
    ASSUME NEW T, NEW s \in Seq(T), NEW K
    PROVE  Only(s, K) \in Seq(T) /\ (s = << >> => Only(s, K) = << >>)
<1>1. PICK f : OnlyRounds(f, s, K, T) /\ Only(s, K) = f[Len(s)]
  BY OnlyLoop
<1>2. Len(s) \in Nat /\ (s = << >> => Len(s) = 0)
  OBVIOUS
<1> QED
  BY <1>1, <1>2 DEF OnlyRounds

\* The empty sequence is one over any set.
LEMMA EmptyTyped ==
    ASSUME NEW T
    PROVE  << >> \in Seq(T)
  OBVIOUS

\* A property of all sequences over T that nothing has and that one element more
\* keeps, as the set of those that have it.
LEMMA SequenceInduction ==
    ASSUME NEW T, NEW P, << >> \in P, \A s \in Seq(T), x \in T : s \in P => Append(s, x) \in P
    PROVE  \A s \in Seq(T) : s \in P
<1> SUFFICES ASSUME NEW s \in Seq(T)
             PROVE  s \in P
  OBVIOUS
<1> DEFINE N == Len(s)
           first == [n \in 0 .. N |-> SubSeq(s, 1, n)]
           S == {n \in 0 .. N : first[n] \in P}
<1>1. N \in Nat /\ first[0] = << >> /\ first[N] = s
  OBVIOUS
<1>2. \A n \in 1 .. N : first[n - 1] \in Seq(T) /\ s[n] \in T /\ first[n] = Append(first[n - 1], s[n])
  <2> TAKE n \in 1 .. N
  <2>1. n - 1 \in Nat /\ n - 1 < Len(s) /\ s[n] \in T /\ (n - 1) + 1 = n
    OBVIOUS
  <2>2. SubSeq(s, 1, n - 1) \in Seq(T) /\ SubSeq(s, 1, (n - 1) + 1) = Append(SubSeq(s, 1, n - 1), s[n])
    BY <2>1
  <2>3. n - 1 \in 0 .. N /\ n \in 0 .. N
    OBVIOUS
  <2> QED
    BY <2>1, <2>2, <2>3
<1> HIDE DEF N, first
<1>3. 0 \in S
  BY <1>1
<1>4. ASSUME NEW n \in 0 .. N, n # N, n \in S
      PROVE  n + 1 \in S
  <2>1. n + 1 \in 1 .. N /\ n + 1 \in 0 .. N /\ (n + 1) - 1 = n
    BY <1>1, <1>4
  <2> QED
    BY <1>2, <1>4, <2>1
<1> HIDE DEF S
<1>5. \A n \in 0 .. N : n \in S
  BY <1>1, <1>3, <1>4, Induction
<1> QED
  BY <1>1, <1>5 DEF S

\* Of two sequences joined.
LEMMA OnlyConcat ==
    ASSUME NEW T, NEW s \in Seq(T), NEW u \in Seq(T), NEW K
    PROVE  Only(s \o u, K) = Only(s, K) \o Only(u, K)
<1> DEFINE P == {t \in Seq(T) : Only(s \o t, K) = Only(s, K) \o Only(t, K)}
<1>1. << >> \in P
  <2>1. Only(s, K) \in Seq(T) /\ Only(<< >>, K) = << >> /\ << >> \in Seq(T)
    BY EmptyTyped, OnlyTyped
  <2>2. s \o << >> = s /\ Only(s, K) \o << >> = Only(s, K)
    BY <2>1
  <2> QED
    BY <2>1, <2>2
<1>2. ASSUME NEW t \in Seq(T), NEW x \in T, t \in P
      PROVE  Append(t, x) \in P
  <2>1. /\ s \o Append(t, x) = Append(s \o t, x) /\ s \o t \in Seq(T) /\ Append(t, x) \in Seq(T)
    OBVIOUS
  <2>2. Only(s, K) \in Seq(T) /\ Only(t, K) \in Seq(T)
    BY OnlyTyped
  <2>3. Only(Append(t, x), K) = IF x \in K THEN Append(Only(t, K), x) ELSE Only(t, K)
    BY OnlyAppend
  <2>4. Only(Append(s \o t, x), K) = IF x \in K THEN Append(Only(s \o t, K), x) ELSE Only(s \o t, K)
    BY <2>1, OnlyAppend
  <2>5. Only(s, K) \o Append(Only(t, K), x) = Append(Only(s, K) \o Only(t, K), x)
    BY <2>2
  <2> QED
    BY <1>2, <2>1, <2>3, <2>4, <2>5
<1> HIDE DEF P
<1>3. u \in P
  BY <1>1, <1>2, SequenceInduction
<1> QED
  BY <1>3 DEF P

\* Of a sequence whose elements are all in the set, or all outside.
LEMMA OnlyAll ==
    ASSUME NEW T, NEW K, T \subseteq K, NEW u \in Seq(T)
    PROVE  Only(u, K) = u
<1> DEFINE P == {t \in Seq(T) : Only(t, K) = t}
<1>1. << >> \in P
  BY EmptyTyped, OnlyTyped
<1>2. ASSUME NEW t \in Seq(T), NEW x \in T, t \in P
      PROVE  Append(t, x) \in P
  BY <1>2, OnlyAppend
<1> HIDE DEF P
<1>3. u \in P
  BY <1>1, <1>2, SequenceInduction
<1> QED
  BY <1>3 DEF P

\* Of a sequence over a set that has nothing of K, nothing is in K.
LEMMA OnlyNone ==
    ASSUME NEW T, NEW K, T \cap K = {}, NEW u \in Seq(T)
    PROVE  Only(u, K) = << >>
<1> DEFINE P == {t \in Seq(T) : Only(t, K) = << >>}
<1>1. << >> \in P
  BY EmptyTyped, OnlyTyped
<1>2. ASSUME NEW t \in Seq(T), NEW x \in T, t \in P
      PROVE  Append(t, x) \in P
  <2>1. x \notin K
    OBVIOUS
  <2> QED
    BY <1>2, <2>1, OnlyAppend
<1> HIDE DEF P
<1>3. u \in P
  BY <1>1, <1>2, SequenceInduction
<1> QED
  BY <1>3 DEF P

\* Joining sequences.
LEMMA JoinOnes ==
    \A x, y : <<x>> \o << >> = <<x>> /\ << >> \o <<x>> = <<x>> /\ <<x>> \o <<y>> = <<x, y>>
<1> TAKE x, y
<1> DEFINE T == {x, y}
           u == <<x>> \o <<y>>
           v == <<x, y>>
<1>1. <<x>> \in Seq(T) /\ <<y>> \in Seq(T) /\ << >> \in Seq(T) /\ v \in Seq(T)
      /\ Len(v) = 2 /\ v[1] = x /\ v[2] = y /\ Len(<<x>>) = 1 /\ Len(<<y>>) = 1
      /\ <<x>>[1] = x /\ <<y>>[1] = y
  OBVIOUS
<1>2. \A s \in Seq(T) : s \o << >> = s /\ << >> \o s = s
  OBVIOUS
<1>3. u \in Seq(T) /\ Len(u) = 2 /\ u[1] = x /\ u[2] = y
  BY <1>1
<1> HIDE DEF u, v, T
<1>4. u = v
  BY <1>1, <1>3
<1> QED
  BY <1>1, <1>2, <1>4 DEF u, v, T

\* OnlyConcat, of sequences of blocks.
LEMMA OnlyOfBoth ==
    \A K : \A s, u \in Seq(BlockTypes) :
        Only(s \o u, K) = Only(s, K) \o Only(u, K)
<1> DEFINE T == BlockTypes
<1> HIDE DEF T
<1> SUFFICES ASSUME NEW s \in Seq(T), NEW u \in Seq(T), NEW K
             PROVE  Only(s \o u, K) = Only(s, K) \o Only(u, K)
  BY DEF T
<1> QED
  BY OnlyConcat

\* The same facts, of sequences of blocks.
LEMMA JoinBlocks ==
    \A s, u, v \in Seq(BlockTypes) : /\ s \o u \in Seq(BlockTypes) /\ (s \o u) \o v = s \o (u \o v)
                                    /\ s \o << >> = s /\ << >> \o s = s
<1> DEFINE T == BlockTypes
<1> HIDE DEF T
<1> SUFFICES ASSUME NEW s \in Seq(T), NEW u \in Seq(T), NEW v \in Seq(T)
             PROVE  /\ s \o u \in Seq(T) /\ (s \o u) \o v = s \o (u \o v)
                    /\ s \o << >> = s /\ << >> \o s = s
  BY DEF T
<1>1. (s \o u) \o v = s \o (u \o v)
  BY ConcatAssociative
<1> QED
  BY <1>1

\* Joining, without the symbol: the provers reason faster about a predicate.
Joins(t, s, u) == t = s \o u

\* What was shown before an item, of the item, and next.
LEMMA ShownSoFar ==
    ASSUME NEW before \in Seq(BlockTypes), NEW begun \in Seq(BlockTypes), NEW new \in Seq(BlockTypes),
           NEW now, NEW shown, NEW next,
           Joins(now, begun, new), Joins(shown, before, begun), Joins(next, shown, new)
    PROVE  Joins(next, before, now)
<1>1. (before \o begun) \o new = before \o (begun \o new)
  BY JoinBlocks
<1> QED
  BY <1>1 DEF Joins

-----------------------------------------------------------------------------
(* What an item is converted to                                             *)

\* Whether the converters accept an item, and the blocks they make of it.
Okay(item) == Message!convert(item).ok
Made(item) == Message!convert(item).blocks

Texts(n) == [k \in 1 .. n |-> "text"]

KnownParts(item) == Message!known(item.parts)

\* The parts of a message that open a block when it is streamed.
ShownParts(item) == {p \in DOMAIN item.parts : item.parts[p] # "other"}

\* The parts of a message that become text blocks, counted.
LEMMA KnownIsFinite ==
    ASSUME NEW item \in Message!OutputItem
    PROVE  /\ Len(item.parts) \in Nat /\ DOMAIN item.parts = 1 .. Len(item.parts)
           /\ KnownParts(item) \in SUBSET (1 .. Len(item.parts))
           /\ IsFiniteSet(KnownParts(item)) /\ Cardinality(KnownParts(item)) \in Nat
           /\ Message!textBlocks(item.parts) = Texts(Cardinality(KnownParts(item)))
<1>1. Len(item.parts) \in Nat /\ DOMAIN item.parts = 1 .. Len(item.parts)
  BY DEF Message!OutputItem
<1>2. IsFiniteSet(1 .. Len(item.parts)) /\ KnownParts(item) \in SUBSET (1 .. Len(item.parts))
  BY <1>1, FS_Interval DEF Message!known, KnownParts
<1>3. IsFiniteSet(KnownParts(item)) /\ Cardinality(KnownParts(item)) \in Nat
  BY <1>2, FS_Subset, FS_CardinalityType
<1>4. Message!Cardinality(KnownParts(item)) = Cardinality(KnownParts(item))
  BY DEF Message!Cardinality, Cardinality
<1>5. Message!textBlocks(item.parts) = Texts(Cardinality(KnownParts(item)))
  BY <1>4 DEF Message!textBlocks, Texts, KnownParts
<1> QED
  BY <1>1, <1>2, <1>3, <1>5

\* What the converters make of an item, one lemma for each sort of items.
LEMMA ConvertsMessage ==
    ASSUME NEW item \in Message!OutputItem, item.type = "message"
    PROVE  /\ Message!convert(item) = Message!openAIMessageToBlocks(item)
           /\ Okay(item) <=> \/ item.commentary
                             \/ /\ item.body # "malformed"
                                /\ Strict => KnownParts(item) = DOMAIN item.parts
           /\ Okay(item) => Made(item) = IF item.commentary THEN << >>
                                         ELSE Texts(Cardinality(KnownParts(item)))
           /\ ~ Okay(item) => Made(item) = << >>
<1>1. Message!convert(item) = Message!openAIMessageToBlocks(item)
  BY DEF Message!convert, Message!PlainCalls, Message!ResultCalls, Message!ToolOutputs
<1>2. Message!textBlocks(item.parts) = Texts(Cardinality(KnownParts(item)))
  BY KnownIsFinite
<1>3. item.commentary \in BOOLEAN /\ Strict \in BOOLEAN
  BY BridgeAssumption DEF Message!OutputItem
<1>4. Message!known(item.parts) = KnownParts(item)
  BY DEF KnownParts
<1>5. CASE item.commentary
  BY <1>1, <1>5 DEF Okay, Made, Message!openAIMessageToBlocks, Message!Blocks
<1>6. CASE ~ item.commentary /\ (item.body = "malformed" \/ (Strict /\ KnownParts(item) # DOMAIN item.parts))
  BY <1>1, <1>4, <1>6 DEF Okay, Made, Message!openAIMessageToBlocks, Message!Error
<1>7. CASE ~ item.commentary /\ item.body # "malformed" /\ (Strict => KnownParts(item) = DOMAIN item.parts)
  <2>1. Message!openAIMessageToBlocks(item) = Message!Blocks(Texts(Cardinality(KnownParts(item))))
    BY <1>2, <1>4, <1>7 DEF Message!openAIMessageToBlocks
  <2> QED
    BY <1>1, <1>7, <2>1 DEF Okay, Made, Message!Blocks
<1> QED
  BY <1>1, <1>3, <1>5, <1>6, <1>7

\* The call converters: one tool_use block, or an error.
LEMMA ConvertsCall ==
    ASSUME NEW item \in Message!OutputItem, item.type \in Message!PlainCalls
    PROVE  /\ Okay(item) <=> item.body # "malformed"
           /\ Okay(item) <=> Message!toolCallToBlock(item).ok
           /\ Made(item) = IF Okay(item) THEN <<"tool_use">> ELSE << >>
<1>1. Message!convert(item) = Message!toolCallToBlock(item)
  BY DEF Message!convert, Message!PlainCalls, Message!ResultCalls, Message!ToolOutputs
<1> QED
  BY <1>1 DEF Okay, Made, Message!toolCallToBlock, Message!Blocks, Message!Error

\* The converters of calls that carry their result.
LEMMA ConvertsResultCall ==
    ASSUME NEW item \in Message!OutputItem, item.type \in Message!ResultCalls
    PROVE  LET result == Message!callResultToBlock(item)
           IN  /\ Okay(item) <=> Message!toolCallToBlock(item).ok /\ result.ok
               /\ Message!toolCallToBlock(item).ok <=> item.body # "malformed"
               /\ Made(item) = IF Okay(item) THEN <<"tool_use">> \o result.blocks ELSE << >>
               /\ result.blocks \in {<< >>, <<"tool_result">>}
<1>1. Message!convert(item) = Message!callToBlocks(item)
  BY DEF Message!convert, Message!PlainCalls, Message!ResultCalls, Message!ToolOutputs
<1>2. item.result \in {"none", "some", "malformed"} /\ Strict \in BOOLEAN
  BY BridgeAssumption DEF Message!OutputItem, Message!Presence
<1>3. Message!callResultToBlock(item).blocks \in {<< >>, <<"tool_result">>}
  BY <1>2 DEF Message!callResultToBlock, Message!Blocks, Message!Error, Message!ErrorIfStrict
<1>4. Message!toolCallToBlock(item) = IF item.body = "malformed" THEN [ok |-> FALSE, blocks |-> << >>]
                                      ELSE [ok |-> TRUE, blocks |-> <<"tool_use">>]
  BY DEF Message!toolCallToBlock, Message!Blocks, Message!Error
<1>5. Message!callResultToBlock(item).ok \in BOOLEAN
  BY <1>2 DEF Message!callResultToBlock, Message!Blocks, Message!Error, Message!ErrorIfStrict
<1> QED
  BY <1>1, <1>3, <1>4, <1>5
     DEF Okay, Made, Message!callToBlocks, Message!Both, Message!Blocks, Message!Error

\* The converters of tool outputs.
LEMMA ConvertsOutput ==
    ASSUME NEW item \in Message!OutputItem, item.type \in Message!ToolOutputs
    PROVE  /\ Message!convert(item) = Message!toolOutputToBlock(item)
           /\ Made(item) \in {<< >>, <<item.type>>}
<1>1. item.body \in {"none", "some", "malformed"} /\ Strict \in BOOLEAN
  BY BridgeAssumption DEF Message!OutputItem, Message!Presence
<1>2. Message!convert(item) = Message!toolOutputToBlock(item)
  BY DEF Message!convert, Message!PlainCalls, Message!ResultCalls, Message!ToolOutputs
<1> QED
  BY <1>1, <1>2 DEF Made, Message!toolOutputToBlock, Message!Blocks, Message!Error,
         Message!ErrorIfStrict

\* The reasoning converter; outside strict mode the whole conversion skips what it
\* cannot read.
LEMMA ConvertsReasoning ==
    ASSUME NEW item \in Message!OutputItem, item.type = "reasoning"
    PROVE  LET thinking == Message!openAIReasoningToThinkingBlock(item)
           IN  /\ thinking.ok <=> item.body # "malformed"
               /\ thinking.blocks = IF item.body = "some" THEN <<"thinking">> ELSE << >>
               /\ Okay(item) <=> item.body # "malformed" \/ ~ Strict
               /\ Made(item) = thinking.blocks
<1>1. item.body \in {"none", "some", "malformed"} /\ Strict \in BOOLEAN
  BY BridgeAssumption DEF Message!OutputItem, Message!Presence
<1>2. CASE item.body # "malformed"
  <2>1. Message!openAIReasoningToThinkingBlock(item)
           = [ok |-> TRUE, blocks |-> IF item.body = "some" THEN <<"thinking">> ELSE << >>]
    BY <1>1, <1>2 DEF Message!openAIReasoningToThinkingBlock, Message!Blocks
  <2>2. Message!convert(item) = Message!openAIReasoningToThinkingBlock(item)
    BY <2>1 DEF Message!convert, Message!PlainCalls, Message!ResultCalls, Message!ToolOutputs
  <2> QED
    BY <1>2, <2>1, <2>2 DEF Okay, Made
<1>3. CASE item.body = "malformed"
  <2>1. Message!openAIReasoningToThinkingBlock(item) = [ok |-> FALSE, blocks |-> << >>]
    BY <1>3 DEF Message!openAIReasoningToThinkingBlock, Message!Error
  <2>2. Message!convert(item) = Message!ErrorIfStrict(Message!Blocks(<< >>))
    BY <2>1 DEF Message!convert, Message!PlainCalls, Message!ResultCalls, Message!ToolOutputs
  <2>3. (Okay(item) <=> ~ Strict) /\ Made(item) = << >>
    BY <1>1, <2>2 DEF Okay, Made, Message!Blocks, Message!Error, Message!ErrorIfStrict
  <2> QED
    BY <1>3, <2>1, <2>3
<1> QED
  BY <1>2, <1>3

\* The converters of the other items.
LEMMA ConvertsOther ==
    ASSUME NEW item \in Message!OutputItem
    PROVE  /\ item.type = "web_search_call" =>
                 Okay(item) /\ Made(item) = <<"server_tool_use", "web_search_tool_result">>
           /\ item.type = "compaction" =>
                 /\ Okay(item) <=> item.body # "none" \/ ~ Strict
                 /\ Made(item) = IF item.body = "none" THEN << >> ELSE <<"compaction">>
           /\ item.type \in {"image_generation_call", "unrecognized"} =>
                 Okay(item) /\ Made(item) = <<item.type>>
           /\ item.type = "blank" =>
                 /\ Okay(item) <=> ~ Strict
                 /\ Made(item) = IF Strict THEN << >> ELSE <<"text">>
<1> USE DEF Okay, Made, Message!PlainCalls, Message!ResultCalls, Message!ToolOutputs,
            Message!Blocks, Message!Error, Message!ErrorIfStrict
<1>1. CASE item.type = "web_search_call"
  BY <1>1 DEF Message!convert, Message!openAIWebSearchToBlocks
<1>2. CASE item.type = "compaction"
  BY <1>2, BridgeAssumption DEF Message!convert, Message!openAICompactionToBlock
<1>3. CASE item.type \in {"image_generation_call", "unrecognized"}
  BY <1>3 DEF Message!convert, Message!openAIImageGenerationToBlock,
         Message!openAIOpaqueOutputToBlock
<1>4. CASE item.type = "blank"
  BY <1>4, BridgeAssumption DEF Message!convert, Message!openAIOpaqueOutputToBlock
<1>5. CASE item.type \notin {"web_search_call", "compaction", "image_generation_call",
                            "unrecognized", "blank"}
  BY <1>5
<1> QED
  BY <1>1, <1>2, <1>3, <1>4, <1>5

\* The blocks of an item: thinking for reasoning and anything else for the rest.
LEMMA MadeTyped ==
    ASSUME NEW item \in Message!OutputItem
    PROVE  /\ item.type = "reasoning" => Made(item) \in Seq({"thinking"})
           /\ item.type # "reasoning" => Made(item) \in Seq(BlockTypes \ {"thinking"})
<1> DEFINE others == BlockTypes \ {"thinking"}
           Others == Seq(others)
<1>1. /\ "text" \in others /\ "tool_use" \in others /\ "tool_result" \in others
      /\ "server_tool_use" \in others /\ "web_search_tool_result" \in others
      /\ "compaction" \in others /\ "tool_search_output" \in others
      /\ "computer_call_output" \in others /\ "image_generation_call" \in others
      /\ "unrecognized" \in others
  BY DEF BlockTypes, Standalone
<1>2. item.type \in Message!Types
  BY DEF Message!OutputItem
<1> HIDE DEF others
<1>0. << >> \in Others /\ << >> \in Seq({"thinking"}) /\ <<"thinking">> \in Seq({"thinking"})
      /\ (\A x \in others : <<x>> \in Others) /\ \A x, y \in others : <<x, y>> \in Others
  OBVIOUS
<1>9. <<"tool_use">> \o << >> = <<"tool_use">> /\ <<"tool_use">> \o <<"tool_result">> = <<"tool_use", "tool_result">>
  BY JoinOnes
<1>3. CASE item.type = "message"
  <2>1. Texts(Cardinality(KnownParts(item))) \in Others
    BY <1>1, KnownIsFinite DEF Texts
  <2> HIDE DEF Others
  <2>2. Made(item) \in Others
    BY <1>0, <1>3, <2>1, ConvertsMessage
  <2> QED
    BY <1>3, <2>2 DEF Others, others
<1> HIDE DEF Others
<1>4. CASE item.type \in Message!PlainCalls
  <2>1. Made(item) \in Others
    BY <1>0, <1>1, <1>4, ConvertsCall
  <2> QED
    BY <1>4, <2>1 DEF Message!PlainCalls, Others, others
<1>5. CASE item.type \in Message!ResultCalls
  <2>1. Made(item) \in {<< >>, <<"tool_use">>, <<"tool_use", "tool_result">>}
    BY <1>5, <1>9, ConvertsResultCall
  <2>2. Made(item) \in Others
    BY <1>0, <1>1, <2>1
  <2> QED
    BY <1>5, <2>2 DEF Message!ResultCalls, Others, others
<1>6. CASE item.type \in Message!ToolOutputs
  <2>1. item.type \in others /\ item.type # "reasoning"
    BY <1>1, <1>6 DEF Message!ToolOutputs
  <2> QED
    BY <1>0, <1>6, <2>1, ConvertsOutput DEF Others, others
<1>7. CASE item.type = "reasoning"
  BY <1>0, <1>7, ConvertsReasoning
<1>8. CASE item.type \in {"web_search_call", "compaction", "image_generation_call",
                         "unrecognized", "blank"}
  <2>1. Made(item) \in Others
    BY <1>0, <1>1, <1>8, ConvertsOther
  <2> QED
    BY <1>8, <2>1 DEF Others, others
<1> QED
  BY <1>2, <1>3, <1>4, <1>5, <1>6, <1>7, <1>8 DEF Message!Types, Message!OtherTypes

-----------------------------------------------------------------------------
(* The message of a whole response                                          *)

IsResponse(r) == r \in Seq(Message!OutputItem)

\* Message!contentOf, by its rounds.
ContentRounds(f, r, types) ==
    /\ f \in [0 .. Len(r) -> Seq(BlockTypes)]
    /\ f[0] = << >>
    /\ \A n \in 1 .. Len(r) : f[n] = IF r[n].type \in types THEN f[n - 1] \o Made(r[n]) ELSE f[n - 1]

\* The blocks of an item are blocks.
LEMMA MadeBlocks ==
    ASSUME NEW item \in Message!OutputItem
    PROVE  Made(item) \in Seq(BlockTypes)
<1>1. "thinking" \in BlockTypes
  BY DEF BlockTypes
<1>2. \A s \in Seq({"thinking"}) : s \in Seq(BlockTypes)
  BY <1>1
<1>3. \A s \in Seq(BlockTypes \ {"thinking"}) : s \in Seq(BlockTypes)
  OBVIOUS
<1> QED
  BY <1>2, <1>3, MadeTyped

\* There is one function that takes these rounds.
LEMMA ContentLoop ==
    ASSUME NEW r, IsResponse(r), NEW types
    PROVE  \E f : ContentRounds(f, r, types) /\ Message!contentOf(r, types) = f[Len(r)]
<1> DEFINE N == Len(r)
           Q == Seq(BlockTypes)
           Is(g) == g = [k \in 0 .. N |-> IF k = 0 THEN << >>
                                          ELSE IF r[k].type \in types THEN g[k - 1] \o Made(r[k])
                                          ELSE g[k - 1]]
           step == [x \in Q \X (1 .. N) |-> IF r[x[2]].type \in types THEN x[1] \o Made(r[x[2]]) ELSE x[1]]
<1>1. N \in Nat /\ << >> \in Q /\ \A k \in 1 .. N : r[k] \in Message!OutputItem
  BY DEF IsResponse
<1>2. \A q \in Q, k \in 1 .. N : q \o Made(r[k]) \in Q
  <2> TAKE q \in Q, k \in 1 .. N
  <2>1. Made(r[k]) \in Q
    BY <1>1, MadeBlocks
  <2> QED
    BY <2>1
<1>3. Message!contentOf(r, types) = (CHOOSE g : Is(g))[N]
  BY DEF Message!contentOf, Made
<1> HIDE DEF Q
<1>4. step \in StepsOn(Q, N)
  BY <1>1, <1>2 DEF StepsOn
<1>5. \A q \in Q, k \in 1 .. N : step[<<q, k>>] = IF r[k].type \in types THEN q \o Made(r[k]) ELSE q
  OBVIOUS
<1> HIDE DEF step, N
<1>6. PICK f \in [0 .. N -> Q] : Takes(f, N, << >>, step)
  BY <1>1, <1>4, Recursion
<1>7. f[0] = << >> /\ \A k \in 1 .. N : f[k] = IF r[k].type \in types THEN f[k - 1] \o Made(r[k]) ELSE f[k - 1]
  <2>1. \A k \in 1 .. N : f[k - 1] \in Q
    BY <1>1
  <2> QED
    BY <1>5, <1>6, <2>1 DEF Takes
<1> DEFINE round(g, k) == IF k = 0 THEN << >> ELSE IF r[k].type \in types THEN g[k - 1] \o Made(r[k]) ELSE g[k - 1]
<1>8. \A k \in 0 .. N : k = 0 \/ k \in 1 .. N
  BY <1>1
<1>9. Is(f)
  <2>1. \A k \in 0 .. N : f[k] = round(f, k)
    BY <1>7, <1>8
  <2>2. f = [k \in 0 .. N |-> f[k]]
    OBVIOUS
  <2> QED
    BY <2>1, <2>2
<1> DEFINE g == CHOOSE g : Is(g)
<1>10. Is(g)
  BY <1>9
<1> HIDE DEF g
<1>11. g[0] = << >> /\ \A k \in 1 .. N : g[k] = IF r[k].type \in types THEN g[k - 1] \o Made(r[k]) ELSE g[k - 1]
  <2>1. \A k \in 0 .. N : g[k] = round(g, k)
    BY <1>10
  <2>2. 0 \in 0 .. N /\ \A k \in 1 .. N : k \in 0 .. N /\ k # 0
    BY <1>1
  <2> QED
    BY <2>1, <2>2
<1> DEFINE S == {k \in 0 .. N : g[k] = f[k]}
<1>12. 0 \in S
  BY <1>1, <1>7, <1>11
<1>13. ASSUME NEW k \in 0 .. N, k # N, k \in S
       PROVE  k + 1 \in S
  <2>1. k + 1 \in 1 .. N /\ (k + 1) - 1 = k
    BY <1>1, <1>13
  <2> QED
    BY <1>7, <1>11, <1>13, <2>1
<1> HIDE DEF S
<1>14. \A k \in 0 .. N : k \in S
  BY <1>1, <1>12, <1>13, Induction
<1>15. Message!contentOf(r, types) = f[N]
  <2>1. N \in 0 .. N /\ Message!contentOf(r, types) = g[N]
    BY <1>1, <1>3 DEF g
  <2> QED
    BY <1>14, <2>1 DEF S
<1> QED
  BY <1>6, <1>7, <1>15 DEF ContentRounds, N, Q

\* The blocks of the first items of a response, for every number of items.
Whole(r) == CHOOSE f : ContentRounds(f, r, Message!Types)

\* Whole goes through the items one by one.
LEMMA WholeRounds ==
    ASSUME NEW r, IsResponse(r)
    PROVE  /\ Len(r) \in Nat
           /\ \A n \in 1 .. Len(r) : r[n] \in Message!OutputItem
           /\ Whole(r) \in [0 .. Len(r) -> Seq(BlockTypes)]
           /\ Whole(r)[0] = << >>
           /\ \A n \in 1 .. Len(r) : Whole(r)[n] = Whole(r)[n - 1] \o Made(r[n])
<1>1. ContentRounds(Whole(r), r, Message!Types)
  <2>1. \E f : ContentRounds(f, r, Message!Types)
    BY ContentLoop
  <2> QED
    BY <2>1 DEF Whole
<1>2. Len(r) \in Nat /\ \A n \in 1 .. Len(r) : r[n] \in Message!OutputItem
  BY DEF IsResponse
<1>3. \A n \in 1 .. Len(r) : r[n].type \in Message!Types
  BY <1>2 DEF Message!OutputItem
<1> QED
  BY <1>1, <1>2, <1>3 DEF ContentRounds

\* The thinking blocks of the first n items are those of the reasoning items, the
\* others those of the other items.
LEMMA WholeSplit ==
    ASSUME NEW r, IsResponse(r), NEW f, NEW g, NEW types,
           ContentRounds(f, r, {"reasoning"}), ContentRounds(g, r, types),
           \A n \in 1 .. Len(r) : r[n].type \in types <=> r[n].type # "reasoning"
    PROVE  \A n \in 0 .. Len(r) : /\ f[n] \in Seq({"thinking"}) /\ f[n] = Thinking(Whole(r)[n])
                                  /\ g[n] \in Seq(BlockTypes \ {"thinking"}) /\ g[n] = AllOthers(Whole(r)[n])
<1> DEFINE N == Len(r)
           W == Whole(r)
           others == BlockTypes \ {"thinking"}
           S == {n \in 0 .. N : /\ f[n] \in Seq({"thinking"}) /\ f[n] = Thinking(W[n])
                                /\ g[n] \in Seq(others) /\ g[n] = AllOthers(W[n])}
<1>1. /\ N \in Nat /\ W[0] = << >> /\ \A n \in 0 .. N : W[n] \in Seq(BlockTypes)
      /\ \A n \in 1 .. N : r[n] \in Message!OutputItem /\ W[n] = W[n - 1] \o Made(r[n])
  BY WholeRounds
<1>2. << >> \in Seq(BlockTypes) /\ << >> \in Seq({"thinking"}) /\ << >> \in Seq(others)
  BY EmptyTyped
<1>3. 0 \in S
  <2>1. Only(<< >>, {"thinking"}) = << >> /\ Only(<< >>, others) = << >>
    BY <1>2, OnlyTyped
  <2> QED
    BY <1>1, <1>2, <2>1 DEF ContentRounds, Thinking, AllOthers
<1>4. ASSUME NEW n \in 0 .. N, n # N, n \in S
      PROVE  n + 1 \in S
  <2> DEFINE new == Made(r[n + 1])
  <2>1. n + 1 \in 1 .. N /\ n + 1 \in 0 .. N /\ (n + 1) - 1 = n
    BY <1>1, <1>4
  <2>2. W[n + 1] = W[n] \o new /\ W[n] \in Seq(BlockTypes) /\ new \in Seq(BlockTypes)
    BY <1>1, <2>1, MadeBlocks
  <2>7. \A K : Only(W[n] \o new, K) = Only(W[n], K) \o Only(new, K)
    BY <2>2, OnlyOfBoth
  <2>3. \A K : Only(W[n + 1], K) = Only(W[n], K) \o Only(new, K)
    BY <2>2, <2>7
  <2>4. /\ f[n] \in Seq({"thinking"}) /\ f[n] = Only(W[n], {"thinking"})
        /\ g[n] \in Seq(others) /\ g[n] = Only(W[n], others)
    BY <1>4 DEF Thinking, AllOthers
  <2>5. CASE r[n + 1].type = "reasoning"
    <3>1. f[n + 1] = f[n] \o new /\ g[n + 1] = g[n]
      BY <2>1, <2>5 DEF ContentRounds
    <3>2. new \in Seq({"thinking"})
      BY <1>1, <2>1, <2>5, MadeTyped
    <3>3. Only(new, {"thinking"}) = new /\ Only(new, others) = << >>
      <4>1. {"thinking"} \subseteq {"thinking"} /\ {"thinking"} \cap others = {}
        OBVIOUS
      <4> QED
        BY <3>2, <4>1, OnlyAll, OnlyNone
    <3> HIDE DEF new
    <3>4. f[n + 1] \in Seq({"thinking"}) /\ g[n] \o << >> = g[n]
      BY <2>4, <3>1, <3>2
    <3> QED
      BY <2>1, <2>3, <2>4, <3>1, <3>3, <3>4 DEF Thinking, AllOthers
  <2>6. CASE r[n + 1].type # "reasoning"
    <3>1. f[n + 1] = f[n] /\ g[n + 1] = g[n] \o new
      BY <2>1, <2>6 DEF ContentRounds
    <3>2. new \in Seq(others)
      BY <1>1, <2>1, <2>6, MadeTyped
    <3>3. Only(new, {"thinking"}) = << >> /\ Only(new, others) = new
      <4>1. others \subseteq others /\ others \cap {"thinking"} = {}
        OBVIOUS
      <4> HIDE DEF others
      <4> QED
        BY <3>2, <4>1, OnlyAll, OnlyNone
    <3> HIDE DEF new
    <3>4. g[n + 1] \in Seq(others) /\ f[n] \o << >> = f[n]
      BY <2>4, <3>1, <3>2
    <3> QED
      BY <2>1, <2>3, <2>4, <3>1, <3>3, <3>4 DEF Thinking, AllOthers
  <2> QED
    BY <2>5, <2>6
<1> HIDE DEF S
<1>5. \A n \in 0 .. N : n \in S
  BY <1>1, <1>3, <1>4, Induction
<1> QED
  BY <1>5 DEF S

\* Message!content has the same thinking and the same other blocks as the blocks in
\* the order of the items.
LEMMA WholeIsContent ==
    ASSUME NEW r, IsResponse(r)
    PROVE  /\ Thinking(Whole(r)[Len(r)]) = Thinking(Message!content(r))
           /\ AllOthers(Whole(r)[Len(r)]) = AllOthers(Message!content(r))
<1> DEFINE N == Len(r)
           others == BlockTypes \ {"thinking"}
           types == {r[k].type : k \in DOMAIN r} \ {"reasoning"}
<1>1. N \in Nat /\ DOMAIN r = 1 .. N
  BY DEF IsResponse
<1>2. \A n \in 1 .. N : r[n].type \in types <=> r[n].type # "reasoning"
  BY <1>1
<1>3. Message!content(r) = Message!contentOf(r, {"reasoning"}) \o Message!contentOf(r, types)
  BY DEF Message!content
<1> HIDE DEF types
<1>4. PICK f : ContentRounds(f, r, {"reasoning"}) /\ Message!contentOf(r, {"reasoning"}) = f[N]
  BY ContentLoop
<1>5. PICK g : ContentRounds(g, r, types) /\ Message!contentOf(r, types) = g[N]
  BY ContentLoop
<1>6. /\ f[N] \in Seq({"thinking"}) /\ f[N] = Thinking(Whole(r)[N])
      /\ g[N] \in Seq(others) /\ g[N] = AllOthers(Whole(r)[N])
  <2>1. N \in 0 .. N
    BY <1>1
  <2> QED
    BY <1>2, <1>4, <1>5, <2>1, WholeSplit
<1>7. f[N] \in Seq(BlockTypes) /\ g[N] \in Seq(BlockTypes)
  BY <1>1, <1>4, <1>5 DEF ContentRounds
<1>8. \A K : Only(f[N] \o g[N], K) = Only(f[N], K) \o Only(g[N], K)
  BY <1>7, OnlyOfBoth
<1>9. Only(f[N], {"thinking"}) = f[N] /\ Only(f[N], others) = << >>
  <2>1. {"thinking"} \subseteq {"thinking"} /\ {"thinking"} \cap others = {}
    OBVIOUS
  <2> HIDE DEF others
  <2> QED
    BY <1>6, <2>1, OnlyAll, OnlyNone
<1>10. Only(g[N], {"thinking"}) = << >> /\ Only(g[N], others) = g[N]
  <2>1. others \subseteq others /\ others \cap {"thinking"} = {}
    OBVIOUS
  <2> HIDE DEF others
  <2> QED
    BY <1>6, <2>1, OnlyAll, OnlyNone
<1>11. f[N] \o << >> = f[N] /\ << >> \o g[N] = g[N]
  BY <1>7
<1> QED
  BY <1>3, <1>4, <1>5, <1>6, <1>8, <1>9, <1>10, <1>11 DEF Thinking, AllOthers

-----------------------------------------------------------------------------
(* The events of a message                                                  *)

PartNames == {"part.added", "other.added", "text.delta", "part.done", "refusal.delta", "refusal.done"}
PartEvent == [name : PartNames, part : Nat]

\* The events that open a block for their part.
Openers == {"part.added", "text.delta", "refusal.delta"}

\* The names that events of a part may have.
Fits(name, what) ==
    /\ name \in {"part.added", "text.delta"} => what \in {"output_text", "text"}
    /\ name \in {"refusal.delta", "refusal.done"} => what = "refusal"

\* The events of one part: each fits it, and a part of text or a refusal is opened.
LEMMA PartEventsTyped ==
    ASSUME NEW what \in Message!MessageParts, NEW p \in Nat
    PROVE  LET e == PartEvents(what, p)
           IN  /\ e \in Seq(PartEvent)
               /\ \A i \in 1 .. Len(e) : e[i].part = p /\ Fits(e[i].name, what)
               /\ what # "other" => \E i \in 1 .. Len(e) : e[i].name \in Openers
<1>1. CASE what \in {"output_text", "text"}
  <2> DEFINE a == Event("part.added", p)
             b == Event("text.delta", p)
             c == Event("part.done", p)
  <2>1. PartEvents(what, p) = <<a, b, c>>
    BY <1>1 DEF PartEvents
  <2>2. \A x \in {a, b, c} : x \in PartEvent /\ x.part = p /\ Fits(x.name, what)
    BY <1>1 DEF Event, PartEvent, PartNames, Fits
  <2>3. b.name \in Openers
    BY DEF Event, Openers
  <2> HIDE DEF a, b, c
  <2>4. <<a, b, c>> \in Seq({a, b, c}) /\ Len(<<a, b, c>>) = 3 /\ <<a, b, c>>[2] = b
    OBVIOUS
  <2>5. \A i \in 1 .. Len(<<a, b, c>>) : <<a, b, c>>[i] \in {a, b, c}
    BY <2>4
  <2>6. <<a, b, c>> \in Seq(PartEvent)
    BY <2>2
  <2>7. 2 \in 1 .. Len(<<a, b, c>>)
    BY <2>4
  <2> QED
    BY <1>1, <2>1, <2>2, <2>3, <2>4, <2>5, <2>6, <2>7
<1>2. CASE what = "refusal"
  <2> DEFINE a == Event("other.added", p)
             b == Event("refusal.delta", p)
             c == Event("refusal.done", p)
  <2>1. PartEvents(what, p) = <<a, b, c>>
    BY <1>2 DEF PartEvents
  <2>2. \A x \in {a, b, c} : x \in PartEvent /\ x.part = p /\ Fits(x.name, what)
    BY <1>2 DEF Event, PartEvent, PartNames, Fits
  <2>3. b.name \in Openers
    BY DEF Event, Openers
  <2> HIDE DEF a, b, c
  <2>4. <<a, b, c>> \in Seq({a, b, c}) /\ Len(<<a, b, c>>) = 3 /\ <<a, b, c>>[2] = b
    OBVIOUS
  <2>5. \A i \in 1 .. Len(<<a, b, c>>) : <<a, b, c>>[i] \in {a, b, c}
    BY <2>4
  <2>6. <<a, b, c>> \in Seq(PartEvent)
    BY <2>2
  <2>7. 2 \in 1 .. Len(<<a, b, c>>)
    BY <2>4
  <2> QED
    BY <1>2, <2>1, <2>2, <2>3, <2>4, <2>5, <2>6, <2>7
<1>3. CASE what = "other"
  <2> DEFINE a == Event("other.added", p)
             b == Event("part.done", p)
  <2>1. PartEvents(what, p) = <<a, b>>
    BY <1>3 DEF PartEvents
  <2>2. \A x \in {a, b} : x \in PartEvent /\ x.part = p /\ Fits(x.name, what)
    BY <1>3 DEF Event, PartEvent, PartNames, Fits
  <2> HIDE DEF a, b
  <2>4. <<a, b>> \in Seq({a, b}) /\ Len(<<a, b>>) = 2 /\ <<a, b>>[2] = b
    OBVIOUS
  <2>5. \A i \in 1 .. Len(<<a, b>>) : <<a, b>>[i] \in {a, b}
    BY <2>4
  <2>6. <<a, b>> \in Seq(PartEvent)
    BY <2>2
  <2>7. 2 \in 1 .. Len(<<a, b>>)
    BY <2>4
  <2> QED
    BY <1>3, <2>1, <2>2, <2>4, <2>5, <2>6, <2>7
<1> QED
  BY <1>1, <1>2, <1>3 DEF Message!MessageParts

EventRounds(f, parts) ==
    /\ f \in [0 .. Len(parts) -> Seq(PartEvent)]
    /\ f[0] = << >>
    /\ \A n \in 1 .. Len(parts) : f[n] = f[n - 1] \o PartEvents(parts[n], n - 1)

\* MessageEvents, by its rounds.
LEMMA EventLoop ==
    ASSUME NEW parts \in Seq(Message!MessageParts)
    PROVE  \E f : EventRounds(f, parts) /\ MessageEvents(parts) = f[Len(parts)]
<1> DEFINE N == Len(parts)
           Q == Seq(PartEvent)
           Is(g) == g = [k \in 0 .. N |-> IF k = 0 THEN << >> ELSE g[k - 1] \o PartEvents(parts[k], k - 1)]
           step == [x \in Q \X (1 .. N) |-> x[1] \o PartEvents(parts[x[2]], x[2] - 1)]
<1>1. N \in Nat /\ << >> \in Q /\ \A k \in 1 .. N : parts[k] \in Message!MessageParts /\ k - 1 \in Nat
  OBVIOUS
<1>2. \A q \in Q, k \in 1 .. N : q \o PartEvents(parts[k], k - 1) \in Q
  <2> TAKE q \in Q, k \in 1 .. N
  <2>1. PartEvents(parts[k], k - 1) \in Q
    BY <1>1, PartEventsTyped
  <2> QED
    BY <2>1
<1>3. MessageEvents(parts) = (CHOOSE g : Is(g))[N]
  BY DEF MessageEvents
<1> HIDE DEF Q
<1>4. step \in StepsOn(Q, N)
  BY <1>1, <1>2 DEF StepsOn
<1>5. \A q \in Q, k \in 1 .. N : step[<<q, k>>] = q \o PartEvents(parts[k], k - 1)
  OBVIOUS
<1> HIDE DEF step, N
<1>6. PICK f \in [0 .. N -> Q] : Takes(f, N, << >>, step)
  BY <1>1, <1>4, Recursion
<1>7. f[0] = << >> /\ \A k \in 1 .. N : f[k] = f[k - 1] \o PartEvents(parts[k], k - 1)
  <2>1. \A k \in 1 .. N : f[k - 1] \in Q
    BY <1>1
  <2> QED
    BY <1>5, <1>6, <2>1 DEF Takes
<1> DEFINE round(g, k) == IF k = 0 THEN << >> ELSE g[k - 1] \o PartEvents(parts[k], k - 1)
<1>8. \A k \in 0 .. N : k = 0 \/ k \in 1 .. N
  BY <1>1
<1>9. Is(f)
  <2>1. \A k \in 0 .. N : f[k] = round(f, k)
    BY <1>7, <1>8
  <2>2. f = [k \in 0 .. N |-> f[k]]
    OBVIOUS
  <2> QED
    BY <2>1, <2>2
<1> DEFINE g == CHOOSE g : Is(g)
<1>10. Is(g)
  BY <1>9
<1> HIDE DEF g
<1>11. g[0] = << >> /\ \A k \in 1 .. N : g[k] = g[k - 1] \o PartEvents(parts[k], k - 1)
  <2>1. \A k \in 0 .. N : g[k] = round(g, k)
    BY <1>10
  <2>2. 0 \in 0 .. N /\ \A k \in 1 .. N : k \in 0 .. N /\ k # 0
    BY <1>1
  <2> QED
    BY <2>1, <2>2
<1> DEFINE S == {k \in 0 .. N : g[k] = f[k]}
<1>12. 0 \in S
  BY <1>1, <1>7, <1>11
<1>13. ASSUME NEW k \in 0 .. N, k # N, k \in S
       PROVE  k + 1 \in S
  <2>1. k + 1 \in 1 .. N /\ (k + 1) - 1 = k
    BY <1>1, <1>13
  <2>2. f[k + 1] = f[k] \o PartEvents(parts[k + 1], k) /\ g[k + 1] = g[k] \o PartEvents(parts[k + 1], k)
    BY <1>7, <1>11, <2>1
  <2>3. g[k] = f[k] /\ k + 1 \in 0 .. N
    BY <1>13, <2>1
  <2> QED
    BY <2>2, <2>3
<1> HIDE DEF S
<1>14. \A k \in 0 .. N : k \in S
  BY <1>1, <1>12, <1>13, Induction
<1>15. MessageEvents(parts) = f[N]
  <2>1. N \in 0 .. N /\ MessageEvents(parts) = g[N]
    BY <1>1, <1>3 DEF g
  <2> QED
    BY <1>14, <2>1 DEF S
<1> QED
  BY <1>6, <1>7, <1>15 DEF EventRounds, N, Q

\* The events of the first n parts.
EventsOf(e, parts, n) ==
    /\ e \in Seq(PartEvent)
    /\ \A i \in 1 .. Len(e) : e[i].part \in 0 .. (n - 1) /\ Fits(e[i].name, parts[e[i].part + 1])
    /\ \A p \in 1 .. n : parts[p] # "other" =>
          \E i \in 1 .. Len(e) : e[i].part = p - 1 /\ e[i].name \in Openers

\* The events of a message are those of its parts.
LEMMA MessageEventsAre ==
    ASSUME NEW parts \in Seq(Message!MessageParts)
    PROVE  EventsOf(MessageEvents(parts), parts, Len(parts))
<1> DEFINE N == Len(parts)
<1>1. PICK f : EventRounds(f, parts) /\ MessageEvents(parts) = f[N]
  BY EventLoop
<1>2. N \in Nat /\ \A k \in 1 .. N : parts[k] \in Message!MessageParts
  OBVIOUS
<1> DEFINE S == {n \in 0 .. N : EventsOf(f[n], parts, n)}
<1>3. 0 \in S
  BY <1>1, <1>2, EmptyTyped DEF EventsOf, EventRounds
<1>4. ASSUME NEW n \in 0 .. N, n # N, n \in S
      PROVE  n + 1 \in S
  <2> DEFINE d == f[n]
             e == PartEvents(parts[n + 1], n)
             c == f[n + 1]
  <2>1. n + 1 \in 1 .. N /\ n + 1 \in 0 .. N /\ (n + 1) - 1 = n /\ n \in Nat
    BY <1>2, <1>4
  <2>2. c = d \o e
    BY <1>1, <2>1 DEF EventRounds
  <2>3. /\ e \in Seq(PartEvent)
        /\ \A i \in 1 .. Len(e) : e[i].part = n /\ Fits(e[i].name, parts[n + 1])
        /\ parts[n + 1] # "other" => \E i \in 1 .. Len(e) : e[i].name \in Openers
    BY <1>2, <2>1, PartEventsTyped
  <2>4. EventsOf(d, parts, n)
    BY <1>4
  <2> HIDE DEF c, d, e
  <2>5. d \in Seq(PartEvent) /\ Len(d) \in Nat /\ Len(e) \in Nat
    BY <2>3, <2>4 DEF EventsOf
  <2>6. /\ c \in Seq(PartEvent) /\ Len(c) = Len(d) + Len(e)
        /\ \A i \in 1 .. Len(d) : c[i] = d[i]
        /\ \A i \in 1 .. Len(e) : c[Len(d) + i] = e[i]
    BY <2>2, <2>3, <2>5
  <2>7. \A i \in 1 .. Len(c) : c[i].part \in 0 .. n /\ Fits(c[i].name, parts[c[i].part + 1])
    <3> TAKE i \in 1 .. Len(c)
    <3>1. CASE i <= Len(d)
      <4>1. i \in 1 .. Len(d) /\ c[i] = d[i]
        BY <2>5, <2>6, <3>1
      <4>2. d[i].part \in 0 .. (n - 1) /\ Fits(d[i].name, parts[d[i].part + 1])
        BY <2>4, <4>1 DEF EventsOf
      <4>3. d[i].part \in 0 .. n
        BY <2>1, <4>2
      <4> QED
        BY <4>1, <4>2, <4>3
    <3>2. CASE i > Len(d)
      <4>1. i - Len(d) \in 1 .. Len(e) /\ Len(d) + (i - Len(d)) = i
        BY <2>5, <2>6, <3>2
      <4>2. c[i] = e[i - Len(d)]
        BY <2>6, <4>1
      <4> QED
        BY <2>1, <2>3, <4>1, <4>2
    <3> QED
      BY <2>5, <2>6, <3>1, <3>2
  <2>8. ASSUME NEW p \in 1 .. (n + 1), parts[p] # "other"
        PROVE  \E i \in 1 .. Len(c) : c[i].part = p - 1 /\ c[i].name \in Openers
    <3>1. CASE p <= n
      <4>1. p \in 1 .. n
        BY <2>1, <3>1
      <4>2. PICK i \in 1 .. Len(d) : d[i].part = p - 1 /\ d[i].name \in Openers
        BY <2>4, <2>8, <4>1 DEF EventsOf
      <4>3. i \in 1 .. Len(c) /\ c[i] = d[i]
        BY <2>5, <2>6
      <4> QED
        BY <4>2, <4>3
    <3>2. CASE p = n + 1
      <4>1. PICK i \in 1 .. Len(e) : e[i].name \in Openers
        BY <2>3, <2>8, <3>2
      <4>2. Len(d) + i \in 1 .. Len(c) /\ c[Len(d) + i] = e[i] /\ e[i].part = n
        BY <2>3, <2>5, <2>6
      <4> QED
        BY <2>1, <3>2, <4>1, <4>2
    <3> QED
      BY <2>1, <3>1, <3>2
  <2>9. EventsOf(c, parts, n + 1)
    BY <2>1, <2>6, <2>7, <2>8 DEF EventsOf
  <2> QED
    BY <2>1, <2>9 DEF c
<1> HIDE DEF S, N
<1>5. N \in S
  <2>1. \A n \in 0 .. N : n \in S
    BY <1>2, <1>3, <1>4, Induction
  <2> QED
    BY <1>2, <2>1
<1> QED
  BY <1>1, <1>5 DEF S, N

-----------------------------------------------------------------------------
(* What the helpers of the bridge show                                      *)

ShownIn(frames) == Only([k \in DOMAIN frames |-> ShownBy(frames[k])], BlockTypes)
Shows(b)        == ShownIn(b.out)

\* One frame more shows its block, if it starts one.
LEMMA ShownInAppend ==
    ASSUME NEW s \in Seq(Frame), NEW f \in Frame
    PROVE  /\ ShownIn(s) \in Seq(Details)
           /\ ShownIn(Append(s, f)) = IF ShownBy(f) \in BlockTypes THEN Append(ShownIn(s), ShownBy(f))
                                      ELSE ShownIn(s)
<1> DEFINE shown(u) == [k \in DOMAIN u |-> ShownBy(u[k])]
<1>1. \A g \in Frame : ShownBy(g) \in Details
  BY DEF ShownBy, Frame, Details
<1>2. \A u \in Seq(Frame) : shown(u) \in Seq(Details)
  <2> TAKE u \in Seq(Frame)
  <2>1. Len(u) \in Nat /\ DOMAIN u = 1 .. Len(u) /\ \A k \in 1 .. Len(u) : u[k] \in Frame
    OBVIOUS
  <2>2. shown(u) \in [1 .. Len(u) -> Details]
    BY <1>1, <2>1
  <2> HIDE DEF shown
  <2> QED
    BY <2>1, <2>2
<1>3. shown(Append(s, f)) = Append(shown(s), ShownBy(f))
  <2> DEFINE t == Append(s, f)
             u == shown(t)
             v == Append(shown(s), ShownBy(f))
  <2>1. /\ t \in Seq(Frame) /\ Len(t) = Len(s) + 1 /\ Len(s) \in Nat /\ t[Len(s) + 1] = f
        /\ \A k \in 1 .. Len(s) : t[k] = s[k]
        /\ DOMAIN t = 1 .. (Len(s) + 1) /\ DOMAIN s = 1 .. Len(s)
    OBVIOUS
  <2> HIDE DEF t
  <2>2. u \in Seq(Details) /\ shown(s) \in Seq(Details) /\ ShownBy(f) \in Details
    BY <1>1, <1>2, <2>1
  <2>3. Len(u) = Len(s) + 1 /\ Len(shown(s)) = Len(s)
    BY <2>1
  <2>4. /\ \A k \in 1 .. Len(s) : u[k] = ShownBy(s[k]) /\ shown(s)[k] = ShownBy(s[k])
        /\ u[Len(s) + 1] = ShownBy(f)
    BY <2>1
  <2> HIDE DEF shown, u
  <2>5. v \in Seq(Details) /\ Len(v) = Len(s) + 1
    BY <2>2, <2>3
  <2>6. \A k \in 1 .. (Len(s) + 1) : v[k] = u[k]
    BY <2>1, <2>2, <2>3, <2>4
  <2> HIDE DEF v
  <2>7. u = v
    BY <2>1, <2>2, <2>3, <2>5, <2>6
  <2> QED
    BY <2>7 DEF u, v, t
<1>4. shown(s) \in Seq(Details) /\ ShownBy(f) \in Details
  BY <1>1, <1>2
<1> HIDE DEF shown
<1>5. /\ Only(shown(s), BlockTypes) \in Seq(Details)
      /\ Only(Append(shown(s), ShownBy(f)), BlockTypes)
            = IF ShownBy(f) \in BlockTypes THEN Append(Only(shown(s), BlockTypes), ShownBy(f))
              ELSE Only(shown(s), BlockTypes)
  BY <1>4, OnlyTyped, OnlyAppend
<1> QED
  BY <1>3, <1>5 DEF ShownIn, shown

\* No frames show no block.
LEMMA EmptyShown == ShownIn(<< >>) = << >>
<1> DEFINE s == [k \in DOMAIN << >> |-> ShownBy(<< >>[k])]
<1>1. s = << >>
  OBVIOUS
<1>2. Only(<< >>, BlockTypes) = << >>
  <2>1. << >> \in Seq(BlockTypes) /\ {} \cap BlockTypes = {} /\ << >> \in Seq({})
    OBVIOUS
  <2> QED
    BY <2>1, OnlyNone
<1> QED
  BY <1>1, <1>2 DEF ShownIn

\* c knows of the items what b knows.
Kept(b, c) ==
    /\ c \in Bridge
    /\ c.textIndexByKey = b.textIndexByKey
    /\ c.ignoredMessageItemID = b.ignoredMessageItemID
    /\ c.toolIndexByItemID = b.toolIndexByItemID
    /\ c.toolUsed = b.toolUsed
    /\ c.thinkingIndex = b.thinkingIndex
    /\ c.webSearchEmitted = b.webSearchEmitted
    /\ c.serverToolUseCount = b.serverToolUseCount

\* And it shows new blocks.
Yields(b, c, new) == Kept(b, c) /\ new \in Seq(BlockTypes) /\ Shows(c) = Shows(b) \o new

\* The types of blocks are among what a frame can tell.
LEMMA BlockTypesAreDetails ==
    /\ BlockTypes \subseteq Details /\ "none" \notin BlockTypes /\ "refusal" \notin BlockTypes
    /\ {"none", "text", "refusal", "tool_use", "tool_result", "thinking", "compaction",
        "server_tool_use", "web_search_tool_result",
        "text_delta", "input_json_delta", "thinking_delta", "signature_delta"} \subseteq Details
  BY DEF BlockTypes, Details, Standalone

\* What a bridge has shown is a sequence of them.
LEMMA ShowsTyped ==
    ASSUME NEW b \in Bridge
    PROVE  Shows(b) \in Seq(Details) /\ b.out \in Seq(Frame) /\ Len(b.out) \in Nat
<1>1. b.out \in Seq(Frame)
  BY DEF Bridge
<1>2. \E f : f \in Frame
  <2>1. MessageFrame("error", "none") \in Frame
    BY FrameFacts, BlockTypesAreDetails DEF MessageFrame, Owners, ItemIds
  <2> QED
    BY <2>1
<1> QED
  BY <1>1, <1>2, ShownInAppend DEF Shows

\* A bridge that stays as it is shows nothing new.
LEMMA YieldsNothing ==
    ASSUME NEW b \in Bridge
    PROVE  Yields(b, b, << >>)
<1>1. Shows(b) \o << >> = Shows(b)
  BY ShowsTyped
<1> QED
  BY <1>1, EmptyTyped DEF Yields, Kept

\* What two steps show, one after the other.
LEMMA YieldsBoth ==
    ASSUME NEW b \in Bridge, NEW c, NEW d, NEW u, NEW v, Yields(b, c, u), Yields(c, d, v)
    PROVE  Yields(b, d, u \o v)
<1>1. /\ Shows(b) \in Seq(Details) /\ u \in Seq(BlockTypes) /\ v \in Seq(BlockTypes)
      /\ \A x \in Seq(BlockTypes) : x \in Seq(Details)
  BY ShowsTyped, BlockTypesAreDetails DEF Yields
<1>2. (Shows(b) \o u) \o v = Shows(b) \o (u \o v)
  BY <1>1, ConcatAssociative
<1>3. u \o v \in Seq(BlockTypes)
  BY <1>1
<1> QED
  BY <1>2, <1>3 DEF Yields, Kept

\* A second step that shows nothing.
LEMMA YieldsThen ==
    ASSUME NEW b \in Bridge, NEW c, NEW d, NEW u, Yields(b, c, u), Yields(c, d, << >>)
    PROVE  Yields(b, d, u)
<1>1. u \o << >> = u
  BY DEF Yields
<1> QED
  BY <1>1, YieldsBoth

\* A first step that shows nothing.
LEMMA YieldsAfter ==
    ASSUME NEW b \in Bridge, NEW c, NEW d, NEW u, Yields(b, c, << >>), Yields(c, d, u)
    PROVE  Yields(b, d, u)
<1>1. << >> \o u = u
  BY DEF Yields
<1> QED
  BY <1>1, YieldsBoth

\* A record that differs from b by one more frame, and in fields of no item.
LEMMA YieldsFrame ==
    ASSUME NEW b \in Bridge, NEW f \in Frame, NEW c, Kept(b, c), c.out = Append(b.out, f)
    PROVE  Yields(b, c, IF ShownBy(f) \in BlockTypes THEN <<ShownBy(f)>> ELSE << >>)
<1>1. Shows(b) \in Seq(Details) /\ b.out \in Seq(Frame)
  BY ShowsTyped
<1>2. Shows(c) = IF ShownBy(f) \in BlockTypes THEN Append(Shows(b), ShownBy(f)) ELSE Shows(b)
  BY <1>1, ShownInAppend DEF Shows
<1>3. CASE ShownBy(f) \in BlockTypes
  <2>1. ShownBy(f) \in Details
    BY <1>3, BlockTypesAreDetails
  <2>2. Append(Shows(b), ShownBy(f)) = Shows(b) \o <<ShownBy(f)>>
    BY <1>1, <2>1, AppendIsConcat
  <2>3. <<ShownBy(f)>> \in Seq(BlockTypes)
    BY <1>3
  <2> QED
    BY <1>2, <1>3, <2>2, <2>3 DEF Yields
<1>4. CASE ShownBy(f) \notin BlockTypes
  <2>1. Shows(b) \o << >> = Shows(b) /\ << >> \in Seq(BlockTypes)
    BY <1>1
  <2> QED
    BY <1>2, <1>4, <2>1 DEF Yields
<1> QED
  BY <1>3, <1>4

\* sendEvent shows the block its frame starts, if it starts one.
LEMMA YieldsSend ==
    ASSUME NEW b \in Bridge, NEW f \in Frame
    PROVE  /\ Yields(b, sendEvent(b, f), IF ShownBy(f) \in BlockTypes THEN <<ShownBy(f)>> ELSE << >>)
           /\ sendEvent(b, f).out = Append(b.out, f)
<1> DEFINE c == sendEvent(b, f)
<1>1. Append(b.out, f) \in Seq(Frame)
  BY ShowsTyped
<1>2. c \in Bridge /\ c.out = Append(b.out, f) /\ Kept(b, c)
  BY <1>1 DEF sendEvent, Bridge, Kept
<1> QED
  BY <1>2, YieldsFrame

\* The frames that start no block.
LEMMA Silent ==
    ASSUME NEW i \in Nat, NEW item \in Owners, NEW what \in Details
    PROVE  /\ BlockDelta(i, what, item) \in Frame /\ ShownBy(BlockDelta(i, what, item)) \notin BlockTypes
           /\ BlockStop(i) \in Frame /\ ShownBy(BlockStop(i)) \notin BlockTypes
           /\ \A type \in {"message_start", "message_delta", "message_stop", "error"} :
                 /\ MessageFrame(type, what) \in Frame
                 /\ ShownBy(MessageFrame(type, what)) \notin BlockTypes
<1>1. "none" \notin BlockTypes
  BY BlockTypesAreDetails
<1> QED
  BY <1>1, FrameFacts DEF ShownBy, BlockDelta, BlockStop, MessageFrame

\* A delta shows nothing.
LEMMA YieldsDelta ==
    ASSUME NEW b \in Bridge, NEW i \in Nat, NEW item \in Owners, NEW what \in Details
    PROVE  Yields(b, sendEvent(b, BlockDelta(i, what, item)), << >>)
  BY Silent, YieldsSend

\* ensureMessageStart shows nothing.
LEMMA YieldsEnsure ==
    ASSUME NEW b \in Bridge
    PROVE  Yields(b, ensureMessageStart(b), << >>)
<1> DEFINE f == MessageFrame("message_start", "none")
           c == ensureMessageStart(b)
<1>1. CASE b.started
  BY <1>1, YieldsNothing DEF ensureMessageStart
<1>2. CASE ~ b.started
  <2>1. f \in Frame /\ ShownBy(f) \notin BlockTypes
    BY Silent, BlockTypesAreDetails, 0 \in Nat, NoItem \in Owners DEF Owners, ItemIds
  <2> HIDE DEF f
  <2>2. Append(b.out, f) \in Seq(Frame)
    BY <2>1, ShowsTyped
  <2>3. c = [b EXCEPT !.out = Append(b.out, f), !.started = TRUE]
    BY <1>2 DEF ensureMessageStart, sendEvent, f, Bridge
  <2>4. c.out = Append(b.out, f) /\ Kept(b, c)
    BY <2>2, <2>3 DEF Bridge, Kept
  <2> QED
    BY <2>1, <2>4, YieldsFrame
<1> QED
  BY <1>1, <1>2

\* openBlock shows the block; a refusal shows as text.
LEMMA YieldsOpen ==
    ASSUME NEW b \in Bridge, NEW what \in BlockTypes \cup {"refusal"}, NEW item \in Owners
    PROVE  Yields(b, openBlock(b, what, item), <<IF what = "refusal" THEN "text" ELSE what>>)
<1> DEFINE f == BlockStart(b.nextIndex, what, item)
           c == openBlock(b, what, item)
           n == b.nextIndex + 1
<1>1. what \in Details /\ b.nextIndex \in Nat /\ "text" \in BlockTypes
  BY BlockTypesAreDetails DEF Bridge, BlockTypes
<1>2. f \in Frame /\ ShownBy(f) = (IF what = "refusal" THEN "text" ELSE what) /\ ShownBy(f) \in BlockTypes
  BY <1>1, FrameFacts DEF BlockStart, ShownBy
<1>3. c = [b EXCEPT !.out = Append(b.out, f), !.nextIndex = n] /\ n \in Nat
  BY <1>1 DEF openBlock, sendEvent, Bridge
<1> HIDE DEF f, c, n
<1>4. Append(b.out, f) \in Seq(Frame)
  BY <1>2, ShowsTyped
<1>5. c.out = Append(b.out, f) /\ Kept(b, c)
  BY <1>3, <1>4 DEF Bridge, Kept
<1> QED
  BY <1>2, <1>5, YieldsFrame DEF c

\* closeContentBlock shows nothing.
LEMMA YieldsClose ==
    ASSUME NEW b \in Bridge, NEW i \in Nat
    PROVE  Yields(b, closeContentBlock(b, i), << >>)
<1> DEFINE f == BlockStop(i)
           c == closeContentBlock(b, i)
<1>1. CASE i \in b.closedIndex
  BY <1>1, YieldsNothing DEF closeContentBlock
<1>2. CASE i \notin b.closedIndex
  <2>1. f \in Frame /\ ShownBy(f) \notin BlockTypes
    BY Silent, BlockTypesAreDetails, NoItem \in Owners DEF Owners, ItemIds
  <2> HIDE DEF f
  <2>2. Append(b.out, f) \in Seq(Frame) /\ b.closedIndex \cup {i} \in SUBSET Nat
    BY <2>1, ShowsTyped DEF Bridge
  <2>3. c = [b EXCEPT !.out = Append(b.out, f), !.closedIndex = b.closedIndex \cup {i}]
    BY <1>2 DEF closeContentBlock, sendEvent, f, Bridge
  <2>4. c.out = Append(b.out, f) /\ Kept(b, c)
    BY <2>2, <2>3 DEF Bridge, Kept
  <2> QED
    BY <2>1, <2>4, YieldsFrame
<1> QED
  BY <1>1, <1>2

\* A block that is opened and closed.
LEMMA YieldsOpenClosed ==
    ASSUME NEW b \in Bridge, NEW what \in BlockTypes, NEW item \in Owners, NEW i \in Nat
    PROVE  Yields(b, closeContentBlock(openBlock(b, what, item), i), <<what>>)
<1> DEFINE o == openBlock(b, what, item)
<1>1. Yields(b, o, <<what>>)
  BY YieldsOpen, BlockTypesAreDetails
<1>2. o \in Bridge
  BY <1>1 DEF Yields, Kept
<1> HIDE DEF o
<1>3. Yields(o, closeContentBlock(o, i), << >>)
  BY <1>2, YieldsClose
<1> QED
  BY <1>1, <1>3, YieldsThen DEF o

\* emitFullContentBlock shows its block.
LEMMA YieldsFull ==
    ASSUME NEW b \in Bridge, NEW what \in BlockTypes, NEW item \in Owners
    PROVE  Yields(b, emitFullContentBlock(b, what, item), <<what>>)
<1> DEFINE e == ensureMessageStart(b)
<1>1. Yields(b, e, << >>) /\ e \in Bridge /\ e.nextIndex \in Nat
  BY YieldsEnsure DEF Yields, Kept, Bridge
<1> HIDE DEF e
<1>2. Yields(e, closeContentBlock(openBlock(e, what, item), e.nextIndex), <<what>>)
  BY <1>1, YieldsOpenClosed
<1> QED
  BY <1>1, <1>2, YieldsAfter DEF emitFullContentBlock, e

\* The blocks of an item that is done.
Copies(n, what) == [k \in 1 .. n |-> what]

\* emitBlocks shows n blocks of a type.
LEMMA YieldsBlocks ==
    ASSUME NEW b \in Bridge, NEW n \in 0 .. MaxBlocks, NEW what \in BlockTypes, NEW item \in Owners
    PROVE  Yields(b, emitBlocks(b, n, what, item), Copies(n, what))
<1> DEFINE c == emitFullContentBlock(b, what, item)
           d == emitFullContentBlock(c, what, item)
<1>1. Yields(b, c, <<what>>) /\ c \in Bridge
  BY YieldsFull DEF Yields, Kept
<1>2. Yields(c, d, <<what>>)
  BY <1>1, YieldsFull
<1>3. Yields(b, d, <<what, what>>)
  <2> HIDE DEF c, d
  <2>1. Yields(b, d, <<what>> \o <<what>>)
    BY <1>1, <1>2, YieldsBoth
  <2>2. <<what>> \o <<what>> = <<what, what>>
    BY JoinOnes
  <2> QED
    BY <2>1, <2>2
<1>4. Copies(0, what) = << >> /\ Copies(1, what) = <<what>> /\ Copies(2, what) = <<what, what>>
  BY DEF Copies
<1>5. n \in {0, 1, 2}
  BY DEF MaxBlocks
<1>6. /\ n = 0 => emitBlocks(b, n, what, item) = b
      /\ n = 1 => emitBlocks(b, n, what, item) = c
      /\ n = 2 => emitBlocks(b, n, what, item) = d
  BY DEF emitBlocks
<1> HIDE DEF c, d
<1> QED
  BY <1>1, <1>3, <1>4, <1>5, <1>6, YieldsNothing

\* closeThinkingBlock shows nothing.
LEMMA YieldsCloseThinking ==
    ASSUME NEW b \in Bridge, thinkingStarted(b)
    PROVE  Yields(b, closeThinkingBlock(b), << >>)
<1> DEFINE i == b.thinkingIndex
           d == sendEvent(b, BlockDelta(i, "signature_delta", NoItem))
<1>1. i \in Nat
  BY DEF thinkingStarted, Bridge, Index
<1>2. Yields(b, d, << >>) /\ d \in Bridge
  <2>1. NoItem \in Owners /\ "signature_delta" \in Details
    BY BlockTypesAreDetails DEF Owners, ItemIds
  <2>2. Yields(b, d, << >>)
    BY <1>1, <2>1, YieldsDelta
  <2> QED
    BY <2>2 DEF Yields, Kept
<1> HIDE DEF d
<1>3. Yields(d, closeContentBlock(d, i), << >>)
  BY <1>1, <1>2, YieldsClose
<1>4. Yields(b, closeContentBlock(d, i), << >>)
  BY <1>2, <1>3, YieldsThen
<1> QED
  BY <1>4, YieldsNothing DEF closeThinkingBlock, d

-----------------------------------------------------------------------------
(* How far the bridge is with an item                                       *)

Calls == Message!PlainCalls \cup Message!ResultCalls

\* What the first n events of an item that is streamed have done.
OpensTool(item) ==
    \/ item.type \in DirectTools
    \/ item.type \in ConvertedTools /\ Message!toolCallToBlock(item).ok

ToolBegun(item, n)     == n >= 1 /\ OpensTool(item)
IsIgnored(item, n)     == n >= 1 /\ item.type = "message" /\ item.commentary
ThinkingBegun(item, n) == n >= 2 /\ item.type = "reasoning" /\ item.body = "some"

PartsBegun(item, n) ==
    IF n >= 1 /\ item.type = "message" /\ ~ item.commentary
    THEN LET e == MessageEvents(item.parts)
         IN  {e[i].part : i \in {j \in 1 .. Len(e) : j <= n - 1 /\ e[j].name \in Openers}}
    ELSE {}

\* The blocks they have opened.
Begun(item, n) ==
    IF ToolBegun(item, n) THEN <<"tool_use">>
    ELSE IF ThinkingBegun(item, n) THEN <<"thinking">>
    ELSE Texts(Cardinality(PartsBegun(item, n)))

\* What the bridge then knows of it.
Knows(b, x, item, n) ==
    /\ b.toolIndexByItemID[x] # Absent <=> ToolBegun(item, n)
    /\ x \in b.ignoredMessageItemID <=> IsIgnored(item, n)
    /\ \A p \in Parts : b.textIndexByKey[<<x, p>>] # Absent <=> p \in PartsBegun(item, n)
    /\ x \notin b.webSearchEmitted

Searches(r, n)             == {j \in 1 .. n : r[j].type = "web_search_call"}
UsedTool(r, n)             == \E j \in 1 .. n : r[j].type \in Calls
StreamedThinking(r, st, n) ==
    \E j \in 1 .. n : st[j] /\ r[j].type = "reasoning" /\ r[j].body = "some"

\* The bridge after k - 1 items of the response r and n events of item k, when st
\* are the items streamed.
Stage(r, st, b, k, n) ==
    /\ b \in Bridge
    /\ Shows(b) = Whole(r)[k - 1] \o Begun(r[k], n)
    /\ b.serverToolUseCount = Cardinality(Searches(r, k - 1))
    /\ b.toolUsed <=> UsedTool(r, k - 1) \/ ToolBegun(r[k], n)
    /\ thinkingStarted(b) <=> StreamedThinking(r, st, k - 1) \/ ThinkingBegun(r[k], n)
    /\ \A j \in k .. Len(r) : Knows(b, Ids[j], r[j], IF j = k THEN n ELSE 0)

\* Item k of a response that has ids for its items.
Item(r, k) == IsResponse(r) /\ k \in 1 .. Len(r) /\ Len(r) <= Len(Ids)

\* The types of an item and of its id, and that no later item has its id.
LEMMA ItemFacts ==
    ASSUME NEW r, NEW k, Item(r, k)
    PROVE  /\ r[k] \in Message!OutputItem /\ k \in Nat /\ Len(r) \in Nat /\ k - 1 \in 0 .. Len(r)
           /\ \A j \in k .. Len(r) : Ids[j] \in Items /\ Ids[j] \in ItemIds /\ Ids[j] # NoItem
           /\ \A j \in k .. Len(r) : j # k => Ids[j] # Ids[k]
           /\ Ids[k] \in Owners /\ k - 1 \in Outputs
<1>1. r[k] \in Message!OutputItem /\ k \in Nat /\ Len(r) \in Nat /\ k - 1 \in 0 .. Len(r)
  BY DEF Item, IsResponse
<1>2. Len(Ids) \in Nat /\ DOMAIN Ids = 1 .. Len(Ids) /\ \A j \in 1 .. Len(Ids) : Ids[j] \in Items
  BY AgreementAssumption
<1>3. \A j \in k .. Len(r) : j \in 1 .. Len(Ids)
  BY <1>1, <1>2 DEF Item
<1>4. k \in k .. Len(r) /\ k - 1 \in 0 .. (Len(Ids) - 1)
  BY <1>1, <1>2 DEF Item
<1>5. \A j \in k .. Len(r) : j # k => Ids[j] # Ids[k]
  BY <1>2, <1>3, <1>4, AgreementAssumption
<1>6. \A j \in k .. Len(r) : Ids[j] \in Items /\ Ids[j] \in ItemIds /\ Ids[j] # NoItem
  BY <1>2, <1>3, BridgeAssumption DEF ItemIds
<1>7. k - 1 \in Outputs
  BY <1>4, AgreementAssumption
<1> QED
  BY <1>1, <1>4, <1>5, <1>6, <1>7 DEF Owners

\* The types of what is begun of an item.
LEMMA BegunFacts ==
    ASSUME NEW item \in Message!OutputItem, NEW n \in Nat
    PROVE  /\ PartsBegun(item, n) \subseteq 0 .. (Len(item.parts) - 1)
           /\ IsFiniteSet(PartsBegun(item, n)) /\ Cardinality(PartsBegun(item, n)) \in Nat
           /\ Begun(item, n) \in Seq(BlockTypes)
<1>1. item.parts \in Seq(Message!MessageParts) /\ Len(item.parts) \in Nat
  BY DEF Message!OutputItem
<1>2. EventsOf(MessageEvents(item.parts), item.parts, Len(item.parts))
  BY <1>1, MessageEventsAre
<1>3. PartsBegun(item, n) \subseteq 0 .. (Len(item.parts) - 1)
  BY <1>2 DEF PartsBegun, EventsOf
<1>4. IsFiniteSet(PartsBegun(item, n)) /\ Cardinality(PartsBegun(item, n)) \in Nat
  <2>1. 0 \in Int /\ Len(item.parts) - 1 \in Int
    BY <1>1
  <2>2. IsFiniteSet(0 .. (Len(item.parts) - 1))
    BY <2>1, FS_Interval
  <2>3. IsFiniteSet(PartsBegun(item, n))
    BY <1>3, <2>2, FS_Subset
  <2> QED
    BY <2>3, FS_CardinalityType
<1>5. Texts(Cardinality(PartsBegun(item, n))) \in Seq(BlockTypes)
  BY <1>4 DEF Texts, BlockTypes
<1>6. <<"tool_use">> \in Seq(BlockTypes) /\ <<"thinking">> \in Seq(BlockTypes)
  BY DEF BlockTypes
<1> QED
  BY <1>3, <1>4, <1>5, <1>6 DEF Begun

\* Nothing is begun before the first event.
LEMMA BegunNothing ==
    ASSUME NEW item
    PROVE  /\ ~ ToolBegun(item, 0) /\ ~ IsIgnored(item, 0) /\ ~ ThinkingBegun(item, 0)
           /\ PartsBegun(item, 0) = {} /\ Begun(item, 0) = << >>
<1>1. /\ ~ ToolBegun(item, 0) /\ ~ IsIgnored(item, 0) /\ ~ ThinkingBegun(item, 0)
      /\ PartsBegun(item, 0) = {}
  BY DEF ToolBegun, IsIgnored, ThinkingBegun, PartsBegun
<1>2. Texts(0) = << >>
  BY DEF Texts
<1> QED
  BY <1>1, <1>2, FS_EmptySet DEF Begun

\* What b and c know of other items than x is the same.
Elsewhere(b, c, x) ==
    \A y \in ItemIds : y # x =>
        /\ c.toolIndexByItemID[y] = b.toolIndexByItemID[y]
        /\ y \in c.ignoredMessageItemID <=> y \in b.ignoredMessageItemID
        /\ \A p \in Parts : c.textIndexByKey[<<y, p>>] = b.textIndexByKey[<<y, p>>]
        /\ y \in c.webSearchEmitted <=> y \in b.webSearchEmitted

\* One event more of item k.
LEMMA NextEvent ==
    ASSUME NEW r, NEW k, Item(r, k), NEW st, NEW b, NEW n \in Nat, Stage(r, st, b, k, n),
           NEW c \in Bridge, NEW new \in Seq(BlockTypes), Shows(c) = Shows(b) \o new,
           Begun(r[k], n + 1) = Begun(r[k], n) \o new,
           c.serverToolUseCount = b.serverToolUseCount,
           c.toolUsed <=> b.toolUsed \/ ToolBegun(r[k], n + 1),
           thinkingStarted(c) <=> thinkingStarted(b) \/ ThinkingBegun(r[k], n + 1),
           Elsewhere(b, c, Ids[k]),
           Knows(c, Ids[k], r[k], n + 1)
    PROVE  Stage(r, st, c, k, n + 1)
<1>1. /\ r[k] \in Message!OutputItem /\ k - 1 \in 0 .. Len(r)
      /\ \A j \in k .. Len(r) : Ids[j] \in ItemIds /\ (j # k => Ids[j] # Ids[k])
  BY ItemFacts
<1>2. Shows(c) = Whole(r)[k - 1] \o Begun(r[k], n + 1)
  <2>1. Whole(r)[k - 1] \in Seq(BlockTypes) /\ Begun(r[k], n) \in Seq(BlockTypes)
    BY <1>1, WholeRounds, BegunFacts DEF Item
  <2>2. /\ Joins(Begun(r[k], n + 1), Begun(r[k], n), new)
        /\ Joins(Shows(b), Whole(r)[k - 1], Begun(r[k], n))
        /\ Joins(Shows(c), Shows(b), new)
    BY DEF Stage, Joins
  <2>3. Joins(Shows(c), Whole(r)[k - 1], Begun(r[k], n + 1))
    BY <2>1, <2>2, ShownSoFar
  <2> QED
    BY <2>3 DEF Joins
<1>3. /\ c.serverToolUseCount = Cardinality(Searches(r, k - 1))
      /\ c.toolUsed <=> UsedTool(r, k - 1) \/ ToolBegun(r[k], n + 1)
      /\ thinkingStarted(c) <=> StreamedThinking(r, st, k - 1) \/ ThinkingBegun(r[k], n + 1)
  BY DEF Stage, ToolBegun, ThinkingBegun
<1>4. ASSUME NEW j \in k .. Len(r)
      PROVE  Knows(c, Ids[j], r[j], IF j = k THEN n + 1 ELSE 0)
  <2>1. CASE j = k
    BY <2>1
  <2>2. CASE j # k
    <3>1. Knows(b, Ids[j], r[j], 0)
      BY <2>2 DEF Stage
    <3>2. Ids[j] \in ItemIds /\ Ids[j] # Ids[k]
      BY <1>1, <2>2
    <3> QED
      BY <2>2, <3>1, <3>2 DEF Knows, Elsewhere
  <2> QED
    BY <2>1, <2>2
<1> QED
  BY <1>2, <1>3, <1>4 DEF Stage

\* An event that begins nothing.
Idle(item, n) ==
    /\ ToolBegun(item, n + 1) <=> ToolBegun(item, n)
    /\ IsIgnored(item, n + 1) <=> IsIgnored(item, n)
    /\ ThinkingBegun(item, n + 1) <=> ThinkingBegun(item, n)
    /\ PartsBegun(item, n + 1) = PartsBegun(item, n)

\* The stage after an event that begins nothing and shows nothing.
LEMMA NextIdle ==
    ASSUME NEW r, NEW k, Item(r, k), NEW st, NEW b, NEW n \in Nat, Stage(r, st, b, k, n),
           NEW c, Yields(b, c, << >>), Idle(r[k], n)
    PROVE  Stage(r, st, c, k, n + 1)
<1>1. Begun(r[k], n + 1) = Begun(r[k], n)
  BY DEF Begun, Idle
<1>2. Begun(r[k], n) \o << >> = Begun(r[k], n) /\ << >> \in Seq(BlockTypes)
  BY ItemFacts, BegunFacts
<1>3. c \in Bridge /\ Shows(c) = Shows(b) \o << >> /\ Elsewhere(b, c, Ids[k])
      /\ c.serverToolUseCount = b.serverToolUseCount
  BY DEF Yields, Kept, Elsewhere
<1>4. /\ c.toolUsed <=> b.toolUsed \/ ToolBegun(r[k], n + 1)
      /\ thinkingStarted(c) <=> thinkingStarted(b) \/ ThinkingBegun(r[k], n + 1)
  BY DEF Yields, Kept, Idle, Stage, thinkingStarted
<1>5. Knows(c, Ids[k], r[k], n + 1)
  <2>1. k \in k .. Len(r)
    BY DEF Item, IsResponse
  <2>2. Knows(b, Ids[k], r[k], n)
    BY <2>1 DEF Stage
  <2> QED
    BY <2>2 DEF Yields, Kept, Idle, Knows
<1> QED
  BY <1>1, <1>2, <1>3, <1>4, <1>5, NextEvent

\* One search more.
LEMMA SearchesGrow ==
    ASSUME NEW r, NEW k \in Nat \ {0}
    PROVE  Cardinality(Searches(r, k)) = Cardinality(Searches(r, k - 1))
                                         + IF r[k].type = "web_search_call" THEN 1 ELSE 0
<1>1. IsFiniteSet(1 .. (k - 1)) /\ Searches(r, k - 1) \subseteq 1 .. (k - 1)
  BY FS_Interval DEF Searches
<1>2. IsFiniteSet(Searches(r, k - 1)) /\ Cardinality(Searches(r, k - 1)) \in Nat
  BY <1>1, FS_Subset, FS_CardinalityType
<1>3. CASE r[k].type = "web_search_call"
  <2>1. Searches(r, k) = Searches(r, k - 1) \cup {k} /\ k \notin Searches(r, k - 1)
    BY <1>3 DEF Searches
  <2>2. Cardinality(Searches(r, k - 1) \cup {k}) = Cardinality(Searches(r, k - 1)) + 1
    BY <1>2, <2>1, FS_AddElement
  <2> QED
    BY <1>3, <2>1, <2>2
<1>4. CASE r[k].type # "web_search_call"
  <2>1. Searches(r, k) = Searches(r, k - 1)
    BY <1>4 DEF Searches
  <2> QED
    BY <1>2, <1>4, <2>1
<1> QED
  BY <1>3, <1>4

\* The last event of item k.
LEMMA NextItem ==
    ASSUME NEW r, NEW k, Item(r, k), NEW st, NEW b, NEW n \in Nat, Stage(r, st, b, k, n),
           NEW c \in Bridge, NEW new \in Seq(BlockTypes), Shows(c) = Shows(b) \o new,
           Made(r[k]) = Begun(r[k], n) \o new,
           c.serverToolUseCount = b.serverToolUseCount
                                  + IF r[k].type = "web_search_call" THEN 1 ELSE 0,
           c.toolUsed <=> b.toolUsed \/ r[k].type \in Calls,
           ToolBegun(r[k], n) => r[k].type \in Calls,
           thinkingStarted(c) <=> thinkingStarted(b),
           ThinkingBegun(r[k], n) <=> st[k] /\ r[k].type = "reasoning" /\ r[k].body = "some",
           Elsewhere(b, c, Ids[k])
    PROVE  Stage(r, st, c, k + 1, 0)
<1>1. /\ r[k] \in Message!OutputItem /\ k \in Nat \ {0} /\ Len(r) \in Nat /\ k - 1 \in 0 .. Len(r)
      /\ k \in 1 .. Len(r) /\ (k + 1) - 1 = k
      /\ \A j \in k .. Len(r) : Ids[j] \in ItemIds /\ (j # k => Ids[j] # Ids[k])
  BY ItemFacts DEF Item
<1>2. Shows(c) = Whole(r)[k] \o Begun(r[k + 1], 0)
  <2>1. Whole(r)[k - 1] \in Seq(BlockTypes) /\ Begun(r[k], n) \in Seq(BlockTypes)
        /\ Whole(r)[k] = Whole(r)[k - 1] \o Made(r[k]) /\ Whole(r)[k] \in Seq(BlockTypes)
    <3>1. IsResponse(r) /\ k \in 0 .. Len(r)
      BY <1>1 DEF Item
    <3>2. /\ Whole(r) \in [0 .. Len(r) -> Seq(BlockTypes)]
          /\ \A m \in 1 .. Len(r) : Whole(r)[m] = Whole(r)[m - 1] \o Made(r[m])
      BY <3>1, WholeRounds
    <3>3. Begun(r[k], n) \in Seq(BlockTypes)
      BY <1>1, BegunFacts
    <3>4. Whole(r)[k - 1] \in Seq(BlockTypes) /\ Whole(r)[k] \in Seq(BlockTypes)
      BY <1>1, <3>1, <3>2
    <3>5. Whole(r)[k] = Whole(r)[k - 1] \o Made(r[k])
      BY <1>1, <3>2
    <3> QED
      BY <3>3, <3>4, <3>5
  <2>2. /\ Joins(Made(r[k]), Begun(r[k], n), new)
        /\ Joins(Shows(b), Whole(r)[k - 1], Begun(r[k], n))
        /\ Joins(Shows(c), Shows(b), new)
    BY DEF Stage, Joins
  <2>3. Joins(Shows(c), Whole(r)[k - 1], Made(r[k]))
    BY <2>1, <2>2, ShownSoFar
  <2>4. Shows(c) = Whole(r)[k]
    BY <2>1, <2>3 DEF Joins
  <2>5. Whole(r)[k] \o << >> = Whole(r)[k]
    BY <2>1
  <2> QED
    BY <2>4, <2>5, BegunNothing
<1>3. c.serverToolUseCount = Cardinality(Searches(r, k))
  BY <1>1, SearchesGrow DEF Stage
<1>4. c.toolUsed <=> UsedTool(r, k)
  <2>1. UsedTool(r, k) <=> UsedTool(r, k - 1) \/ r[k].type \in Calls
    BY <1>1 DEF UsedTool
  <2> QED
    BY <2>1 DEF Stage
<1>5. thinkingStarted(c) <=> StreamedThinking(r, st, k)
  <2>1. StreamedThinking(r, st, k) <=> \/ StreamedThinking(r, st, k - 1)
                                       \/ st[k] /\ r[k].type = "reasoning" /\ r[k].body = "some"
    BY <1>1 DEF StreamedThinking
  <2> QED
    BY <2>1 DEF Stage
<1>6. ASSUME NEW j \in (k + 1) .. Len(r)
      PROVE  Knows(c, Ids[j], r[j], 0)
  <2>1. j \in k .. Len(r) /\ j # k
    BY <1>1
  <2>2. Knows(b, Ids[j], r[j], 0)
    BY <2>1 DEF Stage
  <2>3. Ids[j] \in ItemIds /\ Ids[j] # Ids[k]
    BY <1>1, <2>1
  <2> QED
    BY <2>2, <2>3 DEF Knows, Elsewhere
<1>7. \A j \in (k + 1) .. Len(r) : Knows(c, Ids[j], r[j], IF j = k + 1 THEN 0 ELSE 0)
  BY <1>6
<1>8. ~ ToolBegun(r[k + 1], 0) /\ ~ ThinkingBegun(r[k + 1], 0)
  BY BegunNothing
<1> QED
  BY <1>1, <1>2, <1>3, <1>4, <1>5, <1>7, <1>8 DEF Stage

-----------------------------------------------------------------------------
(* The events of an item, one lemma for each handler                        *)

\* The upstream sends a response that both conversions treat alike.
Sending ==
    /\ output \in Responses
    /\ streamed \in [DOMAIN output -> BOOLEAN]
    /\ at \in 1 .. Len(output)
    /\ sent \in Nat
    /\ ~ Different
    /\ Stage(output, streamed, bridge, at, sent)

\* What may come of an event: the bridge is n events into item k, or it refuses an
\* item that the whole conversion refuses too.
Advances(k, n) == \E c : Return(c) /\ Stage(output, streamed, c, k, n)
Refuses        == \E c : ReturnError(c) /\ ~ Okay(output[at])

\* The types of the response.
LEMMA ResponseFacts ==
    ASSUME output \in Responses
    PROVE  /\ IsResponse(output) /\ DOMAIN output = 1 .. Len(output) /\ Len(output) \in Nat
           /\ Len(output) <= Len(Ids)
           /\ \A k \in 1 .. Len(output) : /\ 0 .. (Len(output[k].parts) - 1) \subseteq Parts
                                          /\ Cardinality(KnownParts(output[k])) <= MaxBlocks
<1>1. output \in Seq(Message!OutputItem)
  BY AgreementAssumption
<1>2. DOMAIN output = 1 .. Len(output) /\ Len(output) \in Nat
  BY <1>1
<1>3. /\ Len(output) <= Len(Ids)
      /\ \A k \in DOMAIN output : /\ 0 .. (Len(output[k].parts) - 1) \subseteq Parts
                                  /\ Cardinality(Message!known(output[k].parts)) <= MaxBlocks
  BY AgreementAssumption
<1> QED
  BY <1>1, <1>2, <1>3 DEF IsResponse, KnownParts

\* The types of the item the upstream is sending.
LEMMA SendingFacts ==
    ASSUME Sending
    PROVE  /\ Item(output, at) /\ output[at] \in Message!OutputItem /\ at \in DOMAIN output
           /\ streamed[at] \in BOOLEAN
           /\ bridge \in Bridge
           /\ Ids[at] \in Items /\ Ids[at] \in ItemIds /\ Ids[at] \in Owners /\ Ids[at] # NoItem
           /\ at - 1 \in Outputs
           /\ 0 .. (Len(output[at].parts) - 1) \subseteq Parts
           /\ Cardinality(KnownParts(output[at])) <= MaxBlocks
           /\ Knows(bridge, Ids[at], output[at], sent)
<1>1. /\ IsResponse(output) /\ DOMAIN output = 1 .. Len(output) /\ Len(output) \in Nat
      /\ Len(output) <= Len(Ids)
      /\ 0 .. (Len(output[at].parts) - 1) \subseteq Parts
      /\ Cardinality(KnownParts(output[at])) <= MaxBlocks
  BY ResponseFacts DEF Sending
<1>2. Item(output, at) /\ at \in DOMAIN output /\ at \in at .. Len(output)
  BY <1>1 DEF Sending, Item
<1>3. /\ output[at] \in Message!OutputItem /\ Ids[at] \in Items /\ Ids[at] \in ItemIds
      /\ Ids[at] \in Owners /\ Ids[at] # NoItem /\ at - 1 \in Outputs
  BY <1>2, ItemFacts
<1>4. streamed[at] \in BOOLEAN /\ bridge \in Bridge
  BY <1>2 DEF Sending, Stage
<1>5. Knows(bridge, Ids[at], output[at], sent)
  BY <1>2 DEF Sending, Stage
<1> QED
  BY <1>1, <1>2, <1>3, <1>4, <1>5

\* An event that begins nothing and of which nothing is shown.
LEMMA AdvancesIdle ==
    ASSUME Sending, NEW c, Yields(bridge, c, << >>), Return(c), Idle(output[at], sent)
    PROVE  Advances(at, sent + 1)
<1>1. Stage(output, streamed, c, at, sent + 1)
  BY SendingFacts, NextIdle DEF Sending
<1> QED
  BY <1>1 DEF Advances

\* The announcement of an item begins no thinking and no part.
LEMMA FirstEvent ==
    ASSUME NEW item
    PROVE  ~ ThinkingBegun(item, 1) /\ PartsBegun(item, 1) = {}
  BY DEF ThinkingBegun, PartsBegun

\* The announcement of an item that is no call and no commentary begins nothing.
LEMMA FirstIdle ==
    ASSUME NEW item, ~ OpensTool(item), ~ (item.type = "message" /\ item.commentary)
    PROVE  Idle(item, 0)
<1>1. 0 + 1 = 1
  OBVIOUS
<1>2. ~ ToolBegun(item, 1) /\ ~ IsIgnored(item, 1)
  BY DEF ToolBegun, IsIgnored
<1>3. ~ ThinkingBegun(item, 1) /\ PartsBegun(item, 1) = {}
  BY FirstEvent
<1>4. /\ ~ ToolBegun(item, 0) /\ ~ IsIgnored(item, 0) /\ ~ ThinkingBegun(item, 0)
      /\ PartsBegun(item, 0) = {}
  BY BegunNothing
<1> QED
  BY <1>1, <1>2, <1>3, <1>4 DEF Idle

\* output_item.added of a commentary message.
LEMMA CommentaryAdded ==
    ASSUME Sending, sent = 0, output[at].type = "message", output[at].commentary,
           CommentaryItemAdded(Ids[at])
    PROVE  Advances(at, 1)
<1> DEFINE x == Ids[at]
           item == output[at]
           c == [bridge EXCEPT !.ignoredMessageItemID = @ \cup {x}]
<1>1. Return(c)
  BY DEF CommentaryItemAdded
<1>2. x \in ItemIds /\ bridge \in Bridge /\ Item(output, at) /\ Knows(bridge, x, item, 0)
      /\ item \in Message!OutputItem
  BY SendingFacts
<1>3. bridge.ignoredMessageItemID \cup {x} \in SUBSET ItemIds
  BY <1>2 DEF Bridge
<1>4. /\ c \in Bridge /\ c.out = bridge.out /\ c.ignoredMessageItemID = bridge.ignoredMessageItemID \cup {x}
      /\ c.textIndexByKey = bridge.textIndexByKey /\ c.toolIndexByItemID = bridge.toolIndexByItemID
      /\ c.toolUsed = bridge.toolUsed /\ c.thinkingIndex = bridge.thinkingIndex
      /\ c.webSearchEmitted = bridge.webSearchEmitted
      /\ c.serverToolUseCount = bridge.serverToolUseCount
  BY <1>2, <1>3 DEF Bridge
<1> HIDE DEF c
<1>5. ~ OpensTool(item)
  BY DEF OpensTool, DirectTools, ConvertedTools
<1>6. ~ ToolBegun(item, 1) /\ IsIgnored(item, 1) /\ ~ ThinkingBegun(item, 1) /\ PartsBegun(item, 1) = {}
  BY <1>5, FirstEvent DEF ToolBegun, IsIgnored
<1>7. Begun(item, 1) = << >> /\ Begun(item, 0) = << >>
  BY <1>6, BegunNothing, FS_EmptySet DEF Begun, Texts
<1>8. Begun(item, 0 + 1) = Begun(item, 0) \o << >> /\ << >> \in Seq(BlockTypes)
  <2>1. << >> \o << >> = << >>
    BY EmptyTyped
  <2> QED
    BY <1>7, <2>1, EmptyTyped
<1>9. Shows(c) = Shows(bridge) \o << >>
  <2>1. Shows(c) = Shows(bridge)
    BY <1>4 DEF Shows
  <2> QED
    BY <1>2, <2>1, ShowsTyped
<1>10. /\ c.toolUsed <=> bridge.toolUsed \/ ToolBegun(item, 0 + 1)
       /\ thinkingStarted(c) <=> thinkingStarted(bridge) \/ ThinkingBegun(item, 0 + 1)
  BY <1>4, <1>6 DEF thinkingStarted, Bridge
<1>11. Elsewhere(bridge, c, x)
  BY <1>4 DEF Elsewhere
<1>12. Knows(c, x, item, 0 + 1)
  BY <1>2, <1>4, <1>6, BegunNothing DEF Knows
<1>13. Stage(output, streamed, c, at, 0 + 1)
  BY <1>2, <1>4, <1>8, <1>9, <1>10, <1>11, <1>12, NextEvent DEF Sending
<1> QED
  BY <1>1, <1>13 DEF Advances, c

\* output_item.added of a call.
LEMMA ToolAdded ==
    ASSUME Sending, sent = 0, OpensTool(output[at]), ToolItemAdded(Ids[at], at - 1)
    PROVE  Advances(at, 1)
<1> DEFINE x == Ids[at]
           item == output[at]
           e == ensureMessageStart(bridge)
           o == openBlock(e, "tool_use", x)
           c == openToolBlock(e, x, at - 1)
           byItem == [o.toolIndexByItemID EXCEPT ![x] = e.nextIndex]
           byOutput == [o.toolIndexByOutput EXCEPT ![at - 1] = e.nextIndex]
<1>1. Return(c)
  BY DEF ToolItemAdded
<1>2. /\ x \in ItemIds /\ x \in Owners /\ at - 1 \in Outputs /\ bridge \in Bridge
      /\ Item(output, at) /\ Knows(bridge, x, item, 0) /\ item \in Message!OutputItem
  BY SendingFacts
<1>3. Yields(bridge, e, << >>) /\ e \in Bridge /\ e.nextIndex \in Nat
  BY <1>2, YieldsEnsure DEF Yields, Kept, Bridge
<1>4. Yields(bridge, o, <<"tool_use">>) /\ o \in Bridge
  <2> HIDE DEF e
  <2>1. "tool_use" \in BlockTypes /\ "tool_use" # "refusal"
    BY DEF BlockTypes
  <2>2. Yields(e, o, <<"tool_use">>)
    BY <1>2, <1>3, <2>1, YieldsOpen
  <2> HIDE DEF o
  <2>3. Yields(bridge, o, <<"tool_use">>)
    BY <1>2, <1>3, <2>2, YieldsAfter
  <2> QED
    BY <2>3 DEF Yields, Kept
<1>5. c = [o EXCEPT !.toolIndexByItemID = byItem, !.toolIndexByOutput = byOutput, !.toolUsed = TRUE]
  <2> HIDE DEF e
  <2>1. o = [o EXCEPT !.out = @]
    BY DEF openBlock, sendEvent
  <2> QED
    BY <1>3, <1>4 DEF openToolBlock, o, Bridge
<1> HIDE DEF o, c
<1>6. byItem \in [ItemIds -> Index] /\ byOutput \in [Outputs -> Index]
  BY <1>3, <1>4 DEF Bridge, Index
<1>7. /\ c \in Bridge /\ c.out = o.out /\ c.toolIndexByItemID = byItem /\ c.toolUsed
      /\ c.ignoredMessageItemID = o.ignoredMessageItemID /\ c.textIndexByKey = o.textIndexByKey
      /\ c.thinkingIndex = o.thinkingIndex /\ c.webSearchEmitted = o.webSearchEmitted
      /\ c.serverToolUseCount = o.serverToolUseCount
  <2> HIDE DEF byItem, byOutput
  <2> QED
    BY <1>4, <1>5, <1>6 DEF Bridge
<1>8. /\ c.ignoredMessageItemID = bridge.ignoredMessageItemID
      /\ c.textIndexByKey = bridge.textIndexByKey /\ c.thinkingIndex = bridge.thinkingIndex
      /\ c.webSearchEmitted = bridge.webSearchEmitted
      /\ c.serverToolUseCount = bridge.serverToolUseCount
      /\ o.toolIndexByItemID = bridge.toolIndexByItemID
  BY <1>4, <1>7 DEF Yields, Kept
<1>9. c.toolIndexByItemID = [bridge.toolIndexByItemID EXCEPT ![x] = e.nextIndex]
  BY <1>7, <1>8
<1>10. bridge.toolIndexByItemID \in [ItemIds -> Index]
  BY <1>2 DEF Bridge
<1>11. /\ c.toolIndexByItemID[x] # Absent
       /\ \A y \in ItemIds : y # x => c.toolIndexByItemID[y] = bridge.toolIndexByItemID[y]
  <2> HIDE DEF e, x
  <2> QED
    BY <1>2, <1>3, <1>9, <1>10 DEF Absent
<1>12. ~ IsIgnored(item, 1) /\ ToolBegun(item, 1) /\ ~ ThinkingBegun(item, 1) /\ PartsBegun(item, 1) = {}
  BY FirstEvent DEF ToolBegun, IsIgnored, OpensTool, DirectTools, ConvertedTools
<1>13. 0 + 1 = 1
  OBVIOUS
<1>14. Begun(item, 0 + 1) = Begun(item, 0) \o <<"tool_use">>
  <2>1. << >> \o <<"tool_use">> = <<"tool_use">>
    OBVIOUS
  <2> QED
    BY <1>12, <1>13, <2>1, BegunNothing DEF Begun
<1>15. Shows(c) = Shows(bridge) \o <<"tool_use">> /\ <<"tool_use">> \in Seq(BlockTypes)
  <2>1. Shows(c) = Shows(o)
    BY <1>7 DEF Shows
  <2> QED
    BY <1>4, <2>1 DEF Yields
<1>16. /\ c.toolUsed <=> bridge.toolUsed \/ ToolBegun(item, 0 + 1)
       /\ thinkingStarted(c) <=> thinkingStarted(bridge) \/ ThinkingBegun(item, 0 + 1)
  BY <1>7, <1>8, <1>12, <1>13 DEF thinkingStarted
<1>17. Elsewhere(bridge, c, x)
  BY <1>8, <1>11 DEF Elsewhere
<1>18. Knows(c, x, item, 0 + 1)
  BY <1>2, <1>8, <1>11, <1>12, <1>13, BegunNothing DEF Knows
<1>19. Stage(output, streamed, c, at, 0 + 1)
  BY <1>2, <1>7, <1>8, <1>14, <1>15, <1>16, <1>17, <1>18, NextEvent DEF Sending
<1> QED
  BY <1>1, <1>13, <1>19 DEF Advances

\* An item is a call for both conversions or for none.
LEMMA CallsAre ==
    /\ DirectTools \cup ConvertedTools = Calls
    /\ ResultTools = Message!ResultCalls
    /\ Message!ResultCalls \cap Message!PlainCalls = {}
    /\ {"message", "reasoning", "web_search_call", "compaction", "image_generation_call",
        "unrecognized", "blank"} \cap Calls = {}
    /\ Message!ToolOutputs \cap Calls = {}
<1> USE DEF DirectTools, ConvertedTools, ResultTools, Calls, Message!PlainCalls,
            Message!ResultCalls, Message!ToolOutputs
<1>1. DirectTools \cup ConvertedTools = Calls
  OBVIOUS
<1>2. ResultTools = Message!ResultCalls /\ Message!ResultCalls \cap Message!PlainCalls = {}
  OBVIOUS
<1>3. {"message", "reasoning", "web_search_call", "compaction", "image_generation_call",
       "unrecognized", "blank"} \cap Calls = {} /\ Message!ToolOutputs \cap Calls = {}
  OBVIOUS
<1> QED
  BY <1>1, <1>2, <1>3

\* A call whose converter fails is refused by both conversions.
LEMMA BrokenCall ==
    ASSUME NEW item \in Message!OutputItem, item.type \in Calls
    PROVE  /\ Message!toolCallToBlock(item).ok <=> item.body # "malformed"
           /\ Okay(item) => Message!toolCallToBlock(item).ok
<1>1. CASE item.type \in Message!PlainCalls
  BY <1>1, ConvertsCall
<1>2. CASE item.type \in Message!ResultCalls
  BY <1>2, ConvertsResultCall
<1> QED
  BY <1>1, <1>2 DEF Calls

\* output_item.added.
LEMMA ItemAdded ==
    ASSUME Sending, sent = 0, streamed[at], HandleAdded(Ids[at], at - 1, output[at])
    PROVE  Advances(at, 1) \/ Refuses
<1> DEFINE x == Ids[at]
           item == output[at]
           e == ensureMessageStart(bridge)
<1>1. /\ bridge \in Bridge /\ item \in Message!OutputItem /\ Knows(bridge, x, item, 0)
      /\ at \in DOMAIN output
  BY SendingFacts
<1>2. Yields(bridge, e, << >>) /\ e \in Bridge /\ e.webSearchEmitted = bridge.webSearchEmitted
  BY <1>1, YieldsEnsure DEF Yields, Kept
<1> HIDE DEF e
<1>3. ASSUME ~ OpensTool(item), ~ (item.type = "message" /\ item.commentary), Return(e)
      PROVE  Advances(at, 1)
  <2>1. Idle(item, sent)
    BY <1>3, FirstIdle
  <2>2. Advances(at, sent + 1) /\ sent + 1 = 1
    BY <1>2, <1>3, <2>1, AdvancesIdle
  <2> QED
    BY <2>2
<1>4. CASE item.type = "message" /\ item.commentary
  <2>1. CommentaryItemAdded(x)
    BY <1>4 DEF HandleAdded, DirectTools, ConvertedTools
  <2> QED
    BY <1>4, <2>1, CommentaryAdded
<1>5. CASE item.type \in DirectTools
  <2>1. ToolItemAdded(x, at - 1)
    BY <1>5 DEF HandleAdded, DirectTools, ConvertedTools
  <2> QED
    BY <1>5, <2>1, ToolAdded DEF OpensTool
<1>6. CASE item.type \in ConvertedTools /\ Message!toolCallToBlock(item).ok
  <2>1. ToolItemAdded(x, at - 1)
    BY <1>6 DEF HandleAdded, DirectTools, ConvertedTools
  <2> QED
    BY <1>6, <2>1, ToolAdded DEF OpensTool
<1>7. CASE item.type \in ConvertedTools /\ ~ Message!toolCallToBlock(item).ok
  <2>1. UnsupportedItemAdded
    BY <1>7 DEF HandleAdded, DirectTools, ConvertedTools
  <2>2. ~ OpensTool(item) /\ ~ (item.type = "message" /\ item.commentary)
    BY <1>7 DEF OpensTool, DirectTools, ConvertedTools
  <2>3. ~ Okay(item)
    BY <1>1, <1>7, BrokenCall, CallsAre
  <2>4. ReturnError(e) \/ Return(e)
    BY <2>1 DEF UnsupportedItemAdded, ReturnErrorIfStrict, e
  <2> QED
    BY <1>3, <2>2, <2>3, <2>4 DEF Refuses
<1>8. CASE item.type = "web_search_call"
  <2>1. WebSearchItemAdded(x)
    BY <1>8 DEF HandleAdded, DirectTools, ConvertedTools
  <2>2. x \notin e.webSearchEmitted
    BY <1>1, <1>2 DEF Knows
  <2>3. e.webSearchEmitted \ {x} = e.webSearchEmitted
    BY <2>2
  <2>4. [e EXCEPT !.webSearchEmitted = @ \ {x}] = e
    BY <1>2, <2>3 DEF Bridge
  <2>5. Return(e)
    BY <2>1, <2>4 DEF WebSearchItemAdded, e
  <2>6. ~ OpensTool(item) /\ ~ (item.type = "message" /\ item.commentary)
    BY <1>8 DEF OpensTool, DirectTools, ConvertedTools
  <2> QED
    BY <1>3, <2>5, <2>6
<1>9. CASE item.type = "unrecognized"
  <2>1. UnsupportedItemAdded
    BY <1>9 DEF HandleAdded, DirectTools, ConvertedTools
  <2>2. ~ Strict
    BY <1>1, <1>9 DEF Sending, Different, StrictDiffers
  <2>3. Return(e)
    BY <2>1, <2>2 DEF UnsupportedItemAdded, ReturnErrorIfStrict, e
  <2>4. ~ OpensTool(item) /\ ~ (item.type = "message" /\ item.commentary)
    BY <1>9 DEF OpensTool, DirectTools, ConvertedTools
  <2> QED
    BY <1>3, <2>3, <2>4
<1>10. CASE /\ ~ (item.type = "message" /\ item.commentary)
            /\ item.type \notin DirectTools \cup ConvertedTools
            /\ item.type \notin {"web_search_call", "unrecognized", "blank"}
  <2>1. PassiveItemAdded
    BY <1>10 DEF HandleAdded
  <2>2. Return(e)
    BY <2>1 DEF PassiveItemAdded, e
  <2>3. ~ OpensTool(item)
    BY <1>10 DEF OpensTool
  <2> QED
    BY <1>3, <1>10, <2>2, <2>3
<1>11. CASE item.type = "blank"
  <2>1. UnsupportedItemAdded
    BY <1>11 DEF HandleAdded, DirectTools, ConvertedTools
  <2>2. Strict /\ ~ Okay(item)
    BY <1>1, <1>11, ConvertsOther DEF Sending, Different, BlankItem
  <2>3. ReturnError(e)
    BY <2>1, <2>2 DEF UnsupportedItemAdded, ReturnErrorIfStrict, e
  <2> QED
    BY <2>2, <2>3 DEF Refuses
<1> QED
  BY <1>4, <1>5, <1>6, <1>7, <1>8, <1>9, <1>10, <1>11

\* Reasoning begins no call, no part, and is never ignored.
LEMMA ReasoningBegins ==
    ASSUME NEW item, item.type = "reasoning", NEW n
    PROVE  /\ ~ ToolBegun(item, n) /\ ~ IsIgnored(item, n) /\ PartsBegun(item, n) = {}
           /\ Begun(item, n) = IF ThinkingBegun(item, n) THEN <<"thinking">> ELSE << >>
<1>1. ~ ToolBegun(item, n) /\ ~ IsIgnored(item, n) /\ PartsBegun(item, n) = {}
  BY DEF ToolBegun, IsIgnored, PartsBegun, OpensTool, DirectTools, ConvertedTools
<1>2. Texts(0) = << >>
  BY DEF Texts
<1> QED
  BY <1>1, <1>2, FS_EmptySet DEF Begun

\* reasoning_text.delta, the first that is streamed.
LEMMA ThinkingSent ==
    ASSUME Sending, sent = 1, streamed[at], output[at].type = "reasoning",
           output[at].body = "some", ReasoningDelta(Ids[at])
    PROVE  Advances(at, 2)
<1> DEFINE x == Ids[at]
           item == output[at]
           e == ensureMessageStart(bridge)
           o == openBlock(e, "thinking", x)
           t == startThinkingBlock(e, x)
           c == sendEvent(t, BlockDelta(t.thinkingIndex, "thinking_delta", x))
<1>1. /\ x \in ItemIds /\ x \in Owners /\ bridge \in Bridge
      /\ Item(output, at) /\ Knows(bridge, x, item, 1) /\ item \in Message!OutputItem
      /\ at \in DOMAIN output
  BY SendingFacts
<1>2. Yields(bridge, e, << >>) /\ e \in Bridge /\ e.nextIndex \in Nat
  BY <1>1, YieldsEnsure DEF Yields, Kept, Bridge
<1>3. ~ thinkingStarted(bridge)
  <2>1. ~ StreamedThinking(output, streamed, at - 1)
    <3> SUFFICES ASSUME NEW j \in 1 .. (at - 1), streamed[j], output[j].type = "reasoning",
                        output[j].body = "some"
                 PROVE  FALSE
      BY DEF StreamedThinking
    <3>1. j \in DOMAIN output /\ j < at
      BY <1>1 DEF Item, IsResponse
    <3>2. item.body # "none"
      OBVIOUS
    <3>3. ReasoningMerged
      BY <1>1, <3>1, <3>2 DEF ReasoningMerged
    <3> QED
      BY <3>3 DEF Sending, Different
  <2>2. ~ ThinkingBegun(item, 1)
    BY DEF ThinkingBegun
  <2> QED
    BY <2>1, <2>2 DEF Sending, Stage
<1>4. e.thinkingIndex = bridge.thinkingIndex
  BY <1>2 DEF Yields, Kept
<1>5. Return(c)
  BY <1>3, <1>4 DEF ReasoningDelta, thinkingStarted
<1>6. Yields(bridge, o, <<"thinking">>) /\ o \in Bridge
  <2> HIDE DEF e
  <2>1. "thinking" \in BlockTypes /\ "thinking" # "refusal"
    BY DEF BlockTypes
  <2>2. Yields(e, o, <<"thinking">>)
    BY <1>1, <1>2, <2>1, YieldsOpen
  <2> HIDE DEF o
  <2>3. Yields(bridge, o, <<"thinking">>)
    BY <1>1, <1>2, <2>2, YieldsAfter
  <2> QED
    BY <2>3 DEF Yields, Kept
<1>7. t = [o EXCEPT !.thinkingIndex = e.nextIndex]
  BY DEF startThinkingBlock
<1> HIDE DEF o, t, c
<1>8. /\ t \in Bridge /\ t.out = o.out /\ t.thinkingIndex = e.nextIndex
      /\ t.ignoredMessageItemID = o.ignoredMessageItemID /\ t.textIndexByKey = o.textIndexByKey
      /\ t.toolIndexByItemID = o.toolIndexByItemID /\ t.toolUsed = o.toolUsed
      /\ t.webSearchEmitted = o.webSearchEmitted /\ t.serverToolUseCount = o.serverToolUseCount
  <2>1. e.nextIndex \in Index
    BY <1>2 DEF Index
  <2> QED
    BY <1>6, <1>7, <2>1 DEF Bridge
<1>9. Yields(t, c, << >>)
  <2>1. "thinking_delta" \in Details /\ t.thinkingIndex \in Nat
    BY <1>2, <1>8 DEF Details
  <2> QED
    BY <1>1, <1>8, <2>1, YieldsDelta DEF c
<1>10. /\ c \in Bridge /\ c.thinkingIndex \in Nat
       /\ c.ignoredMessageItemID = bridge.ignoredMessageItemID
       /\ c.textIndexByKey = bridge.textIndexByKey
       /\ c.toolIndexByItemID = bridge.toolIndexByItemID /\ c.toolUsed = bridge.toolUsed
       /\ c.webSearchEmitted = bridge.webSearchEmitted
       /\ c.serverToolUseCount = bridge.serverToolUseCount
  <2>1. /\ o.ignoredMessageItemID = bridge.ignoredMessageItemID
        /\ o.textIndexByKey = bridge.textIndexByKey
        /\ o.toolIndexByItemID = bridge.toolIndexByItemID /\ o.toolUsed = bridge.toolUsed
        /\ o.webSearchEmitted = bridge.webSearchEmitted
        /\ o.serverToolUseCount = bridge.serverToolUseCount
    BY <1>6 DEF Yields, Kept
  <2> QED
    BY <1>2, <1>8, <1>9, <2>1 DEF Yields, Kept
<1>11. Shows(c) = Shows(bridge) \o <<"thinking">> /\ <<"thinking">> \in Seq(BlockTypes)
  <2>1. Shows(t) = Shows(o) /\ Shows(o) = Shows(bridge) \o <<"thinking">>
    BY <1>6, <1>8 DEF Shows, Yields
  <2>2. Shows(c) = Shows(t)
    <3>1. Shows(t) \in Seq(Details) /\ Shows(c) = Shows(t) \o << >>
      BY <1>8, <1>9, ShowsTyped DEF Yields
    <3> QED
      BY <3>1
  <2>3. <<"thinking">> \in Seq(BlockTypes)
    BY <1>6 DEF Yields
  <2> QED
    BY <2>1, <2>2, <2>3
<1>12. ThinkingBegun(item, 1 + 1) /\ ~ ThinkingBegun(item, 1) /\ 1 + 1 = 2
  BY DEF ThinkingBegun
<1>13. /\ \A n : ~ ToolBegun(item, n) /\ ~ IsIgnored(item, n) /\ PartsBegun(item, n) = {}
       /\ \A n : Begun(item, n) = IF ThinkingBegun(item, n) THEN <<"thinking">> ELSE << >>
  BY ReasoningBegins
<1>14. Begun(item, 1 + 1) = Begun(item, 1) \o <<"thinking">>
  <2>1. << >> \o <<"thinking">> = <<"thinking">>
    OBVIOUS
  <2> QED
    BY <1>12, <1>13, <2>1
<1>15. /\ c.toolUsed <=> bridge.toolUsed \/ ToolBegun(item, 1 + 1)
       /\ thinkingStarted(c) <=> thinkingStarted(bridge) \/ ThinkingBegun(item, 1 + 1)
  BY <1>10, <1>12, <1>13 DEF thinkingStarted, Absent
<1>16. Elsewhere(bridge, c, x)
  BY <1>10 DEF Elsewhere
<1>17. Knows(c, x, item, 1 + 1)
  BY <1>1, <1>10, <1>13 DEF Knows
<1>18. Stage(output, streamed, c, at, 1 + 1)
  BY <1>1, <1>10, <1>11, <1>14, <1>15, <1>16, <1>17, NextEvent DEF Sending
<1> QED
  BY <1>5, <1>12, <1>18 DEF Advances

\* reasoning_text.done.
LEMMA ThinkingDone ==
    ASSUME Sending, sent = 2, output[at].type = "reasoning", ReasoningTextDone
    PROVE  Advances(at, 3)
<1> DEFINE item == output[at]
           c == IF thinkingStarted(bridge) THEN closeThinkingBlock(bridge) ELSE bridge
<1>1. bridge \in Bridge
  BY SendingFacts
<1>2. Yields(bridge, c, << >>)
  BY <1>1, YieldsNothing, YieldsCloseThinking
<1>3. Return(c)
  BY DEF ReasoningTextDone
<1>4. 2 + 1 = 3 /\ (ThinkingBegun(item, 3) <=> ThinkingBegun(item, 2))
  BY DEF ThinkingBegun
<1>5. Idle(item, 2)
  BY <1>4, ReasoningBegins DEF Idle
<1> QED
  BY <1>2, <1>3, <1>4, <1>5, AdvancesIdle

\* The events of the arguments of a call whose block is open.
LEMMA ArgumentsSent ==
    ASSUME Sending, sent \in {1, 2}, output[at].type \in {"function_call", "mcp_call"},
           ToolArgumentsDelta(Ids[at], at - 1) \/ ToolArgumentsDone(Ids[at], at - 1)
    PROVE  Advances(at, sent + 1)
<1> DEFINE x == Ids[at]
           item == output[at]
           i == bridge.toolIndexByItemID[x]
           c == sendEvent(bridge, BlockDelta(i, "input_json_delta", x))
           d == closeContentBlock(bridge, i)
<1>1. bridge \in Bridge /\ x \in ItemIds /\ x \in Owners /\ Knows(bridge, x, item, sent)
  BY SendingFacts
<1>2. ToolBegun(item, sent) /\ ToolBegun(item, sent + 1)
  BY DEF ToolBegun, OpensTool, DirectTools
<1>3. i \in Nat
  BY <1>1, <1>2 DEF Knows, Bridge, Index
<1>4. toolIndex(bridge, x, at - 1) = i /\ i # Absent /\ owner(x, at - 1) = x
  <2>1. x # NoItem
    BY SendingFacts, BridgeAssumption
  <2> QED
    BY <1>3, <2>1 DEF toolIndex, Absent, owner
<1>5. Return(c) \/ Return(d)
  BY <1>4 DEF ToolArgumentsDelta, ToolArgumentsDone
<1>6. Yields(bridge, c, << >>) /\ Yields(bridge, d, << >>)
  <2>1. "input_json_delta" \in Details
    BY DEF Details
  <2> QED
    BY <1>1, <1>3, <2>1, YieldsDelta, YieldsClose
<1>7. /\ ~ IsIgnored(item, sent) /\ ~ IsIgnored(item, sent + 1)
      /\ ~ ThinkingBegun(item, sent) /\ ~ ThinkingBegun(item, sent + 1)
      /\ PartsBegun(item, sent) = {} /\ PartsBegun(item, sent + 1) = {}
  BY DEF IsIgnored, ThinkingBegun, PartsBegun
<1>8. Idle(item, sent)
  BY <1>2, <1>7 DEF Idle
<1> HIDE DEF c, d
<1> QED
  BY <1>5, <1>6, <1>8, AdvancesIdle

\* ensureTextBlock opens the block of a part at most once.
LEMMA TextEnsured ==
    ASSUME NEW b \in Bridge, NEW key \in Keys, NEW what \in {"text", "refusal"}
    PROVE  LET c == ensureTextBlock(b, key, what)
           IN  /\ c \in Bridge /\ c.textIndexByKey[key] \in Nat
               /\ b.textIndexByKey[key] # Absent => c = b
               /\ b.textIndexByKey[key] = Absent => Shows(c) = Shows(b) \o <<"text">>
               /\ \A other \in Keys : other # key => c.textIndexByKey[other] = b.textIndexByKey[other]
               /\ c.ignoredMessageItemID = b.ignoredMessageItemID
               /\ c.toolIndexByItemID = b.toolIndexByItemID
               /\ c.toolUsed = b.toolUsed
               /\ c.thinkingIndex = b.thinkingIndex
               /\ c.webSearchEmitted = b.webSearchEmitted
               /\ c.serverToolUseCount = b.serverToolUseCount
<1> DEFINE o == openBlock(b, what, key[1])
           c == ensureTextBlock(b, key, what)
           byKey == [o.textIndexByKey EXCEPT ![key] = b.nextIndex]
<1>1. b.textIndexByKey \in [Keys -> Index] /\ b.nextIndex \in Nat
  BY DEF Bridge
<1>2. CASE b.textIndexByKey[key] # Absent
  <2>1. c = b /\ b.textIndexByKey[key] \in Nat
    BY <1>1, <1>2 DEF ensureTextBlock, Index
  <2> QED
    BY <1>2, <2>1
<1>3. CASE b.textIndexByKey[key] = Absent
  <2>1. Yields(b, o, <<"text">>)
    <3>1. key[1] \in Owners /\ "text" \in BlockTypes
      BY DEF Keys, BlockTypes
    <3>2. Yields(b, o, <<IF what = "refusal" THEN "text" ELSE what>>)
      BY <3>1, YieldsOpen
    <3> QED
      BY <3>2
  <2>2. c = [o EXCEPT !.textIndexByKey = byKey]
    <3>1. o.textIndexByKey = b.textIndexByKey /\ o \in Bridge
      BY <2>1 DEF Yields, Kept
    <3> QED
      BY <1>3, <3>1 DEF ensureTextBlock, Bridge
  <2> HIDE DEF o, c
  <2>3. o \in Bridge /\ o.textIndexByKey = b.textIndexByKey
    BY <2>1 DEF Yields, Kept
  <2>4. byKey \in [Keys -> Index]
    BY <1>1, <2>3 DEF Index
  <2>5. /\ c \in Bridge /\ c.out = o.out /\ c.textIndexByKey = byKey
        /\ c.ignoredMessageItemID = o.ignoredMessageItemID
        /\ c.toolIndexByItemID = o.toolIndexByItemID /\ c.toolUsed = o.toolUsed
        /\ c.thinkingIndex = o.thinkingIndex /\ c.webSearchEmitted = o.webSearchEmitted
        /\ c.serverToolUseCount = o.serverToolUseCount
    <3> HIDE DEF byKey
    <3> QED
      BY <2>2, <2>3, <2>4 DEF Bridge
  <2>6. /\ c.textIndexByKey[key] = b.nextIndex
        /\ \A other \in Keys : other # key => c.textIndexByKey[other] = b.textIndexByKey[other]
    BY <1>1, <2>3, <2>5
  <2>7. Shows(c) = Shows(b) \o <<"text">>
    BY <2>1, <2>5 DEF Shows, Yields
  <2>8. /\ c.ignoredMessageItemID = b.ignoredMessageItemID
        /\ c.toolIndexByItemID = b.toolIndexByItemID /\ c.toolUsed = b.toolUsed
        /\ c.thinkingIndex = b.thinkingIndex /\ c.webSearchEmitted = b.webSearchEmitted
        /\ c.serverToolUseCount = b.serverToolUseCount
    BY <2>1, <2>5 DEF Yields, Kept
  <2> QED
    BY <1>1, <1>3, <2>5, <2>6, <2>7, <2>8 DEF c
<1> QED
  BY <1>2, <1>3

\* Each event of a message that may open a block begins its part.
LEMMA PartsGrow ==
    ASSUME NEW item \in Message!OutputItem, item.type = "message", ~ item.commentary,
           NEW n \in 1 .. Len(MessageEvents(item.parts))
    PROVE  LET event == MessageEvents(item.parts)[n]
           IN  PartsBegun(item, n + 1)
                  = PartsBegun(item, n) \cup IF event.name \in Openers THEN {event.part} ELSE {}
<1> DEFINE e == MessageEvents(item.parts)
           Before(m) == {j \in 1 .. Len(e) : j <= m - 1 /\ e[j].name \in Openers}
<1>1. Len(e) \in Nat
  <2>1. item.parts \in Seq(Message!MessageParts)
    BY DEF Message!OutputItem
  <2>2. e \in Seq(PartEvent)
    BY <2>1, MessageEventsAre DEF EventsOf
  <2> QED
    BY <2>2
<1>2. n \in Nat /\ n >= 1 /\ n + 1 >= 1 /\ (n + 1) - 1 = n
  BY <1>1
<1> HIDE DEF e
<1>3. /\ PartsBegun(item, n) = {e[i].part : i \in Before(n)}
      /\ PartsBegun(item, n + 1) = {e[i].part : i \in Before(n + 1)}
  BY <1>2 DEF PartsBegun, e
<1>4. Before(n + 1) = Before(n) \cup IF e[n].name \in Openers THEN {n} ELSE {}
  <2>1. n \in 1 .. Len(e)
    BY DEF e
  <2>2. \A j \in 1 .. Len(e) : j <= (n + 1) - 1 <=> (j <= n - 1 \/ j = n)
    BY <1>1, <1>2
  <2> QED
    BY <2>1, <2>2
<1> HIDE DEF Before
<1> QED
  BY <1>3, <1>4 DEF e

\* One text block more.
LEMMA TextsGrow ==
    ASSUME NEW n \in Nat
    PROVE  Texts(n) \in Seq(BlockTypes) /\ Texts(n + 1) = Texts(n) \o <<"text">>
<1> DEFINE T == Seq(BlockTypes)
           s == Texts(n)
           t == Texts(n + 1)
           u == s \o <<"text">>
<1>1. "text" \in BlockTypes
  BY DEF BlockTypes
<1>2. s \in T /\ t \in T /\ Len(s) = n /\ Len(t) = n + 1
  BY <1>1 DEF Texts
<1>3. (\A k \in 1 .. n : s[k] = "text") /\ \A k \in 1 .. (n + 1) : t[k] = "text"
  BY DEF Texts
<1> HIDE DEF s, t
<1>4. u \in T /\ Len(u) = n + 1 /\ \A k \in 1 .. (n + 1) : u[k] = "text"
  BY <1>1, <1>2, <1>3
<1> HIDE DEF u
<1>5. t = u
  BY <1>2, <1>3, <1>4
<1> QED
  BY <1>2, <1>5 DEF s, t, u

\* The upstream sends an event of a message, and the bridge handles it.
PartEventSent ==
    /\ Sending
    /\ streamed[at]
    /\ output[at].type = "message"
    /\ sent \in 1 .. Len(MessageEvents(output[at].parts))

\* The event of a part fits it and is about a key of its own.
LEMMA PartFacts ==
    ASSUME PartEventSent
    PROVE  LET item == output[at]
               event == MessageEvents(item.parts)[sent]
           IN  /\ event \in PartEvent
               /\ event.part \in Parts
               /\ event.part + 1 \in DOMAIN item.parts
               /\ Fits(event.name, item.parts[event.part + 1])
               /\ <<Ids[at], event.part>> \in Keys
               /\ contentKey(Ids[at], at - 1, event.part) = <<Ids[at], event.part>>
               /\ sent \in Nat /\ sent >= 1
<1> DEFINE item == output[at]
           e == MessageEvents(item.parts)
<1>1. /\ item \in Message!OutputItem /\ 0 .. (Len(item.parts) - 1) \subseteq Parts
      /\ Ids[at] \in Owners /\ Ids[at] # NoItem
  BY SendingFacts DEF PartEventSent
<1>2. item.parts \in Seq(Message!MessageParts) /\ Len(item.parts) \in Nat
      /\ DOMAIN item.parts = 1 .. Len(item.parts)
  BY <1>1 DEF Message!OutputItem
<1>3. EventsOf(e, item.parts, Len(item.parts))
  BY <1>2, MessageEventsAre
<1>4. sent \in 1 .. Len(e)
  BY DEF PartEventSent
<1> HIDE DEF e
<1>5. e \in Seq(PartEvent) /\ e[sent] \in PartEvent
  BY <1>3, <1>4 DEF EventsOf
<1>6. e[sent].part \in 0 .. (Len(item.parts) - 1) /\ Fits(e[sent].name, item.parts[e[sent].part + 1])
  BY <1>3, <1>4 DEF EventsOf
<1>7. e[sent].part \in Parts /\ e[sent].part + 1 \in DOMAIN item.parts
  BY <1>1, <1>2, <1>6
<1>8. /\ <<Ids[at], e[sent].part>> \in Keys
      /\ contentKey(Ids[at], at - 1, e[sent].part) = <<Ids[at], e[sent].part>>
  BY <1>1, <1>7 DEF Keys, contentKey, owner
<1>9. sent \in Nat /\ sent >= 1
  BY <1>4, <1>5
<1> QED
  BY <1>5, <1>6, <1>7, <1>8, <1>9 DEF e

\* A message begins no call and no thinking.
LEMMA MessageBegins ==
    ASSUME NEW item, item.type = "message", NEW n
    PROVE  /\ ~ ToolBegun(item, n) /\ ~ ThinkingBegun(item, n)
           /\ Begun(item, n) = Texts(Cardinality(PartsBegun(item, n)))
           /\ item.commentary => PartsBegun(item, n) = {}
           /\ ~ item.commentary => ~ IsIgnored(item, n)
           /\ item.commentary /\ n >= 1 => IsIgnored(item, n)
<1>1. ~ ToolBegun(item, n) /\ ~ ThinkingBegun(item, n)
  BY DEF ToolBegun, ThinkingBegun, OpensTool, DirectTools, ConvertedTools
<1> QED
  BY <1>1 DEF Begun, PartsBegun, IsIgnored

\* An event of a part that opens its block, or would if it were not open, and then
\* shows nothing more.
LEMMA PartOpens ==
    ASSUME PartEventSent, ~ output[at].commentary,
           MessageEvents(output[at].parts)[sent].name \in Openers,
           NEW what \in {"text", "refusal"}, NEW c, Return(c),
           LET key == <<Ids[at], MessageEvents(output[at].parts)[sent].part>>
           IN  Yields(ensureTextBlock(ensureMessageStart(bridge), key, what), c, << >>)
    PROVE  Advances(at, sent + 1)
<1> DEFINE x == Ids[at]
           item == output[at]
           n == sent
           p == MessageEvents(item.parts)[sent].part
           key == <<x, p>>
           e == ensureMessageStart(bridge)
           t == ensureTextBlock(e, key, what)
           new == IF bridge.textIndexByKey[key] = Absent THEN <<"text">> ELSE << >>
<1>1. /\ Sending /\ Item(output, at) /\ item \in Message!OutputItem /\ bridge \in Bridge
      /\ x \in ItemIds /\ Knows(bridge, x, item, n) /\ item.type = "message"
  BY SendingFacts DEF PartEventSent
<1>2. p \in Parts /\ key \in Keys /\ n \in Nat /\ n >= 1
  BY PartFacts
<1>3. PartsBegun(item, n + 1) = PartsBegun(item, n) \cup {p}
  BY <1>1, PartsGrow DEF PartEventSent
<1> HIDE DEF p, n
<1>4. Yields(bridge, e, << >>) /\ e \in Bridge /\ e.textIndexByKey = bridge.textIndexByKey
  BY <1>1, YieldsEnsure DEF Yields, Kept
<1>5. Shows(e) = Shows(bridge) /\ Shows(e) \in Seq(Details)
  <2>1. Shows(e) = Shows(bridge) \o << >> /\ Shows(bridge) \in Seq(Details)
    BY <1>1, <1>4, ShowsTyped DEF Yields
  <2> QED
    BY <2>1
<1> HIDE DEF e
<1>6. /\ t \in Bridge /\ t.textIndexByKey[key] \in Nat
      /\ bridge.textIndexByKey[key] # Absent => t = e
      /\ bridge.textIndexByKey[key] = Absent => Shows(t) = Shows(e) \o <<"text">>
      /\ \A other \in Keys : other # key => t.textIndexByKey[other] = bridge.textIndexByKey[other]
      /\ t.ignoredMessageItemID = e.ignoredMessageItemID
      /\ t.toolIndexByItemID = e.toolIndexByItemID
      /\ t.toolUsed = e.toolUsed
      /\ t.thinkingIndex = e.thinkingIndex
      /\ t.webSearchEmitted = e.webSearchEmitted
      /\ t.serverToolUseCount = e.serverToolUseCount
  <2> HIDE DEF key
  <2>1. /\ t \in Bridge /\ t.textIndexByKey[key] \in Nat
        /\ e.textIndexByKey[key] # Absent => t = e
        /\ e.textIndexByKey[key] = Absent => Shows(t) = Shows(e) \o <<"text">>
        /\ \A other \in Keys : other # key => t.textIndexByKey[other] = e.textIndexByKey[other]
        /\ t.ignoredMessageItemID = e.ignoredMessageItemID
        /\ t.toolIndexByItemID = e.toolIndexByItemID
        /\ t.toolUsed = e.toolUsed
        /\ t.thinkingIndex = e.thinkingIndex
        /\ t.webSearchEmitted = e.webSearchEmitted
        /\ t.serverToolUseCount = e.serverToolUseCount
    BY <1>2, <1>4, TextEnsured
  <2> HIDE DEF t
  <2> QED
    BY <1>4, <2>1
<1>7. Yields(t, c, << >>)
  BY DEF e, t, key, p, n
<1> HIDE DEF t
<1>8. /\ c \in Bridge /\ c.textIndexByKey[key] # Absent
      /\ \A other \in Keys : other # key => c.textIndexByKey[other] = bridge.textIndexByKey[other]
      /\ c.ignoredMessageItemID = bridge.ignoredMessageItemID
      /\ c.toolIndexByItemID = bridge.toolIndexByItemID
      /\ c.toolUsed = bridge.toolUsed
      /\ c.thinkingIndex = bridge.thinkingIndex
      /\ c.webSearchEmitted = bridge.webSearchEmitted
      /\ c.serverToolUseCount = bridge.serverToolUseCount
  <2>1. c \in Bridge /\ c.textIndexByKey = t.textIndexByKey
    BY <1>7 DEF Yields, Kept
  <2>2. t.textIndexByKey[key] # Absent
    BY <1>6 DEF Absent
  <2> QED
    BY <1>4, <1>6, <1>7, <2>1, <2>2 DEF Yields, Kept
<1>9. Shows(c) = Shows(bridge) \o new /\ new \in Seq(BlockTypes)
  <2>1. Shows(c) = Shows(t)
    <3>1. Shows(c) = Shows(t) \o << >> /\ Shows(t) \in Seq(Details)
      BY <1>6, <1>7, ShowsTyped DEF Yields
    <3> QED
      BY <3>1
  <2>2. <<"text">> \in Seq(BlockTypes) /\ << >> \in Seq(BlockTypes)
    BY DEF BlockTypes
  <2>3. Shows(e) \o << >> = Shows(e)
    BY <1>5
  <2> QED
    BY <1>5, <1>6, <2>1, <2>2, <2>3
<1>10. bridge.textIndexByKey[key] # Absent <=> p \in PartsBegun(item, n)
  BY <1>1, <1>2 DEF Knows
<1>11. Begun(item, n + 1) = Begun(item, n) \o new
  <2> DEFINE S == PartsBegun(item, n)
  <2>1. IsFiniteSet(S) /\ Cardinality(S) \in Nat
    BY <1>1, <1>2, BegunFacts
  <2>2. Begun(item, n) = Texts(Cardinality(S)) /\ Begun(item, n + 1) = Texts(Cardinality(S \cup {p}))
    BY <1>1, <1>3, MessageBegins
  <2>3. CASE p \in S
    <3>1. S \cup {p} = S /\ new = << >>
      BY <1>10, <2>3
    <3>2. Texts(Cardinality(S)) \o << >> = Texts(Cardinality(S))
      BY <2>1, TextsGrow
    <3> QED
      BY <2>2, <3>1, <3>2
  <2>4. CASE p \notin S
    <3>1. Cardinality(S \cup {p}) = Cardinality(S) + 1
      BY <2>1, <2>4, FS_AddElement
    <3>2. Texts(Cardinality(S) + 1) = Texts(Cardinality(S)) \o <<"text">>
      BY <2>1, TextsGrow
    <3>3. new = <<"text">>
      BY <1>10, <2>4
    <3> QED
      BY <2>2, <3>1, <3>2, <3>3
  <2> QED
    BY <2>3, <2>4
<1>12. /\ \A m : ~ ToolBegun(item, m) /\ ~ ThinkingBegun(item, m) /\ ~ IsIgnored(item, m)
  BY <1>1, MessageBegins
<1>13. /\ c.toolUsed <=> bridge.toolUsed \/ ToolBegun(item, n + 1)
       /\ thinkingStarted(c) <=> thinkingStarted(bridge) \/ ThinkingBegun(item, n + 1)
  BY <1>8, <1>12 DEF thinkingStarted
<1>14. Elsewhere(bridge, c, x)
  <2>1. \A y \in ItemIds, q \in Parts : y # x => <<y, q>> \in Keys /\ <<y, q>> # key
    BY DEF Keys, Owners
  <2> QED
    BY <1>8, <2>1 DEF Elsewhere
<1>15. Knows(c, x, item, n + 1)
  <2>1. \A q \in Parts : c.textIndexByKey[<<x, q>>] # Absent <=> q \in PartsBegun(item, n + 1)
    <3> TAKE q \in Parts
    <3>1. CASE q = p
      BY <1>3, <1>8, <3>1
    <3>2. CASE q # p
      <4>1. <<x, q>> \in Keys /\ <<x, q>> # key
        BY <1>1, <3>2 DEF Keys, Owners
      <4>2. c.textIndexByKey[<<x, q>>] = bridge.textIndexByKey[<<x, q>>]
        BY <1>8, <4>1
      <4> QED
        BY <1>1, <1>3, <3>2, <4>2 DEF Knows
    <3> QED
      BY <3>1, <3>2
  <2> QED
    BY <1>1, <1>8, <1>12, <2>1 DEF Knows
<1>16. Stage(output, streamed, c, at, n + 1)
  <2> HIDE DEF new
  <2> QED
    BY <1>1, <1>2, <1>8, <1>9, <1>11, <1>13, <1>14, <1>15, NextEvent DEF Sending, n
<1> QED
  BY <1>16 DEF Advances, n

\* An event of a part that opens no block, or is of a commentary message.
LEMMA PartIdle ==
    ASSUME PartEventSent,
           output[at].commentary \/ MessageEvents(output[at].parts)[sent].name \notin Openers,
           NEW c, Yields(bridge, c, << >>), Return(c)
    PROVE  Advances(at, sent + 1)
<1> DEFINE item == output[at]
<1>1. Sending /\ item \in Message!OutputItem /\ item.type = "message"
  BY SendingFacts DEF PartEventSent
<1>2. sent \in Nat /\ sent >= 1 /\ sent + 1 >= 1
  BY PartFacts
<1>3. PartsBegun(item, sent + 1) = PartsBegun(item, sent)
  <2>1. CASE item.commentary
    BY <1>1, <2>1, MessageBegins
  <2>2. CASE ~ item.commentary
    BY <1>1, <2>2, PartsGrow DEF PartEventSent
  <2> QED
    BY <2>1, <2>2
<1>4. /\ ~ ToolBegun(item, sent) /\ ~ ToolBegun(item, sent + 1)
      /\ ~ ThinkingBegun(item, sent) /\ ~ ThinkingBegun(item, sent + 1)
      /\ IsIgnored(item, sent + 1) <=> IsIgnored(item, sent)
  BY <1>1, <1>2, MessageBegins
<1>5. Idle(item, sent)
  BY <1>3, <1>4 DEF Idle
<1> QED
  BY <1>1, <1>5, AdvancesIdle

\* The events of a message, whichever handler they go to.
LEMMA PartSent ==
    ASSUME PartEventSent,
           Handle(Ids[at], at - 1, output[at], MessageEvents(output[at].parts)[sent])
    PROVE  Advances(at, sent + 1)
<1> DEFINE x == Ids[at]
           item == output[at]
           event == MessageEvents(item.parts)[sent]
           p == event.part
           key == <<x, p>>
           e == ensureMessageStart(bridge)
<1>1. /\ Sending /\ item \in Message!OutputItem /\ bridge \in Bridge /\ at \in DOMAIN output
      /\ x \in ItemIds /\ Knows(bridge, x, item, sent) /\ item.type = "message" /\ streamed[at]
  BY SendingFacts DEF PartEventSent
<1>2. /\ event \in PartEvent /\ p + 1 \in DOMAIN item.parts
      /\ Fits(event.name, item.parts[p + 1])
      /\ key \in Keys /\ contentKey(x, at - 1, p) = key
      /\ sent \in Nat /\ sent >= 1
  BY PartFacts
<1>3. x \in bridge.ignoredMessageItemID <=> item.commentary
  <2>1. IsIgnored(item, sent) <=> item.commentary
    BY <1>1, <1>2, MessageBegins
  <2> QED
    BY <1>1, <2>1 DEF Knows
<1>4. item.commentary => event.name \notin {"refusal.delta", "refusal.done"}
  <2> SUFFICES ASSUME item.commentary, event.name \in {"refusal.delta", "refusal.done"}
               PROVE  FALSE
    OBVIOUS
  <2>1. item.parts[p + 1] = "refusal"
    BY <1>2 DEF Fits
  <2>2. RefusalOfCommentary
    BY <1>1, <1>2, <2>1 DEF RefusalOfCommentary
  <2> QED
    BY <1>1, <2>2 DEF Sending, Different
<1>5. Handle(x, at - 1, item, event) /\ (item.commentary \/ event.name \notin Openers => 
         \A c : Yields(bridge, c, << >>) /\ Return(c) => Advances(at, sent + 1))
  BY PartIdle
<1> DEFINE t(what) == ensureTextBlock(e, key, what)
<1>6. ~ item.commentary /\ event.name \in Openers =>
         \A what \in {"text", "refusal"} : \A c :
            Yields(t(what), c, << >>) /\ Return(c) => Advances(at, sent + 1)
  BY PartOpens
<1>7. \A what \in {"text", "refusal"} : t(what) \in Bridge /\ t(what).textIndexByKey[key] \in Nat
  <2>1. e \in Bridge
    BY <1>1, YieldsEnsure DEF Yields, Kept
  <2> HIDE DEF e, key
  <2> QED
    BY <1>2, <2>1, TextEnsured
<1>8. \A what \in {"text", "refusal"} :
         Yields(t(what), t(what), << >>) /\ Yields(t(what), textDelta(t(what), key), << >>)
  <2> TAKE what \in {"text", "refusal"}
  <2>1. key[1] \in Owners /\ "text_delta" \in Details
    BY <1>2 DEF Keys, Details
  <2> HIDE DEF t, key
  <2> QED
    BY <1>7, <2>1, YieldsNothing, YieldsDelta DEF textDelta
<1>9. Yields(bridge, bridge, << >>)
  BY <1>1, YieldsNothing
<1>10. bridge.textIndexByKey[key] # Absent => Yields(bridge, closeContentBlock(bridge, bridge.textIndexByKey[key]), << >>)
  <2>1. bridge.textIndexByKey[key] \in Index
    BY <1>1, <1>2 DEF Bridge
  <2> QED
    BY <1>1, <2>1, YieldsClose DEF Index
<1> HIDE DEF event, key, e
<1>11. CASE event.name = "part.added"
  <2>1. ContentPartAdded(x, at - 1, p, TRUE)
    BY <1>5, <1>11 DEF Handle
  <2>2. Return(IF item.commentary THEN bridge ELSE t("text"))
    BY <1>2, <1>3, <2>1 DEF ContentPartAdded, e
  <2> HIDE DEF t
  <2>3. event.name \in Openers
    BY <1>11 DEF Openers
  <2> QED
    BY <1>5, <1>6, <1>8, <1>9, <2>2, <2>3
<1>12. CASE event.name = "other.added"
  <2>1. ContentPartAdded(x, at - 1, p, FALSE)
    BY <1>5, <1>12 DEF Handle
  <2>2. Return(bridge)
    BY <2>1 DEF ContentPartAdded
  <2>3. event.name \notin Openers
    BY <1>12 DEF Openers
  <2> QED
    BY <1>5, <1>9, <2>2, <2>3
<1>13. CASE event.name = "text.delta"
  <2>1. OutputTextDelta(x, at - 1, p)
    BY <1>5, <1>13 DEF Handle
  <2>2. Return(IF item.commentary THEN bridge ELSE textDelta(t("text"), key))
    BY <1>2, <1>3, <2>1 DEF OutputTextDelta, e
  <2> HIDE DEF t
  <2>3. event.name \in Openers
    BY <1>13 DEF Openers
  <2> QED
    BY <1>5, <1>6, <1>8, <1>9, <2>2, <2>3
<1>14. CASE event.name = "refusal.delta"
  <2>1. RefusalDelta(x, at - 1, p)
    BY <1>5, <1>14 DEF Handle
  <2>2. Return(textDelta(t("refusal"), key))
    BY <1>2, <2>1 DEF RefusalDelta, e
  <2> HIDE DEF t
  <2>3. event.name \in Openers
    BY <1>14 DEF Openers
  <2> QED
    BY <1>4, <1>6, <1>8, <1>14, <2>2, <2>3
<1>15. CASE event.name = "refusal.done"
  <2>1. RefusalDone(x, at - 1, p)
    BY <1>5, <1>15 DEF Handle
  <2>2. \/ Return(bridge)
        \/ /\ bridge.textIndexByKey[key] # Absent
           /\ Return(closeContentBlock(bridge, bridge.textIndexByKey[key]))
    BY <1>2, <2>1 DEF RefusalDone
  <2>3. event.name \notin Openers
    BY <1>15 DEF Openers
  <2> QED
    BY <1>5, <1>9, <1>10, <2>2, <2>3
<1>16. CASE event.name = "part.done"
  <2>1. ContentPartDone(x, at - 1, p, 0)
    BY <1>5, <1>16 DEF Handle
  <2>2. \/ Return(bridge)
        \/ /\ bridge.textIndexByKey[key] # Absent
           /\ Return(closeContentBlock(bridge, bridge.textIndexByKey[key]))
    BY <1>2, <2>1 DEF ContentPartDone, emitCitationsDelta
  <2>3. event.name \notin Openers
    BY <1>16 DEF Openers
  <2> QED
    BY <1>5, <1>9, <1>10, <2>2, <2>3
<1> QED
  BY <1>2, <1>11, <1>12, <1>13, <1>14, <1>15, <1>16 DEF PartEvent, PartNames

-----------------------------------------------------------------------------
(* An item that is done                                                     *)

\* All other events of the item have been handled.
AtLast ==
    /\ Sending
    /\ sent = IF streamed[at] THEN Len(DetailEvents(output[at])) + 1 ELSE 0

\* The bridge goes on to the next item, which the whole conversion accepts as well.
Completes == Okay(output[at]) /\ Advances(at + 1, 0)

\* What is left to be shown of an item when it is done.
LEMMA LastFacts ==
    ASSUME AtLast
    PROVE  LET item == output[at]
           IN  /\ item.type = "reasoning" =>
                     /\ ThinkingBegun(item, sent) <=> streamed[at] /\ item.body = "some"
                     /\ Begun(item, sent) = IF ThinkingBegun(item, sent) THEN <<"thinking">> ELSE << >>
               /\ item.type # "reasoning" => ~ ThinkingBegun(item, sent)
               /\ item.type \in Calls => (ToolBegun(item, sent) <=> streamed[at] /\ OpensTool(item))
               /\ item.type \notin Calls => ~ ToolBegun(item, sent)
               /\ item.type \notin Calls \cup {"message", "reasoning"} => Begun(item, sent) = << >>
               /\ item.type \in Calls =>
                     Begun(item, sent) = IF ToolBegun(item, sent) THEN <<"tool_use">> ELSE << >>
<1> DEFINE item == output[at]
<1>1. streamed[at] \in BOOLEAN /\ sent \in Nat /\ item \in Message!OutputItem
  BY SendingFacts DEF AtLast, Sending
<1>2. streamed[at] => sent >= 1
  <2> SUFFICES ASSUME streamed[at], item.type = "message"
               PROVE  sent >= 1
    <3>1. item.type # "message" => Len(DetailEvents(item)) \in {0, 2}
      BY DEF DetailEvents
    <3> QED
      BY <3>1 DEF AtLast
  <2>1. MessageEvents(item.parts) \in Seq(PartEvent)
    BY <1>1, MessageEventsAre DEF EventsOf, Message!OutputItem
  <2>2. DetailEvents(item) = MessageEvents(item.parts)
    BY DEF DetailEvents
  <2> QED
    BY <2>1, <2>2 DEF AtLast
<1>3. ~ streamed[at] => sent = 0
  BY DEF AtLast
<1>4. ToolBegun(item, sent) <=> streamed[at] /\ OpensTool(item)
  BY <1>1, <1>2, <1>3 DEF ToolBegun
<1>5. OpensTool(item) => item.type \in Calls
  BY CallsAre DEF OpensTool
<1>6. Texts(0) = << >>
  BY DEF Texts
<1>7. item.type # "message" => PartsBegun(item, sent) = {}
  BY DEF PartsBegun
<1>8. ASSUME item.type = "reasoning"
      PROVE  /\ ThinkingBegun(item, sent) <=> streamed[at] /\ item.body = "some"
             /\ Begun(item, sent) = IF ThinkingBegun(item, sent) THEN <<"thinking">> ELSE << >>
  <2>1. streamed[at] /\ item.body = "some" => sent = 3
    <3> SUFFICES ASSUME streamed[at], item.body = "some"
                 PROVE  sent = 3
      OBVIOUS
    <3>1. Len(DetailEvents(item)) = 2
      BY <1>8 DEF DetailEvents
    <3>2. sent = Len(DetailEvents(item)) + 1
      BY DEF AtLast
    <3> QED
      BY <3>1, <3>2
  <2> QED
    BY <1>1, <1>3, <1>8, <2>1, ReasoningBegins DEF ThinkingBegun
<1>9. item.type # "reasoning" => ~ ThinkingBegun(item, sent)
  BY DEF ThinkingBegun
<1>10. item.type \in Calls => item.type \notin {"message", "reasoning"}
  BY CallsAre
<1>11. item.type \notin {"message", "reasoning"} =>
          Begun(item, sent) = IF ToolBegun(item, sent) THEN <<"tool_use">> ELSE << >>
  BY <1>6, <1>7, <1>9, FS_EmptySet DEF Begun
<1> QED
  BY <1>4, <1>5, <1>8, <1>9, <1>10, <1>11

\* An item that is no call and no search, when the bridge shows the rest of it.
LEMMA ItemEnds ==
    ASSUME AtLast, output[at].type \notin Calls \cup {"web_search_call"}, Okay(output[at]),
           NEW c, NEW new, Return(c), Yields(bridge, c, new),
           Made(output[at]) = Begun(output[at], sent) \o new
    PROVE  Completes
<1> DEFINE item == output[at]
<1>1. Sending /\ Item(output, at) /\ item \in Message!OutputItem /\ sent \in Nat
  BY SendingFacts DEF AtLast, Sending
<1>2. /\ c \in Bridge /\ new \in Seq(BlockTypes) /\ Shows(c) = Shows(bridge) \o new
      /\ c.serverToolUseCount = bridge.serverToolUseCount
      /\ bridge.serverToolUseCount \in Nat
      /\ Elsewhere(bridge, c, Ids[at])
      /\ c.toolUsed <=> bridge.toolUsed
      /\ thinkingStarted(c) <=> thinkingStarted(bridge)
  BY <1>1, SendingFacts DEF Yields, Kept, Elsewhere, thinkingStarted, Bridge
<1>3. /\ ~ ToolBegun(item, sent)
      /\ ThinkingBegun(item, sent) <=> streamed[at] /\ item.type = "reasoning" /\ item.body = "some"
  BY LastFacts
<1>4. c.serverToolUseCount = bridge.serverToolUseCount
                             + IF item.type = "web_search_call" THEN 1 ELSE 0
  BY <1>2
<1>5. Stage(output, streamed, c, at + 1, 0)
  BY <1>1, <1>2, <1>3, <1>4, NextItem DEF Sending
<1> QED
  BY <1>5 DEF Advances, Completes

\* output_item.done of reasoning.
LEMMA ReasoningDone ==
    ASSUME AtLast, output[at].type = "reasoning", HandleReasoningDone(Ids[at], output[at])
    PROVE  Completes \/ Refuses
<1> DEFINE x == Ids[at]
           item == output[at]
           outcome == Message!openAIReasoningToThinkingBlock(item)
<1>1. /\ Sending /\ item \in Message!OutputItem /\ x \in Owners /\ bridge \in Bridge
      /\ at \in DOMAIN output /\ streamed[at] \in BOOLEAN
  BY SendingFacts DEF AtLast
<1>2. /\ outcome.ok <=> item.body # "malformed"
      /\ outcome.blocks = IF item.body = "some" THEN <<"thinking">> ELSE << >>
      /\ Okay(item) <=> item.body # "malformed" \/ ~ Strict
      /\ Made(item) = outcome.blocks
  BY <1>1, ConvertsReasoning
<1> HIDE DEF outcome
<1>3. /\ ThinkingBegun(item, sent) <=> streamed[at] /\ item.body = "some"
      /\ Begun(item, sent) = IF ThinkingBegun(item, sent) THEN <<"thinking">> ELSE << >>
  BY LastFacts
<1>4. item.body # "none" => (thinkingStarted(bridge) <=> ThinkingBegun(item, sent))
  <2> SUFFICES ASSUME item.body # "none", StreamedThinking(output, streamed, at - 1)
               PROVE  FALSE
    BY <1>1 DEF Sending, Stage
  <2>1. PICK j \in 1 .. (at - 1) : streamed[j] /\ output[j].type = "reasoning" /\ output[j].body = "some"
    BY DEF StreamedThinking
  <2>2. j \in DOMAIN output /\ j < at
    BY <1>1, SendingFacts DEF Item, IsResponse
  <2>3. ReasoningMerged
    BY <1>1, <2>1, <2>2 DEF ReasoningMerged
  <2> QED
    BY <1>1, <2>3 DEF Sending, Different
<1>5. \/ ReasoningItemDone(x, Len(outcome.blocks)) /\ (outcome.ok \/ thinkingStarted(bridge))
      \/ ReasoningItemDoneFails /\ ~ outcome.ok
  BY DEF HandleReasoningDone, outcome
<1>6. ASSUME NEW c, NEW new, Return(c), Yields(bridge, c, new), Okay(item),
             Made(item) = Begun(item, sent) \o new
      PROVE  Completes
  <2>1. item.type \notin Calls \cup {"web_search_call"}
    BY CallsAre
  <2> QED
    BY <1>6, <2>1, ItemEnds
<1>7. << >> \o << >> = << >> /\ << >> \o <<"thinking">> = <<"thinking">>
      /\ <<"thinking">> \o << >> = <<"thinking">>
  OBVIOUS
<1> DEFINE d == closeThinkingBlock(bridge)
<1>8. thinkingStarted(bridge) => Yields(bridge, d, << >>)
  BY <1>1, YieldsCloseThinking
<1> HIDE DEF d
<1>9. CASE item.body = "malformed"
  <2>1. ~ Okay(item)
    BY <1>1, <1>2, <1>9 DEF Sending, Different, UnreadableReasoning
  <2>2. ~ thinkingStarted(bridge)
    BY <1>3, <1>4, <1>9
  <2>3. ReturnError(bridge)
    BY <1>2, <1>5, <1>9, <2>2 DEF ReasoningItemDoneFails
  <2> QED
    BY <2>1, <2>3 DEF Refuses
<1>10. CASE item.body = "none"
  <2>1. Len(outcome.blocks) = 0 /\ outcome.ok
    BY <1>2, <1>10
  <2>2. ReasoningItemDone(x, 0)
    BY <1>5, <2>1
  <2>3. emitBlocks(bridge, 0, "thinking", x) = bridge
    BY DEF emitBlocks
  <2>4. \/ Return(d) /\ thinkingStarted(bridge)
        \/ Return(bridge)
    BY <2>2, <2>3 DEF ReasoningItemDone, d
  <2>5. Made(item) = Begun(item, sent) \o << >>
    BY <1>2, <1>3, <1>7, <1>10
  <2>6. Yields(bridge, bridge, << >>)
    BY <1>1, YieldsNothing
  <2>7. Okay(item)
    BY <1>2, <1>10
  <2> QED
    BY <1>6, <1>8, <2>4, <2>5, <2>6, <2>7
<1>11. CASE item.body = "some" /\ streamed[at]
  <2>1. thinkingStarted(bridge) /\ Begun(item, sent) = <<"thinking">>
    BY <1>3, <1>4, <1>11
  <2>2. Return(d)
    BY <1>2, <1>5, <1>11, <2>1 DEF ReasoningItemDone, d
  <2>3. Made(item) = Begun(item, sent) \o << >> /\ Okay(item)
    BY <1>2, <1>7, <1>11, <2>1
  <2> QED
    BY <1>6, <1>8, <2>1, <2>2, <2>3
<1>12. CASE item.body = "some" /\ ~ streamed[at]
  <2> DEFINE c == emitBlocks(bridge, 1, "thinking", x)
  <2>1. ~ thinkingStarted(bridge) /\ Begun(item, sent) = << >>
    BY <1>3, <1>4, <1>12
  <2>2. Len(outcome.blocks) = 1 /\ outcome.ok
    BY <1>2, <1>12
  <2>3. Return(c)
    BY <1>5, <2>1, <2>2 DEF ReasoningItemDone
  <2>4. Yields(bridge, c, <<"thinking">>)
    <3>1. 1 \in 0 .. MaxBlocks /\ "thinking" \in BlockTypes /\ Copies(1, "thinking") = <<"thinking">>
      BY DEF MaxBlocks, BlockTypes, Copies
    <3> QED
      BY <1>1, <3>1, YieldsBlocks
  <2> HIDE DEF c
  <2>5. Made(item) = Begun(item, sent) \o <<"thinking">> /\ Okay(item)
    BY <1>2, <1>7, <1>12, <2>1
  <2> QED
    BY <1>6, <2>3, <2>4, <2>5
<1> QED
  BY <1>1, <1>9, <1>10, <1>11, <1>12 DEF Message!OutputItem, Message!Presence

\* An item of which nothing was shown before it is done.
LEMMA ItemShown ==
    ASSUME AtLast, output[at].type \notin Calls \cup {"message", "reasoning", "web_search_call"},
           Okay(output[at]), NEW c, Return(c), Yields(bridge, c, Made(output[at]))
    PROVE  Completes
<1>1. Begun(output[at], sent) = << >>
  BY LastFacts
<1>2. Made(output[at]) = << >> \o Made(output[at])
  BY DEF Yields
<1> QED
  BY <1>1, <1>2, ItemEnds

\* output_item.done of the output of a tool.
LEMMA OutputDone ==
    ASSUME AtLast, output[at].type \in Message!ToolOutputs, HandleOutputDone(Ids[at], output[at])
    PROVE  Completes \/ Refuses
<1> DEFINE x == Ids[at]
           item == output[at]
           outcome == Message!toolOutputToBlock(item)
<1>1. item \in Message!OutputItem /\ x \in Owners /\ bridge \in Bridge
  BY SendingFacts DEF AtLast
<1>2. /\ Okay(item) <=> outcome.ok
      /\ Made(item) = outcome.blocks
      /\ outcome.blocks \in {<< >>, <<item.type>>}
  BY <1>1, ConvertsOutput DEF Okay, Made
<1>3. /\ outcome.ok => StandaloneItemDone(x, item.type, Len(outcome.blocks))
      /\ ~ outcome.ok => StandaloneItemDoneFails(item.type)
  BY DEF HandleOutputDone
<1> HIDE DEF outcome
<1>4. /\ item.type \in BlockTypes /\ item.type # "unrecognized"
      /\ item.type \notin Calls \cup {"message", "reasoning", "web_search_call"}
  BY CallsAre DEF Message!ToolOutputs, BlockTypes, Standalone
<1>5. CASE ~ outcome.ok
  BY <1>2, <1>3, <1>4, <1>5 DEF StandaloneItemDoneFails, Refuses
<1>6. CASE outcome.ok
  <2> DEFINE n == Len(outcome.blocks)
             c == emitBlocks(bridge, n, item.type, x)
  <2>1. n \in 0 .. MaxBlocks /\ Copies(n, item.type) = outcome.blocks
    <3>1. CASE outcome.blocks = << >>
      <4>1. n = 0
        BY <3>1
      <4> QED
        BY <3>1, <4>1 DEF Copies, MaxBlocks
    <3>2. CASE outcome.blocks = <<item.type>>
      <4>1. n = 1
        BY <3>2
      <4> QED
        BY <3>2, <4>1 DEF Copies, MaxBlocks
    <3> QED
      BY <1>2, <3>1, <3>2
  <2>2. Return(c)
    BY <1>3, <1>6 DEF StandaloneItemDone
  <2> HIDE DEF n
  <2>3. Yields(bridge, c, Copies(n, item.type))
    BY <1>1, <1>4, <2>1, YieldsBlocks
  <2> HIDE DEF c
  <2> QED
    BY <1>2, <1>4, <1>6, <2>1, <2>2, <2>3, ItemShown
<1> QED
  BY <1>5, <1>6

\* output_item.done of an image or an item of an unknown type.
LEMMA OpaqueDone ==
    ASSUME AtLast, output[at].type \in {"image_generation_call", "unrecognized"},
           StandaloneItemDone(Ids[at], output[at].type, 1)
    PROVE  Completes
<1> DEFINE x == Ids[at]
           item == output[at]
           c == emitBlocks(bridge, 1, item.type, x)
<1>1. item \in Message!OutputItem /\ x \in Owners /\ bridge \in Bridge
  BY SendingFacts DEF AtLast
<1>2. Okay(item) /\ Made(item) = <<item.type>>
  BY <1>1, ConvertsOther
<1>3. item.type \in BlockTypes /\ item.type \notin Calls \cup {"message", "reasoning", "web_search_call"}
  BY CallsAre DEF BlockTypes, Standalone
<1>4. 1 \in 0 .. MaxBlocks /\ Copies(1, item.type) = <<item.type>>
  BY DEF MaxBlocks, Copies
<1>5. Return(c)
  BY DEF StandaloneItemDone
<1>6. Yields(bridge, c, <<item.type>>)
  BY <1>1, <1>3, <1>4, YieldsBlocks
<1> HIDE DEF c
<1> QED
  BY <1>2, <1>3, <1>5, <1>6, ItemShown

\* What the converter of unknown items makes.
LEMMA OpaqueMade ==
    ASSUME NEW item
    PROVE  LET outcome == Message!openAIOpaqueOutputToBlock(item)
           IN  /\ outcome.ok <=> item.type # "blank"
               /\ item.type # "blank" => Len(outcome.blocks) = 1
BY DEF Message!openAIOpaqueOutputToBlock, Message!Error, Message!Blocks

\* output_item.done of an item without a type is an error: in strict mode, because
\* best-effort mode is a difference.
LEMMA BlankDone ==
    ASSUME AtLast, output[at].type = "blank", StandaloneItemDoneFails("unrecognized")
    PROVE  Refuses
<1> DEFINE item == output[at]
<1>1. item \in Message!OutputItem /\ at \in DOMAIN output
  BY SendingFacts DEF AtLast
<1>2. Strict /\ ~ Okay(item)
  BY <1>1, ConvertsOther DEF AtLast, Sending, Different, BlankItem
<1> QED
  BY <1>2 DEF StandaloneItemDoneFails, ReturnErrorIfStrict, Refuses

\* output_item.done of a compaction.
LEMMA CompactionDone ==
    ASSUME AtLast, output[at].type = "compaction",
           CompactionItemDone(Ids[at], output[at].body = "none")
    PROVE  Completes
<1> DEFINE x == Ids[at]
           item == output[at]
           c == closeContentBlock(openBlock(bridge, "compaction", x), bridge.nextIndex)
<1>1. item \in Message!OutputItem /\ x \in Owners /\ bridge \in Bridge /\ at \in DOMAIN output
  BY SendingFacts DEF AtLast
<1>2. /\ Okay(item) <=> item.body # "none" \/ ~ Strict
      /\ Made(item) = IF item.body = "none" THEN << >> ELSE <<"compaction">>
  BY <1>1, ConvertsOther
<1>3. Okay(item)
  BY <1>1, <1>2 DEF AtLast, Sending, Different, StrictDiffers
<1>4. "compaction" \in BlockTypes
      /\ item.type \notin Calls \cup {"message", "reasoning", "web_search_call"}
  BY CallsAre DEF BlockTypes
<1>5. Return(IF item.body = "none" THEN bridge ELSE c)
  BY DEF CompactionItemDone
<1>6. Yields(bridge, bridge, << >>) /\ Yields(bridge, c, <<"compaction">>)
  <2>1. bridge.nextIndex \in Nat
    BY <1>1 DEF Bridge
  <2> QED
    BY <1>1, <1>4, <2>1, YieldsNothing, YieldsOpenClosed
<1> HIDE DEF c
<1>7. Yields(bridge, IF item.body = "none" THEN bridge ELSE c, Made(item))
  BY <1>2, <1>6
<1> QED
  BY <1>3, <1>4, <1>5, <1>7, ItemShown

\* Shifting a finite set of numbers keeps its size.
LEMMA ShiftedSet ==
    ASSUME NEW S \in SUBSET Nat, IsFiniteSet(S)
    PROVE  Cardinality({p - 1 : p \in S}) = Cardinality(S)
<1> DEFINE T == {p - 1 : p \in S}
           f == [p \in S |-> p - 1]
<1>1. f \in [S -> T] /\ \A t \in T : \E p \in S : f[p] = t
  OBVIOUS
<1>2. \A p, q \in S : f[p] = f[q] => p = q
  OBVIOUS
<1>3. f \in Bijection(S, T)
  <2> HIDE DEF f, T
  <2> QED
    BY <1>1, <1>2 DEF Bijection, Injection, Surjection, IsInjective
<1>4. ExistsBijection(S, T)
  BY <1>3 DEF ExistsBijection
<1> HIDE DEF T
<1> QED
  BY <1>4, FS_Bijection DEF T

\* After all its events the parts begun of a message are those of a known type,
\* and the parts of type "text".
LEMMA AllPartsBegun ==
    ASSUME NEW item \in Message!OutputItem, item.type = "message", ~ item.commentary
    PROVE  PartsBegun(item, Len(MessageEvents(item.parts)) + 1) = {p - 1 : p \in ShownParts(item)}
<1> DEFINE e == MessageEvents(item.parts)
           N == Len(item.parts)
           begun == PartsBegun(item, Len(e) + 1)
<1>1. /\ item.parts \in Seq(Message!MessageParts) /\ N \in Nat /\ DOMAIN item.parts = 1 .. N
  BY DEF Message!OutputItem
<1>2. EventsOf(e, item.parts, N) /\ Len(e) \in Nat
  <2>1. EventsOf(e, item.parts, N)
    BY <1>1, MessageEventsAre
  <2> QED
    BY <2>1 DEF EventsOf
<1>3. begun = {e[i].part : i \in {j \in 1 .. Len(e) : e[j].name \in Openers}}
  <2>1. Len(e) + 1 >= 1 /\ (Len(e) + 1) - 1 = Len(e) /\ \A j \in 1 .. Len(e) : j <= Len(e)
    BY <1>2
  <2>2. begun = {e[i].part : i \in {j \in 1 .. Len(e) : j <= (Len(e) + 1) - 1 /\ e[j].name \in Openers}}
    BY <2>1 DEF PartsBegun
  <2> HIDE DEF e, begun
  <2> QED
    BY <2>1, <2>2
<1> HIDE DEF e, begun
<1>4. ASSUME NEW q \in begun
      PROVE  q \in {p - 1 : p \in ShownParts(item)}
  <2>1. PICK i \in 1 .. Len(e) : q = e[i].part /\ e[i].name \in Openers
    BY <1>3
  <2>2. q \in 0 .. (N - 1) /\ Fits(e[i].name, item.parts[q + 1])
    BY <1>2, <2>1 DEF EventsOf
  <2>3. item.parts[q + 1] # "other"
    BY <2>1, <2>2 DEF Fits, Openers
  <2>4. q + 1 \in ShownParts(item) /\ (q + 1) - 1 = q
    BY <1>1, <2>2, <2>3 DEF ShownParts
  <2> QED
    BY <2>4
<1>5. ASSUME NEW p \in ShownParts(item)
      PROVE  p - 1 \in begun
  <2>1. p \in 1 .. N /\ item.parts[p] # "other"
    BY <1>1 DEF ShownParts
  <2>2. PICK i \in 1 .. Len(e) : e[i].part = p - 1 /\ e[i].name \in Openers
    BY <1>2, <2>1 DEF EventsOf
  <2> QED
    BY <1>3, <2>2
<1> QED
  BY <1>4, <1>5 DEF begun, e

\* The bridge knows whether a part of the message has been streamed.
LEMMA StreamedParts ==
    ASSUME Sending
    PROVE  hasStreamedMessageItem(bridge, Ids[at]) <=> PartsBegun(output[at], sent) # {}
<1> DEFINE x == Ids[at]
           item == output[at]
<1>1. /\ Knows(bridge, x, item, sent) /\ x # NoItem /\ item \in Message!OutputItem /\ sent \in Nat
      /\ 0 .. (Len(item.parts) - 1) \subseteq Parts
  BY SendingFacts DEF Sending
<1>2. PartsBegun(item, sent) \subseteq Parts
  BY <1>1, BegunFacts
<1> QED
  BY <1>1, <1>2 DEF hasStreamedMessageItem, Knows

\* output_item.done of a message.
LEMMA MessageDone ==
    ASSUME AtLast, output[at].type = "message", HandleMessageDone(Ids[at], output[at])
    PROVE  Completes \/ Refuses
<1> DEFINE x == Ids[at]
           item == output[at]
           outcome == Message!openAIMessageToBlocks(item)
           K == Cardinality(KnownParts(item))
           sees == x \in bridge.ignoredMessageItemID \/ hasStreamedMessageItem(bridge, x)
<1>1. /\ Sending /\ item \in Message!OutputItem /\ x \in Owners /\ bridge \in Bridge
      /\ at \in DOMAIN output /\ streamed[at] \in BOOLEAN /\ sent \in Nat
      /\ Knows(bridge, x, item, sent) /\ K <= MaxBlocks
  BY SendingFacts DEF AtLast, Sending
<1>2. K \in Nat /\ K \in 0 .. MaxBlocks /\ IsFiniteSet(KnownParts(item))
      /\ KnownParts(item) \in SUBSET Nat
  BY <1>1, KnownIsFinite DEF MaxBlocks
<1>3. /\ Okay(item) <=> outcome.ok
      /\ Okay(item) => outcome.blocks = IF item.commentary THEN << >> ELSE Texts(K)
      /\ Made(item) = outcome.blocks
      /\ item.commentary => Okay(item)
  BY <1>1, ConvertsMessage DEF Okay, Made
<1>4. /\ outcome.ok => MessageItemDone(x, Len(outcome.blocks))
      /\ ~ outcome.ok => \/ MessageItemDoneFails(x)
                         \/ sees /\ MessageItemDone(x, 0)
  BY DEF HandleMessageDone
<1> HIDE DEF outcome
<1>5. Begun(item, sent) = Texts(Cardinality(PartsBegun(item, sent)))
  BY MessageBegins
<1>6. sees <=> (item.commentary /\ IsIgnored(item, sent)) \/ PartsBegun(item, sent) # {}
  <2>1. IsIgnored(item, sent) => item.commentary
    BY DEF IsIgnored
  <2> QED
    BY <1>1, <2>1, StreamedParts DEF Knows
<1>7. Yields(bridge, bridge, << >>) /\ emitBlocks(bridge, 0, "text", x) = bridge
  BY <1>1, YieldsNothing DEF emitBlocks
<1>8. MessageItemDone(x, 0) => Return(bridge)
  BY <1>7 DEF MessageItemDone
<1>9. /\ Len(Texts(K)) = K /\ Texts(0) = << >> /\ Texts(K) \o << >> = Texts(K)
      /\ << >> \o Texts(K) = Texts(K) /\ << >> \o << >> = << >>
  BY <1>2 DEF Texts
<1>10. ASSUME NEW c, NEW new, Return(c), Yields(bridge, c, new), Okay(item),
              Made(item) = Begun(item, sent) \o new
       PROVE  Completes
  <2>1. item.type \notin Calls \cup {"web_search_call"}
    BY CallsAre
  <2> QED
    BY <1>10, <2>1, ItemEnds
<1>11. MessageItemDoneFails(x) => ReturnError(bridge)
  BY DEF MessageItemDoneFails
<1> HIDE DEF sees
<1>12. CASE item.commentary
  <2>1. Okay(item) /\ outcome.blocks = << >> /\ Len(<< >>) = 0
    BY <1>3, <1>12
  <2>2. Return(bridge)
    BY <1>3, <1>4, <1>8, <2>1
  <2>3. PartsBegun(item, sent) = {}
    BY <1>12, MessageBegins
  <2>4. Begun(item, sent) = << >>
    BY <1>5, <1>9, <2>3, FS_EmptySet
  <2> QED
    BY <1>3, <1>7, <1>9, <1>10, <2>1, <2>2, <2>4
<1>13. CASE ~ item.commentary /\ ~ streamed[at]
  <2>1. sent = 0
    BY <1>13 DEF AtLast
  <2>2. PartsBegun(item, sent) = {} /\ Begun(item, sent) = << >>
    BY <2>1, BegunNothing
  <2>3. ~ sees
    BY <1>6, <1>13, <2>2
  <2>4. CASE ~ Okay(item)
    BY <1>3, <1>4, <1>11, <2>3, <2>4 DEF Refuses
  <2>5. CASE Okay(item)
    <3> DEFINE c == emitBlocks(bridge, K, "text", x)
    <3>1. outcome.blocks = Texts(K) /\ Len(outcome.blocks) = K
      BY <1>3, <1>9, <1>13, <2>5
    <3>2. MessageItemDone(x, K)
      BY <1>3, <1>4, <2>5, <3>1
    <3>3. Return(c)
      BY <2>3, <3>2 DEF MessageItemDone, sees
    <3>4. Yields(bridge, c, Texts(K))
      <4>1. "text" \in BlockTypes /\ Copies(K, "text") = Texts(K)
        BY DEF BlockTypes, Copies, Texts
      <4> HIDE DEF K
      <4>2. Yields(bridge, c, Copies(K, "text"))
        BY <1>1, <1>2, <4>1, YieldsBlocks
      <4> QED
        BY <4>1, <4>2
    <3> HIDE DEF c
    <3> QED
      BY <1>3, <1>9, <1>10, <2>2, <2>5, <3>1, <3>3, <3>4
  <2> QED
    BY <2>4, <2>5
<1>14. CASE ~ item.commentary /\ streamed[at]
  <2>1. sent = Len(MessageEvents(item.parts)) + 1
    BY <1>14 DEF AtLast, DetailEvents
  <2>2. PartsBegun(item, sent) = {p - 1 : p \in ShownParts(item)}
    BY <1>1, <1>14, <2>1, AllPartsBegun
  <2>3. Cardinality(PartsBegun(item, sent)) = K
    <3>1. \A p \in DOMAIN item.parts : item.parts[p] # "text"
      BY <1>1, <1>14 DEF Sending, Different, StreamedTextPart
    <3>2. /\ DOMAIN item.parts = 1 .. Len(item.parts)
          /\ \A p \in DOMAIN item.parts : item.parts[p] \in Message!MessageParts
      BY <1>1 DEF Message!OutputItem
    <3>3. ShownParts(item) = KnownParts(item)
      BY <3>1, <3>2 DEF ShownParts, KnownParts, Message!known, Message!MessageParts
    <3> QED
      BY <1>2, <2>2, <3>3, ShiftedSet
  <2>4. CASE ~ Okay(item)
    <3>1. ShownParts(item) = {}
      BY <1>1, <1>3, <1>14, <2>4
         DEF Sending, Different, StreamedMessageUnread, ShownParts, outcome
    <3>2. ~ sees
      BY <1>6, <1>14, <2>2, <3>1
    <3> QED
      BY <1>3, <1>4, <1>11, <2>4, <3>2 DEF Refuses
  <2>5. CASE Okay(item)
    <3>1. outcome.blocks = Texts(K) /\ Len(outcome.blocks) = K
      BY <1>3, <1>9, <1>14, <2>5
    <3>2. MessageItemDone(x, K)
      BY <1>3, <1>4, <2>5, <3>1
    <3>3. Return(bridge)
      <4>1. CASE K = 0
        BY <1>8, <3>2, <4>1
      <4>2. CASE K # 0
        <5>1. PartsBegun(item, sent) # {}
          BY <2>3, <4>2, FS_EmptySet
        <5>2. sees
          BY <1>6, <5>1
        <5> QED
          BY <3>2, <5>2 DEF MessageItemDone, sees
      <4> QED
        BY <4>1, <4>2
    <3>4. Made(item) = Begun(item, sent) \o << >>
      BY <1>3, <1>5, <1>9, <2>3, <3>1
    <3> QED
      BY <1>7, <1>10, <2>5, <3>3, <3>4
  <2> QED
    BY <2>4, <2>5
<1> QED
  BY <1>1, <1>12, <1>13, <1>14

\* output_item.done of a search: both its blocks, and one search more.
LEMMA SearchDone ==
    ASSUME AtLast, output[at].type = "web_search_call", WebSearchItemDone(Ids[at])
    PROVE  Completes
<1> DEFINE x == Ids[at]
           item == output[at]
           a == [bridge EXCEPT !.webSearchEmitted = @ \cup {x}, !.serverToolUseCount = @ + 1]
           i == bridge.nextIndex
           s == openBlock(a, "server_tool_use", x)
           d == sendEvent(s, BlockDelta(i, "input_json_delta", x))
           e == closeContentBlock(d, i)
           c == closeContentBlock(openBlock(e, "web_search_tool_result", x), e.nextIndex)
           u == <<"server_tool_use">>
           v == <<"web_search_tool_result">>
           new == <<"server_tool_use", "web_search_tool_result">>
<1>1. /\ Sending /\ Item(output, at) /\ item \in Message!OutputItem /\ x \in Owners
      /\ bridge \in Bridge /\ sent \in Nat /\ Knows(bridge, x, item, sent) /\ x \in ItemIds
  BY SendingFacts DEF AtLast, Sending
<1>2. Return(c)
  <2>1. x \notin bridge.webSearchEmitted
    BY <1>1 DEF Knows
  <2> QED
    BY <2>1 DEF WebSearchItemDone, handleWebSearchDone
<1>3. bridge.webSearchEmitted \cup {x} \in SUBSET ItemIds /\ bridge.serverToolUseCount + 1 \in Nat
      /\ i \in Nat
  BY <1>1 DEF Bridge
<1>4. /\ a \in Bridge /\ a.out = bridge.out
      /\ a.webSearchEmitted = bridge.webSearchEmitted \cup {x}
      /\ a.serverToolUseCount = bridge.serverToolUseCount + 1
      /\ a.ignoredMessageItemID = bridge.ignoredMessageItemID
      /\ a.textIndexByKey = bridge.textIndexByKey
      /\ a.toolIndexByItemID = bridge.toolIndexByItemID /\ a.toolUsed = bridge.toolUsed
      /\ a.thinkingIndex = bridge.thinkingIndex
  BY <1>1, <1>3 DEF Bridge
<1> HIDE DEF a, i
<1>5. Yields(a, s, u)
  <2>1. "server_tool_use" \in BlockTypes
    BY DEF BlockTypes
  <2>2. Yields(a, s, <<IF "server_tool_use" = "refusal" THEN "text" ELSE "server_tool_use">>)
    BY <1>1, <1>4, <2>1, YieldsOpen
  <2> QED
    BY <2>2
<1>6. s \in Bridge
  BY <1>5 DEF Yields, Kept
<1> HIDE DEF s
<1>7. Yields(s, d, << >>)
  <2>1. "input_json_delta" \in Details
    BY DEF Details
  <2> QED
    BY <1>1, <1>3, <1>6, <2>1, YieldsDelta
<1>8. d \in Bridge
  BY <1>7 DEF Yields, Kept
<1> HIDE DEF d
<1>9. Yields(d, e, << >>)
  BY <1>3, <1>8, YieldsClose
<1>10. e \in Bridge /\ e.nextIndex \in Nat
  BY <1>9 DEF Yields, Kept, Bridge
<1> HIDE DEF e
<1>11. Yields(e, c, v)
  <2>1. "web_search_tool_result" \in BlockTypes
    BY DEF BlockTypes
  <2> QED
    BY <1>1, <1>10, <2>1, YieldsOpenClosed
<1> HIDE DEF c
<1>12. Yields(a, c, new)
  <2>1. Yields(a, d, u)
    BY <1>4, <1>5, <1>7, YieldsThen
  <2>2. Yields(a, e, u)
    BY <1>4, <1>9, <2>1, YieldsThen
  <2>3. Yields(a, c, u \o v)
    BY <1>4, <1>11, <2>2, YieldsBoth
  <2>4. u \o v = new
    BY JoinOnes
  <2> QED
    BY <2>3, <2>4
<1>13. Shows(c) = Shows(bridge) \o new /\ new \in Seq(BlockTypes) /\ c \in Bridge
  <2>1. Shows(a) = Shows(bridge)
    BY <1>4 DEF Shows
  <2> QED
    BY <1>12, <2>1 DEF Yields, Kept
<1>14. /\ c.serverToolUseCount = bridge.serverToolUseCount
                                 + IF item.type = "web_search_call" THEN 1 ELSE 0
       /\ c.toolUsed = bridge.toolUsed /\ c.thinkingIndex = bridge.thinkingIndex
       /\ Elsewhere(bridge, c, x)
  BY <1>4, <1>12 DEF Yields, Kept, Elsewhere
<1>15. Okay(item) /\ Made(item) = new
  BY <1>1, ConvertsOther
<1>16. item.type \notin Calls /\ item.type # "reasoning" /\ item.type # "message"
  BY CallsAre
<1>17. Begun(item, sent) = << >> /\ ~ ToolBegun(item, sent) /\ ~ ThinkingBegun(item, sent)
  BY <1>16, LastFacts
<1>18. Made(item) = Begun(item, sent) \o new
  <2>1. << >> \o new = new
    BY <1>13
  <2> QED
    BY <1>15, <1>17, <2>1
<1>19. /\ c.toolUsed <=> bridge.toolUsed \/ item.type \in Calls
       /\ thinkingStarted(c) <=> thinkingStarted(bridge)
       /\ ThinkingBegun(item, sent) <=> streamed[at] /\ item.type = "reasoning" /\ item.body = "some"
  BY <1>14, <1>16, <1>17 DEF thinkingStarted
<1>20. Stage(output, streamed, c, at + 1, 0)
  <2> HIDE DEF new
  <2> QED
    BY <1>1, <1>13, <1>14, <1>17, <1>18, <1>19, NextItem DEF Sending
<1> QED
  BY <1>2, <1>15, <1>20 DEF Advances, Completes

\* What the whole conversion makes of a call, and what of it a stream sends when
\* the call is done.
LEMMA CallIsMade ==
    ASSUME NEW item \in Message!OutputItem, item.type \in Calls
    PROVE  LET result == IF item.type \in ResultTools THEN Message!callResultToBlock(item)
                         ELSE Message!Blocks(<< >>)
           IN  /\ Okay(item) <=> Message!toolCallToBlock(item).ok /\ result.ok
               /\ Okay(item) => Made(item) = <<"tool_use">> \o result.blocks
               /\ result.blocks = Copies(Len(result.blocks), "tool_result")
               /\ Len(result.blocks) \in 0 .. MaxBlocks
<1>1. Copies(0, "tool_result") = << >> /\ Copies(1, "tool_result") = <<"tool_result">>
      /\ Len(<< >>) = 0 /\ Len(<<"tool_result">>) = 1 /\ 0 \in 0 .. MaxBlocks /\ 1 \in 0 .. MaxBlocks
  BY DEF Copies, MaxBlocks
<1>2. CASE item.type \in Message!PlainCalls
  <2> DEFINE result == Message!Blocks(<< >>)
  <2>1. result.ok /\ result.blocks = << >> /\ item.type \notin ResultTools
    BY <1>2, CallsAre DEF Message!Blocks
  <2>2. <<"tool_use">> \o << >> = <<"tool_use">>
    OBVIOUS
  <2> HIDE DEF result
  <2>3. /\ Okay(item) <=> Message!toolCallToBlock(item).ok /\ result.ok
        /\ Okay(item) => Made(item) = <<"tool_use">> \o result.blocks
    BY <1>2, <2>1, <2>2, ConvertsCall
  <2>4. /\ result.blocks = Copies(Len(result.blocks), "tool_result")
        /\ Len(result.blocks) \in 0 .. MaxBlocks
    BY <1>1, <2>1
  <2> QED
    BY <2>1, <2>3, <2>4 DEF result
<1>3. CASE item.type \in Message!ResultCalls
  <2> DEFINE result == Message!callResultToBlock(item)
  <2>1. item.type \in ResultTools
    BY <1>3, CallsAre
  <2>2. /\ Okay(item) <=> Message!toolCallToBlock(item).ok /\ result.ok
        /\ Okay(item) => Made(item) = <<"tool_use">> \o result.blocks
        /\ result.blocks \in {<< >>, <<"tool_result">>}
    BY <1>3, ConvertsResultCall
  <2> HIDE DEF result
  <2>3. /\ result.blocks = Copies(Len(result.blocks), "tool_result")
        /\ Len(result.blocks) \in 0 .. MaxBlocks
    BY <1>1, <2>2
  <2> QED
    BY <2>1, <2>2, <2>3 DEF result
<1> QED
  BY <1>2, <1>3 DEF Calls

\* The call that ends when the bridge shows the rest of it.
LEMMA CallEnds ==
    ASSUME AtLast, output[at].type \in Calls, Okay(output[at]),
           NEW c, NEW new, Return(c), c \in Bridge, new \in Seq(BlockTypes),
           Shows(c) = Shows(bridge) \o new,
           Made(output[at]) = Begun(output[at], sent) \o new,
           c.toolUsed,
           c.serverToolUseCount = bridge.serverToolUseCount,
           c.thinkingIndex = bridge.thinkingIndex,
           Elsewhere(bridge, c, Ids[at])
    PROVE  Completes
<1> DEFINE item == output[at]
<1>1. Sending /\ Item(output, at) /\ item \in Message!OutputItem /\ sent \in Nat
      /\ bridge.serverToolUseCount \in Nat
  BY SendingFacts DEF AtLast, Sending, Bridge
<1>2. item.type # "web_search_call" /\ item.type # "reasoning"
  BY CallsAre
<1>3. ThinkingBegun(item, sent) <=> streamed[at] /\ item.type = "reasoning" /\ item.body = "some"
  BY <1>2, LastFacts
<1>4. c.serverToolUseCount = bridge.serverToolUseCount
                             + IF item.type = "web_search_call" THEN 1 ELSE 0
  BY <1>1, <1>2
<1>5. thinkingStarted(c) <=> thinkingStarted(bridge)
  BY DEF thinkingStarted
<1>6. Stage(output, streamed, c, at + 1, 0)
  BY <1>1, <1>3, <1>4, <1>5, NextItem DEF Sending
<1> QED
  BY <1>6 DEF Advances, Completes

\* output_item.done of a call.
LEMMA ToolDone ==
    ASSUME AtLast, output[at].type \in Calls, HandleToolDone(Ids[at], output[at])
    PROVE  Completes \/ Refuses
<1> DEFINE x == Ids[at]
           item == output[at]
           call == Message!toolCallToBlock(item)
           result == IF item.type \in ResultTools THEN Message!callResultToBlock(item)
                     ELSE Message!Blocks(<< >>)
           n == Len(result.blocks)
           i == bridge.toolIndexByItemID[x]
           isOpen == i # Absent
<1>1. /\ Sending /\ item \in Message!OutputItem /\ x \in Owners /\ bridge \in Bridge
      /\ at \in DOMAIN output /\ Knows(bridge, x, item, sent) /\ x \in ItemIds
  BY SendingFacts DEF AtLast
<1>2. /\ Okay(item) <=> call.ok /\ result.ok
      /\ Okay(item) => Made(item) = <<"tool_use">> \o result.blocks
      /\ result.blocks = Copies(n, "tool_result") /\ n \in 0 .. MaxBlocks
  BY <1>1, CallIsMade
<1>3. \/ ToolItemDone(x, n) /\ result.ok /\ (isOpen \/ call.ok)
      \/ ToolItemDoneFails(x, item.type) /\ ~ (result.ok /\ (isOpen \/ call.ok))
  BY DEF HandleToolDone
<1> HIDE DEF result, call, n
<1>4. isOpen <=> ToolBegun(item, sent)
  BY <1>1 DEF Knows
<1>5. isOpen => call.ok
  <2> SUFFICES ASSUME isOpen, ~ call.ok
               PROVE  FALSE
    OBVIOUS
  <2>1. streamed[at] /\ OpensTool(item)
    BY <1>4, LastFacts
  <2>2. item.type \in DirectTools /\ item.body = "malformed"
    BY <1>1, <2>1, BrokenCall DEF OpensTool, call
  <2>3. BlockOfBrokenCall
    BY <1>1, <2>1, <2>2 DEF BlockOfBrokenCall
  <2> QED
    BY <1>1, <2>3 DEF Sending, Different
<1>6. Begun(item, sent) = IF isOpen THEN <<"tool_use">> ELSE << >>
  BY <1>4, LastFacts
<1>7. "tool_use" \in BlockTypes /\ "tool_result" \in BlockTypes
  BY DEF BlockTypes
<1>8. CASE ~ Okay(item)
  <2>1. ToolItemDoneFails(x, item.type)
    BY <1>2, <1>3, <1>5, <1>8
  <2> QED
    BY <1>8, <2>1 DEF ToolItemDoneFails, Refuses
<1>9. CASE Okay(item) /\ isOpen
  <2> DEFINE d == closeContentBlock(bridge, i)
             c == emitBlocks(d, n, "tool_result", x)
  <2>1. ToolItemDone(x, n)
    BY <1>2, <1>3, <1>9
  <2>2. Return(c)
    BY <1>9, <2>1 DEF ToolItemDone
  <2>3. Yields(bridge, d, << >>) /\ d \in Bridge
    <3>1. i \in Nat
      BY <1>1, <1>9 DEF Bridge, Index
    <3>2. Yields(bridge, d, << >>)
      BY <1>1, <3>1, YieldsClose
    <3> QED
      BY <3>2 DEF Yields, Kept
  <2> HIDE DEF d
  <2>4. Yields(d, c, Copies(n, "tool_result"))
    BY <1>1, <1>2, <1>7, <2>3, YieldsBlocks
  <2> HIDE DEF c
  <2>5. Yields(bridge, c, result.blocks)
    BY <1>1, <1>2, <2>3, <2>4, YieldsAfter
  <2>6. Made(item) = Begun(item, sent) \o result.blocks
    BY <1>2, <1>6, <1>9
  <2>7. /\ c \in Bridge /\ result.blocks \in Seq(BlockTypes)
        /\ Shows(c) = Shows(bridge) \o result.blocks
        /\ c.serverToolUseCount = bridge.serverToolUseCount
        /\ c.thinkingIndex = bridge.thinkingIndex /\ Elsewhere(bridge, c, x)
        /\ c.toolUsed <=> bridge.toolUsed
    BY <2>5 DEF Yields, Kept, Elsewhere
  <2>8. c.toolUsed
    BY <1>1, <1>4, <1>9, <2>7 DEF Sending, Stage
  <2> QED
    BY <1>9, <2>2, <2>6, <2>7, <2>8, CallEnds
<1>10. CASE Okay(item) /\ ~ isOpen
  <2> DEFINE a == [bridge EXCEPT !.toolUsed = TRUE]
             d == emitFullContentBlock(a, "tool_use", x)
             c == emitBlocks(d, n, "tool_result", x)
             u == <<"tool_use">>
             new == u \o result.blocks
  <2>1. ToolItemDone(x, n)
    BY <1>2, <1>3, <1>10
  <2>2. Return(c)
    BY <1>10, <2>1 DEF ToolItemDone, emitFunctionLikeToolUseFromDone
  <2>3. /\ a \in Bridge /\ a.toolUsed /\ a.out = bridge.out
        /\ a.webSearchEmitted = bridge.webSearchEmitted
        /\ a.serverToolUseCount = bridge.serverToolUseCount
        /\ a.ignoredMessageItemID = bridge.ignoredMessageItemID
        /\ a.textIndexByKey = bridge.textIndexByKey
        /\ a.toolIndexByItemID = bridge.toolIndexByItemID
        /\ a.thinkingIndex = bridge.thinkingIndex
    BY <1>1 DEF Bridge
  <2> HIDE DEF a
  <2>4. Yields(a, d, u) /\ d \in Bridge
    <3>1. Yields(a, d, u)
      BY <1>1, <1>7, <2>3, YieldsFull
    <3> QED
      BY <3>1 DEF Yields, Kept
  <2> HIDE DEF d
  <2>5. Yields(d, c, Copies(n, "tool_result"))
    BY <1>1, <1>2, <1>7, <2>4, YieldsBlocks
  <2> HIDE DEF c
  <2>6. Yields(a, c, new)
    <3>1. Yields(d, c, result.blocks)
      BY <1>2, <2>5
    <3> HIDE DEF u
    <3> QED
      BY <2>3, <2>4, <3>1, YieldsBoth
  <2> HIDE DEF new
  <2>7. Made(item) = Begun(item, sent) \o new
    <3>1. Made(item) = new /\ new \in Seq(BlockTypes) /\ Begun(item, sent) = << >>
      BY <1>2, <1>6, <1>10, <2>6 DEF new, Yields
    <3>2. << >> \o new = new
      BY <3>1
    <3> QED
      BY <3>1, <3>2
  <2>8. /\ c \in Bridge /\ new \in Seq(BlockTypes) /\ Shows(c) = Shows(bridge) \o new
        /\ c.serverToolUseCount = bridge.serverToolUseCount
        /\ c.thinkingIndex = bridge.thinkingIndex /\ Elsewhere(bridge, c, x)
        /\ c.toolUsed
    <3>1. Shows(a) = Shows(bridge)
      BY <2>3 DEF Shows
    <3> QED
      BY <2>3, <2>6, <3>1 DEF Yields, Kept, Elsewhere
  <2> QED
    BY <1>10, <2>2, <2>7, <2>8, CallEnds
<1> QED
  BY <1>8, <1>9, <1>10

\* output_item.done, whatever the item is.
LEMMA ItemDone ==
    ASSUME AtLast, HandleDone(Ids[at], output[at])
    PROVE  Completes \/ Refuses
<1> DEFINE x == Ids[at]
           item == output[at]
<1>1. item \in Message!OutputItem /\ item.type \in Message!Types
  BY SendingFacts DEF AtLast, Message!OutputItem
<1>2. DirectTools \cup ConvertedTools = Calls
  BY CallsAre
<1> USE DEF Message!ToolOutputs
<1>3. CASE item.type = "message"
  <2>1. HandleMessageDone(x, item)
    BY <1>3, CallsAre DEF HandleDone
  <2> QED
    BY <1>3, <2>1, MessageDone
<1>4. CASE item.type = "reasoning"
  <2>1. HandleReasoningDone(x, item)
    BY <1>4, CallsAre DEF HandleDone
  <2> QED
    BY <1>4, <2>1, ReasoningDone
<1>5. CASE item.type \in Calls
  <2>1. HandleToolDone(x, item)
    BY <1>2, <1>5, CallsAre DEF HandleDone
  <2> QED
    BY <1>5, <2>1, ToolDone
<1>6. CASE item.type = "web_search_call"
  <2>1. WebSearchItemDone(x)
    BY <1>6, CallsAre DEF HandleDone
  <2> QED
    BY <1>6, <2>1, SearchDone
<1>7. CASE item.type = "compaction"
  <2>1. CompactionItemDone(x, item.body = "none")
    BY <1>7, CallsAre DEF HandleDone
  <2> QED
    BY <1>7, <2>1, CompactionDone
<1>8. CASE item.type \in Message!ToolOutputs
  <2>1. HandleOutputDone(x, item)
    BY <1>8, CallsAre DEF HandleDone
  <2> QED
    BY <1>8, <2>1, OutputDone
<1>9. CASE item.type \in {"image_generation_call", "unrecognized"}
  <2>1. StandaloneItemDone(x, item.type, 1)
    BY <1>2, <1>9, CallsAre, OpaqueMade DEF HandleDone, HandleOpaqueDone
  <2> QED
    BY <1>9, <2>1, OpaqueDone
<1>10. CASE item.type = "blank"
  <2>1. StandaloneItemDoneFails("unrecognized")
    BY <1>2, <1>10, CallsAre, OpaqueMade DEF HandleDone, HandleOpaqueDone
  <2> QED
    BY <1>10, <2>1, BlankDone
<1> QED
  BY <1>1, <1>3, <1>4, <1>5, <1>6, <1>7, <1>8, <1>9, <1>10
     DEF Message!Types, Message!OtherTypes, Calls

DetailNames == PartNames \cup {"thinking.delta", "thinking.done", "arguments.delta", "arguments.done"}
Detail      == [name : DetailNames, part : Nat]

\* The events between the announcement of an item and the item itself.
LEMMA DetailsAre ==
    ASSUME NEW item \in Message!OutputItem
    PROVE  /\ DetailEvents(item) \in Seq(Detail)
           /\ item.type = "message" => DetailEvents(item) = MessageEvents(item.parts)
           /\ item.type = "reasoning" => \/ Len(DetailEvents(item)) = 0
                                         \/ /\ item.body = "some"
                                            /\ DetailEvents(item) = <<Event("thinking.delta", 0),
                                                                      Event("thinking.done", 0)>>
           /\ item.type \notin {"message", "reasoning"} =>
                 \/ Len(DetailEvents(item)) = 0
                 \/ /\ item.type \in {"function_call", "mcp_call"}
                    /\ DetailEvents(item) = <<Event("arguments.delta", 0), Event("arguments.done", 0)>>
<1> DEFINE a == Event("thinking.delta", 0)
           b == Event("thinking.done", 0)
           c == Event("arguments.delta", 0)
           d == Event("arguments.done", 0)
<1>1. a \in Detail /\ b \in Detail /\ c \in Detail /\ d \in Detail
  BY DEF Event, Detail, DetailNames
<1> HIDE DEF a, b, c, d
<1>2. <<a, b>> \in Seq(Detail) /\ <<c, d>> \in Seq(Detail) /\ << >> \in Seq(Detail) /\ Len(<< >>) = 0
  BY <1>1
<1>3. CASE item.type = "message"
  <2>1. DetailEvents(item) = MessageEvents(item.parts)
    BY <1>3 DEF DetailEvents
  <2>2. MessageEvents(item.parts) \in Seq(PartEvent)
    BY MessageEventsAre DEF EventsOf, Message!OutputItem
  <2>3. \A e \in PartEvent : e \in Detail
    BY DEF PartEvent, Detail, DetailNames
  <2> QED
    BY <1>3, <2>1, <2>2, <2>3
<1>4. CASE item.type = "reasoning"
  <2>1. DetailEvents(item) = IF item.body = "some" THEN <<a, b>> ELSE << >>
    BY <1>4 DEF DetailEvents, a, b
  <2> QED
    BY <1>2, <1>4, <2>1 DEF a, b
<1>5. CASE item.type \notin {"message", "reasoning"}
  <2>1. DetailEvents(item) = IF item.type \in {"function_call", "mcp_call"} THEN <<c, d>> ELSE << >>
    BY <1>5 DEF DetailEvents, c, d
  <2> QED
    BY <1>2, <1>5, <2>1 DEF c, d
<1> QED
  BY <1>3, <1>4, <1>5

\* The events of a streamed item: its announcement, the details, and the item.
LEMMA EventsAre ==
    ASSUME NEW k, output[k] \in Message!OutputItem, streamed[k] \in BOOLEAN
    PROVE  LET item == output[k]
               last == Len(DetailEvents(item)) + 1
           IN  /\ Len(DetailEvents(item)) \in Nat
               /\ streamed[k] =>
                     /\ Len(Events(k)) = last + 1
                     /\ Events(k)[1].name = "added"
                     /\ \A i \in 1 .. Len(DetailEvents(item)) : Events(k)[i + 1] = DetailEvents(item)[i]
                     /\ Events(k)[last + 1].name = "done"
               /\ ~ streamed[k] => Len(Events(k)) = 1 /\ Events(k)[1].name = "done"
<1> DEFINE item == output[k]
           d == DetailEvents(item)
           a == Event("added", 0)
           z == Event("done", 0)
           T == Detail \cup {a, z}
<1>1. item \in Message!OutputItem /\ streamed[k] \in BOOLEAN
  OBVIOUS
<1>2. d \in Seq(Detail)
  BY <1>1, DetailsAre
<1>3. Events(k) = IF streamed[k] THEN (<<a>> \o d) \o <<z>> ELSE <<z>>
  BY DEF Events
<1>4. a.name = "added" /\ z.name = "done"
  BY DEF Event
<1> HIDE DEF d, a, z
<1>5. d \in Seq(T) /\ <<a>> \in Seq(T) /\ <<z>> \in Seq(T) /\ Len(d) \in Nat
  BY <1>2
<1> HIDE DEF T
<1> DEFINE u == <<a>> \o d
<1>6. /\ u \in Seq(T) /\ Len(u) = Len(d) + 1 /\ u[1] = a
      /\ \A i \in 1 .. Len(d) : u[i + 1] = d[i]
  BY <1>5
<1> HIDE DEF u
<1> DEFINE w == u \o <<z>>
<1>7. Len(w) = Len(u) + 1 /\ w[Len(u) + 1] = z /\ \A i \in 1 .. Len(u) : w[i] = u[i]
  BY <1>5, <1>6
<1> HIDE DEF w
<1>8. streamed[k] => Events(k) = w
  BY <1>3 DEF u, w
<1>9. /\ Len(w) = (Len(d) + 1) + 1 /\ w[1] = a /\ w[(Len(d) + 1) + 1] = z
      /\ \A i \in 1 .. Len(d) : w[i + 1] = d[i]
  BY <1>5, <1>6, <1>7
<1>10. ~ streamed[k] => Len(Events(k)) = 1 /\ Events(k)[1] = z
  BY <1>3
<1>11. Len(d) \in Nat
  BY <1>5
<1> HIDE DEF item
<1> QED
  BY <1>4, <1>8, <1>9, <1>10, <1>11 DEF d, item

\* An event of the item the upstream is sending.
LEMMA EventHandled ==
    ASSUME Sending, sent < Len(Events(at)),
           Handle(Ids[at], at - 1, output[at], Events(at)[sent + 1])
    PROVE  IF sent + 1 = Len(Events(at)) THEN Completes \/ Refuses
           ELSE Advances(at, sent + 1) \/ Refuses
<1> DEFINE x == Ids[at]
           item == output[at]
           d == DetailEvents(item)
           L == Len(d)
           event == Events(at)[sent + 1]
<1>1. item \in Message!OutputItem /\ streamed[at] \in BOOLEAN /\ sent \in Nat
  BY SendingFacts DEF Sending
<1>2. /\ L \in Nat
      /\ streamed[at] =>
            /\ Len(Events(at)) = (L + 1) + 1
            /\ Events(at)[1].name = "added"
            /\ \A i \in 1 .. L : Events(at)[i + 1] = d[i]
            /\ Events(at)[(L + 1) + 1].name = "done"
      /\ ~ streamed[at] => Len(Events(at)) = 1 /\ Events(at)[1].name = "done"
  BY <1>1, EventsAre
<1>3. CASE sent + 1 = Len(Events(at))
  <2>1. sent = (IF streamed[at] THEN L + 1 ELSE 0) /\ event.name = "done"
    <3> DEFINE E == Events(at)
    <3>0. event = E[sent + 1] /\ sent + 1 = Len(E)
      BY <1>3
    <3>1. CASE streamed[at]
      <4>1. Len(E) = (L + 1) + 1 /\ E[(L + 1) + 1].name = "done"
        BY <1>2, <3>1
      <4> HIDE DEF L, E, event
      <4>2. sent = L + 1
        BY <1>1, <1>2, <3>0, <4>1
      <4> QED
        BY <3>0, <3>1, <4>1, <4>2
    <3>2. CASE ~ streamed[at]
      <4>1. Len(E) = 1 /\ E[1].name = "done"
        BY <1>2, <3>2
      <4> HIDE DEF L, E, event
      <4>2. sent = 0
        BY <1>1, <3>0, <4>1
      <4> QED
        BY <3>0, <3>2, <4>1, <4>2
    <3> QED
      BY <3>1, <3>2
  <2>2. AtLast
    BY <2>1 DEF AtLast
  <2>3. HandleDone(x, item)
    <3> HIDE DEF event
    <3>1. Handle(x, at - 1, item, event)
      BY DEF event
    <3> QED
      BY <2>1, <3>1 DEF Handle
  <2> QED
    BY <1>3, <2>2, <2>3, ItemDone
<1>4. CASE sent + 1 # Len(Events(at)) /\ sent = 0
  <2>1. streamed[at] /\ event.name = "added" /\ 0 + 1 = 1
    BY <1>1, <1>2, <1>4
  <2>2. HandleAdded(x, at - 1, item)
    <3> HIDE DEF event
    <3>1. Handle(x, at - 1, item, event)
      BY DEF event
    <3> QED
      BY <2>1, <3>1 DEF Handle
  <2>3. Advances(at, 1) \/ Refuses
    BY <1>4, <2>1, <2>2, ItemAdded
  <2> QED
    BY <1>4, <2>1, <2>3
<1>5. CASE sent + 1 # Len(Events(at)) /\ sent # 0
  <2>1. streamed[at] /\ sent \in 1 .. L /\ event = d[sent]
    <3>1. streamed[at]
      BY <1>1, <1>2, <1>5
    <3>2. sent \in 1 .. L
      <4> HIDE DEF L
      <4> QED
        BY <1>1, <1>2, <1>5, <3>1
    <3> QED
      BY <1>2, <3>1, <3>2
  <2>2. Handle(x, at - 1, item, d[sent])
    BY <2>1
  <2>3. Advances(at, sent + 1)
    <3>1. CASE item.type = "message"
      <4>1. d = MessageEvents(item.parts)
        BY <1>1, <3>1, DetailsAre
      <4>2. PartEventSent
        BY <2>1, <3>1, <4>1 DEF PartEventSent
      <4>3. Handle(x, at - 1, item, MessageEvents(item.parts)[sent])
        BY <2>2, <4>1
      <4> QED
        BY <4>2, <4>3, PartSent
    <3>2. CASE item.type = "reasoning"
      <4>1. item.body = "some" /\ d = <<Event("thinking.delta", 0), Event("thinking.done", 0)>>
        BY <1>1, <2>1, <3>2, DetailsAre
      <4>2. L = 2
        BY <4>1
      <4>3. CASE sent = 1
        <5>1. d[sent].name = "thinking.delta"
          BY <4>1, <4>3 DEF Event
        <5> HIDE DEF d
        <5>2. ReasoningDelta(x)
          BY <2>2, <5>1 DEF Handle
        <5>3. Advances(at, 2) /\ 1 + 1 = 2
          BY <2>1, <3>2, <4>1, <4>3, <5>2, ThinkingSent
        <5> QED
          BY <4>3, <5>3
      <4>4. CASE sent = 2
        <5>1. d[sent].name = "thinking.done"
          BY <4>1, <4>4 DEF Event
        <5> HIDE DEF d
        <5>2. ReasoningTextDone
          BY <2>2, <5>1 DEF Handle
        <5>3. Advances(at, 3) /\ 2 + 1 = 3
          BY <3>2, <4>4, <5>2, ThinkingDone
        <5> QED
          BY <4>4, <5>3
      <4> HIDE DEF L
      <4> QED
        BY <2>1, <4>2, <4>3, <4>4
    <3>3. CASE item.type \notin {"message", "reasoning"}
      <4>1. /\ item.type \in {"function_call", "mcp_call"}
            /\ d = <<Event("arguments.delta", 0), Event("arguments.done", 0)>>
        BY <1>1, <2>1, <3>3, DetailsAre
      <4>2. L = 2
        BY <4>1
      <4>3. sent \in {1, 2}
        <5> HIDE DEF L
        <5> QED
          BY <2>1, <4>2
      <4>4. d[sent].name \in {"arguments.delta", "arguments.done"}
        BY <4>1, <4>3 DEF Event
      <4>5. ToolArgumentsDelta(x, at - 1) \/ ToolArgumentsDone(x, at - 1)
        <5> HIDE DEF d
        <5> QED
          BY <2>2, <4>4 DEF Handle
      <4> QED
        BY <4>1, <4>3, <4>5, ArgumentsSent
    <3> QED
      BY <3>1, <3>2, <3>3
  <2> QED
    BY <1>5, <2>3
<1> QED
  BY <1>3, <1>4, <1>5

-----------------------------------------------------------------------------
(* The terminal event                                                       *)

\* Frames that start no block show nothing.
LEMMA ShownInSilent ==
    ASSUME NEW s \in Seq(Frame), NEW t \in Seq({f \in Frame : ShownBy(f) \notin BlockTypes})
    PROVE  ShownIn(s \o t) = ShownIn(s)
<1> DEFINE T == {f \in Frame : ShownBy(f) \notin BlockTypes}
           P == {u \in Seq(T) : ShownIn(s \o u) = ShownIn(s)}
<1>1. << >> \in P
  <2>1. s \o << >> = s
    OBVIOUS
  <2> QED
    BY <2>1, EmptyTyped
<1>2. ASSUME NEW u \in Seq(T), NEW f \in T, u \in P
      PROVE  Append(u, f) \in P
  <2>1. T \subseteq Frame
    OBVIOUS
  <2> HIDE DEF T
  <2>2. u \in Seq(Frame) /\ f \in Frame
    BY <2>1
  <2>3. s \o Append(u, f) = Append(s \o u, f) /\ s \o u \in Seq(Frame) /\ Append(u, f) \in Seq(T)
    BY <2>2
  <2>4. ShownBy(f) \notin BlockTypes
    BY DEF T
  <2>5. ShownIn(Append(s \o u, f)) = ShownIn(s \o u)
    BY <2>2, <2>3, <2>4, ShownInAppend
  <2> QED
    BY <1>2, <2>3, <2>5
<1> HIDE DEF P
<1>3. t \in P
  BY <1>1, <1>2, SequenceInduction
<1> QED
  BY <1>3 DEF P

\* The stops of the flush show nothing.
LEMMA YieldsStops ==
    ASSUME NEW b, Sound(b), NEW order \in Ascending(OpenTextBlocks(b))
    PROVE  Yields(b, closeTextBlocks(b, order), << >>)
<1> DEFINE now == {order[k] : k \in DOMAIN order}
           stops == [k \in DOMAIN order |-> BlockStop(order[k])]
           t == b.out \o stops
           c == closeTextBlocks(b, order)
           T == {f \in Frame : ShownBy(f) \notin BlockTypes}
<1>1. b \in Bridge /\ b.out \in Seq(Frame) /\ b.textIndexByKey \in [Keys -> Index]
      /\ b.closedIndex \in SUBSET Nat
  BY SoundTypes DEF Bridge
<1>2. PICK m \in Nat : order \in [1 .. m -> OpenTextBlocks(b)]
  BY TextStops
<1>3. OpenTextBlocks(b) \subseteq Nat
  BY <1>1 DEF OpenTextBlocks, Index
<1>4. now \in SUBSET Nat /\ DOMAIN order = 1 .. m /\ \A k \in 1 .. m : order[k] \in Nat
  BY <1>2, <1>3
<1>5. \A i \in Nat : BlockStop(i) \in T
  BY Silent, BlockTypesAreDetails, NoItem \in Owners DEF Owners, ItemIds
<1> HIDE DEF T
<1>6. stops \in Seq(T)
  <2>1. stops \in [1 .. m -> T]
    BY <1>4, <1>5
  <2> HIDE DEF stops
  <2> QED
    BY <1>2, <2>1
<1>7. t \in Seq(Frame)
  <2>1. T \subseteq Frame
    BY DEF T
  <2> HIDE DEF stops
  <2>2. stops \in Seq(Frame)
    BY <1>6, <2>1
  <2> QED
    BY <1>1, <2>2
<1>8. c = [b EXCEPT !.closedIndex = b.closedIndex \cup now, !.out = t]
  BY <1>1 DEF closeTextBlocks, Bridge
<1> HIDE DEF now, stops, c
<1>9. c.out = t /\ Kept(b, c)
  <2>1. b.closedIndex \cup now \in SUBSET Nat
    BY <1>1, <1>4
  <2> HIDE DEF t
  <2> QED
    BY <1>1, <1>7, <1>8, <2>1 DEF Bridge, Kept
<1>10. Shows(c) = Shows(b)
  BY <1>1, <1>6, <1>9, ShownInSilent DEF Shows, T
<1>11. Shows(b) \o << >> = Shows(b)
  BY <1>1, ShowsTyped
<1> QED
  BY <1>9, <1>10, <1>11, EmptyTyped DEF Yields, c

\* flushOpenTextBlocks shows nothing.
LEMMA YieldsFlush ==
    ASSUME NEW b, Sound(b), NEW order \in Ascending(OpenTextBlocks(b))
    PROVE  Yields(b, flushOpenTextBlocks(b, order), << >>)
<1> DEFINE c == closeTextBlocks(b, order)
<1>1. b \in Bridge
  BY SoundTypes
<1>2. Yields(b, c, << >>)
  BY YieldsStops
<1>3. c \in Bridge /\ c.thinkingIndex = b.thinkingIndex
  BY <1>2 DEF Yields, Kept
<1> HIDE DEF c
<1>4. CASE thinkingStarted(b)
  <2>1. Yields(c, closeThinkingBlock(c), << >>)
    BY <1>3, <1>4, YieldsCloseThinking DEF thinkingStarted
  <2>2. Yields(b, closeThinkingBlock(c), << >>)
    BY <1>1, <1>2, <2>1, YieldsThen
  <2> QED
    BY <1>4, <2>2 DEF flushOpenTextBlocks, c
<1>5. CASE ~ thinkingStarted(b)
  BY <1>2, <1>5 DEF flushOpenTextBlocks, c
<1> QED
  BY <1>4, <1>5

\* message_delta and message_stop show nothing; the former has the stop reason.
LEMMA YieldsFinish ==
    ASSUME NEW b \in Bridge, NEW stopReason \in Details
    PROVE  LET c == finishMessage(b, stopReason)
           IN  /\ Yields(b, c, << >>)
               /\ \E m \in DOMAIN c.out : c.out[m].type = "message_delta" /\ c.out[m].what = stopReason
<1> DEFINE f == MessageFrame("message_delta", stopReason)
           g == MessageFrame("message_stop", "none")
           d == sendEvent(b, f)
           c == sendEvent(d, g)
<1>1. f \in Frame /\ g \in Frame /\ ShownBy(f) \notin BlockTypes /\ ShownBy(g) \notin BlockTypes
  BY Silent, BlockTypesAreDetails, NoItem \in Owners, 0 \in Nat DEF Owners, ItemIds
<1>2. f.type = "message_delta" /\ f.what = stopReason
  BY DEF MessageFrame
<1> HIDE DEF f, g
<1>3. Yields(b, d, << >>) /\ d.out = Append(b.out, f)
  BY <1>1, YieldsSend
<1>4. d \in Bridge
  BY <1>3 DEF Yields, Kept
<1> HIDE DEF d
<1>5. Yields(d, c, << >>) /\ c.out = Append(d.out, g)
  BY <1>1, <1>4, YieldsSend
<1> HIDE DEF c
<1>6. Yields(b, c, << >>)
  BY <1>3, <1>5, YieldsThen
<1>7. Len(b.out) + 1 \in DOMAIN c.out /\ c.out[Len(b.out) + 1] = f
  <2>1. b.out \in Seq(Frame) /\ d.out \in Seq(Frame)
    BY <1>4, ShowsTyped
  <2> QED
    BY <1>1, <1>3, <1>5, <2>1
<1> QED
  BY <1>2, <1>6, <1>7 DEF finishMessage, c, d, f, g

-----------------------------------------------------------------------------
(* Every step of the agreement is one of the bridge                         *)

\* The handlers of output_item.added.
LEMMA AddedIsAStep ==
    ASSUME NEW x \in ItemIds, NEW out \in Outputs, NEW item, HandleAdded(x, out, item)
    PROVE  Next /\ Receiving
<1>1. \/ CommentaryItemAdded(x) \/ ToolItemAdded(x, out) \/ UnsupportedItemAdded
      \/ WebSearchItemAdded(x) \/ PassiveItemAdded
  BY DEF HandleAdded
<1>2. Next
  BY <1>1, Zenon DEF Next
<1>3. Receiving
  BY <1>1 DEF CommentaryItemAdded, ToolItemAdded, UnsupportedItemAdded, WebSearchItemAdded,
              PassiveItemAdded
<1> QED
  BY <1>2, <1>3

\* The handlers of output_item.done.
LEMMA DoneIsAStep ==
    ASSUME NEW x \in ItemIds, NEW item \in Message!OutputItem,
           Cardinality(KnownParts(item)) <= MaxBlocks, HandleDone(x, item)
    PROVE  Next /\ Receiving
<1>1. item.type \in Message!Types /\ DirectTools \cup ConvertedTools = Calls
  BY CallsAre DEF Message!OutputItem
<1> USE DEF Message!ToolOutputs
<1>2. CASE item.type = "message"
  <2> DEFINE outcome == Message!openAIMessageToBlocks(item)
  <2>1. HandleMessageDone(x, item)
    BY <1>2, CallsAre DEF HandleDone
  <2>2. \/ outcome.ok /\ MessageItemDone(x, Len(outcome.blocks))
        \/ MessageItemDoneFails(x) \/ MessageItemDone(x, 0)
    BY <2>1 DEF HandleMessageDone
  <2>3. outcome.ok => Len(outcome.blocks) \in 0 .. MaxBlocks
    <3>1. /\ Okay(item) <=> outcome.ok
          /\ Okay(item) => outcome.blocks = IF item.commentary THEN << >>
                                            ELSE Texts(Cardinality(KnownParts(item)))
      BY <1>2, ConvertsMessage DEF Okay, Made
    <3> DEFINE K == Cardinality(KnownParts(item))
    <3>2. K \in Nat /\ K <= MaxBlocks
      BY KnownIsFinite
    <3> HIDE DEF K
    <3>3. Len(Texts(K)) \in 0 .. MaxBlocks
      BY <3>2 DEF Texts, MaxBlocks
    <3>4. Len(<< >>) \in 0 .. MaxBlocks
      BY DEF MaxBlocks
    <3> HIDE DEF outcome
    <3>5. outcome.ok => outcome.blocks = IF item.commentary THEN << >> ELSE Texts(K)
      BY <3>1 DEF K
    <3>6. CASE item.commentary
      BY <3>4, <3>5, <3>6
    <3>7. CASE ~ item.commentary
      BY <3>3, <3>5, <3>7
    <3> QED
      BY <3>6, <3>7
  <2> HIDE DEF outcome
  <2>4. (\E n \in 0 .. MaxBlocks : MessageItemDone(x, n)) \/ MessageItemDoneFails(x)
    <3>1. 0 \in 0 .. MaxBlocks
      BY DEF MaxBlocks
    <3> QED
      BY <2>2, <2>3, <3>1
  <2>5. Next
    BY <2>4, Zenon DEF Next
  <2>6. Receiving
    BY <2>4 DEF MessageItemDone, MessageItemDoneFails
  <2> QED
    BY <2>5, <2>6
<1>3. CASE item.type = "reasoning"
  <2> DEFINE outcome == Message!openAIReasoningToThinkingBlock(item)
  <2>1. HandleReasoningDone(x, item)
    BY <1>3, CallsAre DEF HandleDone
  <2>2. ReasoningItemDone(x, Len(outcome.blocks)) \/ ReasoningItemDoneFails
    BY <2>1 DEF HandleReasoningDone
  <2>3. Len(outcome.blocks) \in 0 .. 1
    <3>1. outcome.blocks = IF item.body = "some" THEN <<"thinking">> ELSE << >>
      BY <1>3, ConvertsReasoning
    <3> HIDE DEF outcome
    <3> QED
      BY <3>1
  <2> HIDE DEF outcome
  <2>4. (\E n \in 0 .. 1 : ReasoningItemDone(x, n)) \/ ReasoningItemDoneFails
    BY <2>2, <2>3
  <2>5. Next
    BY <2>4, Zenon DEF Next
  <2>6. Receiving
    BY <2>4 DEF ReasoningItemDone, ReasoningItemDoneFails
  <2> QED
    BY <2>5, <2>6
<1>4. CASE item.type \in Calls
  <2> DEFINE result == IF item.type \in ResultTools THEN Message!callResultToBlock(item)
                       ELSE Message!Blocks(<< >>)
  <2>1. HandleToolDone(x, item)
    BY <1>1, <1>4, CallsAre DEF HandleDone
  <2>2. ToolItemDone(x, Len(result.blocks)) \/ ToolItemDoneFails(x, item.type)
    BY <2>1 DEF HandleToolDone
  <2>3. Len(result.blocks) \in 0 .. 1
    <3>1. result.blocks \in {<< >>, <<"tool_result">>}
      <4>1. CASE item.type \in ResultTools
        BY <4>1, CallsAre, ConvertsResultCall
      <4>2. CASE item.type \notin ResultTools
        BY <4>2 DEF Message!Blocks
      <4> QED
        BY <4>1, <4>2
    <3> HIDE DEF result
    <3> QED
      BY <3>1
  <2> HIDE DEF result
  <2>4. \/ \E n \in 0 .. 1 : ToolItemDone(x, n)
        \/ \E kind \in DirectTools \cup ConvertedTools : ToolItemDoneFails(x, kind)
    BY <1>1, <1>4, <2>2, <2>3
  <2>5. Next
    BY <2>4, Zenon DEF Next
  <2>6. Receiving
    BY <2>4 DEF ToolItemDone, ToolItemDoneFails
  <2> QED
    BY <2>5, <2>6
<1>5. CASE item.type = "web_search_call"
  <2>1. WebSearchItemDone(x)
    BY <1>5, CallsAre DEF HandleDone
  <2>2. Next
    BY <2>1, Zenon DEF Next
  <2> QED
    BY <2>1, <2>2 DEF WebSearchItemDone
<1>6. CASE item.type = "compaction"
  <2>1. CompactionItemDone(x, item.body = "none")
    BY <1>6, CallsAre DEF HandleDone
  <2>2. \E isEmpty \in BOOLEAN : CompactionItemDone(x, isEmpty)
    <3>1. (item.body = "none") \in BOOLEAN
      OBVIOUS
    <3> QED
      BY <2>1, <3>1
  <2>3. Next
    BY <2>2, Zenon DEF Next
  <2> QED
    BY <2>2, <2>3 DEF CompactionItemDone
<1>7. CASE item.type \in Message!ToolOutputs
  <2> DEFINE outcome == Message!toolOutputToBlock(item)
  <2>1. HandleOutputDone(x, item)
    BY <1>7, CallsAre DEF HandleDone
  <2>2. StandaloneItemDone(x, item.type, Len(outcome.blocks)) \/ StandaloneItemDoneFails(item.type)
    BY <2>1 DEF HandleOutputDone
  <2>3. Len(outcome.blocks) \in 0 .. 1
    <3>1. outcome.blocks \in {<< >>, <<item.type>>}
      BY <1>7, ConvertsOutput DEF Made
    <3> HIDE DEF outcome
    <3> QED
      BY <3>1
  <2> HIDE DEF outcome
  <2>4. item.type \in {"tool_search_output", "computer_call_output"} /\ item.type \in Standalone
    BY <1>7 DEF Standalone
  <2>5. \/ \E kind \in {"tool_search_output", "computer_call_output"}, n \in 0 .. 1 :
              StandaloneItemDone(x, kind, n)
        \/ \E kind \in Standalone : StandaloneItemDoneFails(kind)
    BY <2>2, <2>3, <2>4
  <2>6. Next
    BY <2>5, Zenon DEF Next
  <2>7. Receiving
    BY <2>5 DEF StandaloneItemDone, StandaloneItemDoneFails
  <2> QED
    BY <2>6, <2>7
<1>8. CASE item.type \in {"image_generation_call", "unrecognized"}
  <2>1. StandaloneItemDone(x, item.type, 1)
    BY <1>1, <1>8, CallsAre, OpaqueMade DEF HandleDone, HandleOpaqueDone
  <2>2. \E kind \in {"image_generation_call", "unrecognized"} : StandaloneItemDone(x, kind, 1)
    BY <1>8, <2>1
  <2>3. Next
    BY <2>2, Zenon DEF Next
  <2> QED
    BY <2>2, <2>3 DEF StandaloneItemDone
<1>9. CASE item.type = "blank"
  <2>1. StandaloneItemDoneFails("unrecognized")
    BY <1>1, <1>9, CallsAre, OpaqueMade DEF HandleDone, HandleOpaqueDone
  <2>2. \E kind \in Standalone : StandaloneItemDoneFails(kind)
    BY <2>1 DEF Standalone
  <2>3. Next
    BY <2>2, Zenon DEF Next
  <2> QED
    BY <2>1, <2>3 DEF StandaloneItemDoneFails
<1> QED
  BY <1>1, <1>2, <1>3, <1>4, <1>5, <1>6, <1>7, <1>8, <1>9
     DEF Message!Types, Message!OtherTypes, Calls

\* One event of a response.
LEMMA HandleIsAStep ==
    ASSUME output \in Responses, streamed \in [DOMAIN output -> BOOLEAN],
           at \in 1 .. Len(output), sent \in Nat, sent < Len(Events(at)),
           Handle(Ids[at], at - 1, output[at], Events(at)[sent + 1])
    PROVE  Next /\ Receiving
<1> DEFINE x == Ids[at]
           item == output[at]
           d == DetailEvents(item)
           L == Len(d)
           event == Events(at)[sent + 1]
<1>1. /\ item \in Message!OutputItem /\ at \in DOMAIN output /\ Item(output, at)
      /\ 0 .. (Len(item.parts) - 1) \subseteq Parts /\ Cardinality(KnownParts(item)) <= MaxBlocks
  BY ResponseFacts DEF IsResponse, Item
<1>2. x \in ItemIds /\ at - 1 \in Outputs /\ streamed[at] \in BOOLEAN
  <2>1. at \in at .. Len(output)
    OBVIOUS
  <2> QED
    BY <1>1, <2>1, ItemFacts
<1>3. /\ L \in Nat
      /\ streamed[at] =>
            /\ Len(Events(at)) = (L + 1) + 1
            /\ Events(at)[1].name = "added"
            /\ \A i \in 1 .. L : Events(at)[i + 1] = d[i]
            /\ Events(at)[(L + 1) + 1].name = "done"
      /\ ~ streamed[at] => Len(Events(at)) = 1 /\ Events(at)[1].name = "done"
  BY <1>1, <1>2, EventsAre
<1>4. /\ d \in Seq(Detail)
      /\ item.type = "message" => d = MessageEvents(item.parts)
      /\ item.type = "reasoning" => \/ L = 0
                                    \/ d = <<Event("thinking.delta", 0), Event("thinking.done", 0)>>
      /\ item.type \notin {"message", "reasoning"} =>
            \/ L = 0
            \/ d = <<Event("arguments.delta", 0), Event("arguments.done", 0)>>
  BY <1>1, DetailsAre
<1>5. Handle(x, at - 1, item, event)
  OBVIOUS
<1>6. CASE event.name = "added"
  <2>1. HandleAdded(x, at - 1, item)
    BY <1>5, <1>6 DEF Handle
  <2> QED
    BY <1>2, <2>1, AddedIsAStep
<1>7. CASE event.name = "done"
  <2>1. HandleDone(x, item)
    BY <1>5, <1>7 DEF Handle
  <2> QED
    BY <1>1, <1>2, <2>1, DoneIsAStep
<1>8. CASE event.name \notin {"added", "done"}
  <2>1. sent \in 1 .. L /\ event = d[sent]
    <3>1. CASE ~ streamed[at]
      BY <1>3, <1>8, <3>1
    <3>2. CASE streamed[at]
      <4>1. sent # 0 /\ sent + 1 # (L + 1) + 1
        <5>1. 0 + 1 = 1
          OBVIOUS
        <5> QED
          BY <1>3, <1>8, <3>2, <5>1
      <4>2. sent < (L + 1) + 1
        BY <1>3, <3>2
      <4> HIDE DEF L
      <4>3. sent \in 1 .. L
        BY <1>3, <4>1, <4>2
      <4> QED
        BY <1>3, <3>2, <4>3
    <3> QED
      BY <1>2, <3>1, <3>2
  <2> HIDE DEF event
  <2>2. CASE item.type = "message"
    <3>1. EventsOf(d, item.parts, Len(item.parts))
      BY <1>1, <1>4, <2>2, MessageEventsAre DEF Message!OutputItem
    <3> DEFINE part == event.part
    <3> HIDE DEF d
    <3>2. part \in Parts /\ event.name \in PartNames
      <4>1. d \in Seq(PartEvent) /\ \A i \in 1 .. Len(d) : d[i].part \in 0 .. (Len(item.parts) - 1)
        BY <3>1 DEF EventsOf
      <4>2. event \in PartEvent /\ event.part \in 0 .. (Len(item.parts) - 1)
        BY <2>1, <4>1
      <4> QED
        BY <1>1, <4>2 DEF PartEvent
    <3> HIDE DEF part
    <3>3. \/ ContentPartAdded(x, at - 1, part, TRUE) \/ ContentPartAdded(x, at - 1, part, FALSE)
          \/ OutputTextDelta(x, at - 1, part) \/ RefusalDelta(x, at - 1, part)
          \/ RefusalDone(x, at - 1, part) \/ ContentPartDone(x, at - 1, part, 0)
      BY <1>5, <3>2 DEF Handle, PartNames, part
    <3>4. TRUE \in BOOLEAN /\ FALSE \in BOOLEAN /\ 0 \in 0 .. MaxCitations
      BY DEF MaxCitations
    <3>5. \E id \in ItemIds, out \in Outputs, p \in Parts :
             \/ \E isText \in BOOLEAN : ContentPartAdded(id, out, p, isText)
             \/ OutputTextDelta(id, out, p)
             \/ \E n \in 0 .. MaxCitations : ContentPartDone(id, out, p, n)
             \/ RefusalDelta(id, out, p)
             \/ RefusalDone(id, out, p)
      BY <1>2, <3>2, <3>3, <3>4
    <3>6. Next
      BY <3>5, Zenon DEF Next
    <3> QED
      BY <3>3, <3>6 DEF ContentPartAdded, OutputTextDelta, RefusalDelta, RefusalDone,
                        ContentPartDone
  <2>3. CASE item.type = "reasoning"
    <3>1. d = <<Event("thinking.delta", 0), Event("thinking.done", 0)>>
      BY <1>4, <2>1, <2>3
    <3>2. event.name \in {"thinking.delta", "thinking.done"}
      BY <2>1, <3>1 DEF Event
    <3>3. ReasoningDelta(x) \/ ReasoningTextDone
      BY <1>5, <3>2 DEF Handle
    <3>4. Next
      BY <1>2, <3>3, Zenon DEF Next
    <3> QED
      BY <3>3, <3>4 DEF ReasoningDelta, ReasoningTextDone
  <2>4. CASE item.type \notin {"message", "reasoning"}
    <3>1. d = <<Event("arguments.delta", 0), Event("arguments.done", 0)>>
      BY <1>4, <2>1, <2>4
    <3>2. event.name \in {"arguments.delta", "arguments.done"}
      BY <2>1, <3>1 DEF Event
    <3>3. ToolArgumentsDelta(x, at - 1) \/ ToolArgumentsDone(x, at - 1)
      BY <1>5, <3>2 DEF Handle
    <3>4. Next
      BY <1>2, <3>3, Zenon DEF Next
    <3> QED
      BY <3>3, <3>4 DEF ToolArgumentsDelta, ToolArgumentsDone
  <2> QED
    BY <2>2, <2>3, <2>4
<1> QED
  BY <1>6, <1>7, <1>8

\* The terminal event: no new block, and the stop reason is told.
LEMMA TerminalHandled ==
    ASSUME IInv, NEW status \in {"completed", "incomplete"}, ResponseEnded(status, "none")
    PROVE  /\ Next /\ Receiving /\ phase' = phase
           /\ Yields(bridge, bridge', << >>)
           /\ \E m \in DOMAIN bridge'.out :
                 /\ bridge'.out[m].type = "message_delta"
                 /\ bridge'.out[m].what = deriveStopReason(status, "none", bridge.toolUsed)
<1> DEFINE b == ensureMessageStart(bridge)
           stop == deriveStopReason(status, "none", b.toolUsed)
<1>1. PICK order \in Ascending(OpenTextBlocks(b)) :
         Receiving /\ Return(finishMessage(flushOpenTextBlocks(b, order), stop))
  BY DEF ResponseEnded
<1>2. bridge \in Bridge /\ Sound(b)
  BY <1>1, Reading DEF IInv
<1>3. Yields(bridge, b, << >>)
  BY <1>2, YieldsEnsure
<1>4. stop \in Details /\ stop = deriveStopReason(status, "none", bridge.toolUsed)
  BY <1>3, StopReasonIsADetail DEF Yields, Kept
<1> HIDE DEF b, stop
<1> DEFINE c == flushOpenTextBlocks(b, order)
           d == finishMessage(c, stop)
<1>5. Yields(b, c, << >>)
  BY <1>2, YieldsFlush
<1>6. c \in Bridge
  BY <1>5 DEF Yields, Kept
<1> HIDE DEF c
<1>7. /\ Yields(c, d, << >>)
      /\ \E m \in DOMAIN d.out : d.out[m].type = "message_delta" /\ d.out[m].what = stop
  BY <1>4, <1>6, YieldsFinish
<1> HIDE DEF d
<1>8. Yields(bridge, c, << >>)
  BY <1>2, <1>3, <1>5, YieldsThen
<1>9. Yields(bridge, d, << >>)
  BY <1>2, <1>7, <1>8, YieldsThen
<1>10. bridge' = d /\ phase' = phase
  BY <1>1 DEF Return, c, d
<1>11. Next
  <2>1. \E s \in {"completed", "incomplete", "failed", "cancelled"},
           reason \in {"none", "max_output_tokens", "content_filter"} : ResponseEnded(s, reason)
    OBVIOUS
  <2> QED
    BY <2>1, Zenon DEF Next
<1> QED
  BY <1>1, <1>4, <1>7, <1>9, <1>10, <1>11

\* Each step is one of the bridge, or leaves the bridge alone.
LEMMA AgreementStepIsABridgeStep ==
    ASSUME output \in Responses, streamed \in [DOMAIN output -> BOOLEAN], at \in Nat, at >= 1,
           sent \in Nat, at <= Len(output) => sent < Len(Events(at)),
           IInv, [AgreementNext]_allVars
    PROVE  [Next]_vars
<1>1. CASE SendEvent
  <2>1. at \in 1 .. Len(output)
    BY <1>1, ResponseFacts DEF SendEvent
  <2> QED
    BY <1>1, <2>1, HandleIsAStep DEF SendEvent
<1>2. ASSUME NEW status \in {"completed", "incomplete"}, SendTerminal(status)
      PROVE  [Next]_vars
  BY <1>2, TerminalHandled DEF SendTerminal
<1>3. CASE Deliver
  BY <1>3, Zenon DEF Next
<1>4. CASE Finished
  BY <1>4 DEF Finished, allVars
<1>5. CASE UNCHANGED allVars
  BY <1>5 DEF allVars
<1> QED
  BY <1>1, <1>2, <1>3, <1>4, <1>5 DEF AgreementNext

-----------------------------------------------------------------------------
(* The invariant                                                            *)

\* Where the upstream is in the response.
Place ==
    /\ output \in Responses
    /\ streamed \in [DOMAIN output -> BOOLEAN]
    /\ at \in 1 .. (Len(output) + 1)
    /\ sent \in Nat
    /\ at <= Len(output) => sent < Len(Events(at))
    /\ at > Len(output) => sent = 0
    /\ ended \in {"no", "completed", "incomplete"}
    /\ ended # "no" => at > Len(output)

\* The stream has failed on an item that the whole conversion refuses too, or it
\* has shown what is made of the items before this one and begun with this one,
\* or it is over and has told how the response ended.
Failed == ended = "no" /\ \E k \in 1 .. Len(output) : ~ Okay(output[k])

Underway ==
    /\ \A j \in 1 .. (at - 1) : Okay(output[j])
    /\ Stage(output, streamed, bridge, at, sent)

Over ==
    /\ \A j \in 1 .. Len(output) : Okay(output[j])
    /\ Shows(bridge) = Whole(output)[Len(output)]
    /\ bridge.serverToolUseCount = Cardinality(Searches(output, Len(output)))
    /\ \E m \in DOMAIN bridge.out :
          /\ bridge.out[m].type = "message_delta"
          /\ bridge.out[m].what = deriveStopReason(ended, "none", UsedTool(output, Len(output)))

Agreed ==
    /\ phase \in {"reading", "failed"}
    /\ phase = "failed" => Failed
    /\ phase = "reading" /\ ended = "no" => Underway
    /\ ended # "no" => Over

AInv == IInv /\ Place /\ (~ Different => Agreed)

\* The steps leave the response alone.
LEMMA ResponseStays ==
    ASSUME UNCHANGED <<output, streamed>>
    PROVE  /\ Different' <=> Different
           /\ \A k : Events(k)' = Events(k)
<1>1. output' = output /\ streamed' = streamed
  OBVIOUS
<1>2. \A k : Events(k)' = Events(k)
  BY <1>1 DEF Events
<1>3. /\ RefusalOfCommentary' <=> RefusalOfCommentary
      /\ StreamedMessageUnread' <=> StreamedMessageUnread
      /\ StreamedTextPart' <=> StreamedTextPart
      /\ BlankItem' <=> BlankItem
      /\ ReasoningMerged' <=> ReasoningMerged
      /\ UnreadableReasoning' <=> UnreadableReasoning
      /\ BlockOfBrokenCall' <=> BlockOfBrokenCall
      /\ StrictDiffers' <=> StrictDiffers
  BY <1>1, Zenon DEF RefusalOfCommentary, StreamedMessageUnread, StreamedTextPart, BlankItem,
                     ReasoningMerged, UnreadableReasoning, BlockOfBrokenCall, StrictDiffers
<1> QED
  BY <1>2, <1>3 DEF Different

\* An item has at least one event.
LEMMA SomeEvent ==
    ASSUME output \in Responses, streamed \in [DOMAIN output -> BOOLEAN], NEW k \in 1 .. Len(output)
    PROVE  0 < Len(Events(k)) /\ Len(Events(k)) \in Nat
<1> DEFINE L == Len(DetailEvents(output[k]))
<1>1. output[k] \in Message!OutputItem /\ streamed[k] \in BOOLEAN
  BY ResponseFacts DEF IsResponse
<1>2. /\ L \in Nat
      /\ streamed[k] => Len(Events(k)) = (L + 1) + 1
      /\ ~ streamed[k] => Len(Events(k)) = 1
  BY <1>1, EventsAre
<1> HIDE DEF L
<1>3. CASE streamed[k]
  <2>1. Len(Events(k)) = (L + 1) + 1
    BY <1>2, <1>3
  <2>2. 0 < (L + 1) + 1 /\ (L + 1) + 1 \in Nat
    BY <1>2
  <2> QED
    BY <2>1, <2>2
<1>4. CASE ~ streamed[k]
  <2>1. Len(Events(k)) = 1
    BY <1>2, <1>4
  <2> QED
    BY <2>1
<1> QED
  BY <1>3, <1>4

\* Before the first event the bridge is at the first item.
LEMMA AgreementBegins ==
    ASSUME AgreementInit
    PROVE  AInv
<1>1. IInv
  BY InitEstablishesIInv DEF AgreementInit
<1>2. /\ IsResponse(output) /\ Len(output) \in Nat /\ DOMAIN output = 1 .. Len(output)
      /\ Len(output) <= Len(Ids)
  BY ResponseFacts DEF AgreementInit
<1>3. Place
  <2>1. at <= Len(output) => sent < Len(Events(at))
    BY <1>2, SomeEvent DEF AgreementInit
  <2> QED
    BY <1>2, <2>1 DEF AgreementInit, Place
<1>4. Stage(output, streamed, bridge, 1, 0)
  <2>1. bridge = newStreamState /\ bridge \in Bridge /\ bridge.out = << >>
    BY <1>1 DEF AgreementInit, Init, IInv, newStreamState
  <2>2. Shows(bridge) = << >>
    <3>1. Shows(bridge) = ShownIn(<< >>)
      BY <2>1 DEF Shows
    <3>2. ShownIn(<< >>) = << >>
      BY EmptyShown
    <3> QED
      BY <3>1, <3>2
  <2>3. 1 - 1 = 0 /\ Whole(output)[0] = << >> /\ << >> \o << >> = << >>
    <3>1. Whole(output)[0] = << >> /\ << >> \in Seq(Details)
      BY <1>2, WholeRounds, EmptyTyped
    <3>2. \A s \in Seq(Details) : s \o << >> = s
      OBVIOUS
    <3> QED
      BY <3>1, <3>2
  <2>4. Searches(output, 0) = {} /\ Cardinality({}) = 0 /\ ~ UsedTool(output, 0)
        /\ ~ StreamedThinking(output, streamed, 0)
    BY FS_EmptySet DEF Searches, UsedTool, StreamedThinking
  <2>5. /\ bridge.serverToolUseCount = 0 /\ ~ bridge.toolUsed /\ ~ thinkingStarted(bridge)
        /\ bridge.ignoredMessageItemID = {} /\ bridge.webSearchEmitted = {}
        /\ \A x \in ItemIds : bridge.toolIndexByItemID[x] = Absent
        /\ \A key \in Keys : bridge.textIndexByKey[key] = Absent
    BY <2>1 DEF newStreamState, thinkingStarted
  <2>6. ASSUME NEW j \in 1 .. Len(output)
        PROVE  Knows(bridge, Ids[j], output[j], 0)
    <3>1. Ids[j] \in ItemIds /\ Ids[j] \in Owners
      <4>1. Item(output, j) /\ j \in j .. Len(output)
        BY <1>2 DEF Item
      <4> QED
        BY <4>1, ItemFacts
    <3>2. \A p \in Parts : <<Ids[j], p>> \in Keys
      BY <3>1 DEF Keys
    <3>3. ~ ToolBegun(output[j], 0) /\ ~ IsIgnored(output[j], 0) /\ PartsBegun(output[j], 0) = {}
      BY BegunNothing
    <3> QED
      BY <2>5, <3>1, <3>2, <3>3 DEF Knows
  <2>7. ~ ToolBegun(output[1], 0) /\ ~ ThinkingBegun(output[1], 0) /\ Begun(output[1], 0) = << >>
    BY BegunNothing
  <2>8. \A j \in 1 .. Len(output) : Knows(bridge, Ids[j], output[j], IF j = 1 THEN 0 ELSE 0)
    BY <2>6
  <2> QED
    BY <2>1, <2>2, <2>3, <2>4, <2>5, <2>7, <2>8 DEF Stage
<1>5. Agreed
  <2>1. phase = "reading" /\ ended = "no" /\ at = 1 /\ sent = 0
    BY DEF AgreementInit, Init
  <2>2. Underway
    BY <1>4, <2>1 DEF Underway
  <2> QED
    BY <2>1, <2>2 DEF Agreed
<1> QED
  BY <1>1, <1>3, <1>5 DEF AInv

\* The upstream goes through the response item by item.
LEMMA StepKeepsPlace ==
    ASSUME IInv, Place, [AgreementNext]_allVars
    PROVE  Place'
<1>1. Len(output) \in Nat
  BY ResponseFacts DEF Place
<1>2. CASE SendEvent
  <2>1. at \in 1 .. Len(output) /\ output' = output /\ streamed' = streamed /\ ended' = ended
        /\ ended = "no"
    BY <1>1, <1>2 DEF SendEvent, Place
  <2>2. \A k : Events(k)' = Events(k)
    BY <2>1, ResponseStays
  <2>3. CASE sent + 1 = Len(Events(at))
    <3>1. at' = at + 1 /\ sent' = 0
      BY <1>2, <2>3 DEF SendEvent
    <3>2. at + 1 <= Len(output) => 0 < Len(Events(at + 1))
      BY <1>1, <2>1, SomeEvent DEF Place
    <3>3. at' <= Len(output)' => sent' < Len(Events(at))'
      BY <2>1, <3>1, <3>2 DEF Events
    <3> QED
      BY <1>1, <2>1, <3>1, <3>3 DEF Place
  <2>4. CASE sent + 1 # Len(Events(at))
    <3>1. at' = at /\ sent' = sent + 1
      BY <1>2, <2>4 DEF SendEvent
    <3>2. sent + 1 < Len(Events(at))
      BY <2>1, <2>4, SomeEvent DEF Place
    <3>3. Len(Events(at))' = Len(Events(at))
      BY <2>1, <3>1 DEF Events
    <3> QED
      BY <1>1, <2>1, <3>1, <3>2, <3>3 DEF Place
  <2> QED
    BY <2>3, <2>4
<1>3. ASSUME NEW status \in {"completed", "incomplete"}, SendTerminal(status)
      PROVE  Place'
  BY <1>3 DEF SendTerminal, Place, Events
<1>4. CASE UNCHANGED source
  BY <1>4 DEF source, Place, Events
<1> QED
  BY <1>2, <1>3, <1>4 DEF AgreementNext, Finished, allVars

\* Nothing changes when no event is handled.
LEMMA AgreedStays ==
    ASSUME Agreed, UNCHANGED <<bridge, phase, source>>
    PROVE  Agreed'
<1>1. /\ bridge' = bridge /\ phase' = phase /\ output' = output /\ streamed' = streamed
      /\ at' = at /\ sent' = sent /\ ended' = ended
  BY DEF source
<1>2. (Failed' <=> Failed) /\ (Underway' <=> Underway) /\ (Over' <=> Over)
  BY <1>1 DEF Failed, Underway, Over
<1> QED
  BY <1>1, <1>2 DEF Agreed

\* An event of an item: the bridge goes on as far as the whole conversion, or both
\* refuse the item.
LEMMA EventKeepsAgreed ==
    ASSUME IInv, Place, Agreed, ~ Different, SendEvent
    PROVE  Agreed'
<1>1. Len(output) \in Nat
  BY ResponseFacts DEF Place
<1>2. /\ at \in 1 .. Len(output) /\ sent \in Nat /\ sent < Len(Events(at))
      /\ output' = output /\ streamed' = streamed /\ ended' = "no" /\ ended = "no"
      /\ Handle(Ids[at], at - 1, output[at], Events(at)[sent + 1])
  BY <1>1 DEF SendEvent, Place
<1>3. phase = "reading"
  BY <1>2, HandleIsAStep DEF Place, Receiving
<1>4. Underway
  BY <1>2, <1>3 DEF Agreed
<1>5. Sending
  BY <1>2, <1>4 DEF Sending, Place, Underway
<1>6. IF sent + 1 = Len(Events(at)) THEN Completes \/ Refuses
      ELSE Advances(at, sent + 1) \/ Refuses
  BY <1>2, <1>5, EventHandled
<1>7. CASE Refuses
  <2>1. phase' = "failed" /\ ~ Okay(output[at])
    BY <1>7 DEF Refuses, ReturnError
  <2>2. Failed'
    BY <1>2, <2>1 DEF Failed
  <2> QED
    BY <1>2, <2>1, <2>2 DEF Agreed
<1>8. CASE sent + 1 = Len(Events(at)) /\ Completes
  <2>1. at' = at + 1 /\ sent' = 0
    BY <1>8 DEF SendEvent
  <2>2. PICK c : Return(c) /\ Stage(output, streamed, c, at + 1, 0)
    BY <1>8 DEF Completes, Advances
  <2>3. bridge' = c /\ phase' = phase
    BY <2>2 DEF Return
  <2>4. \A j \in 1 .. ((at + 1) - 1) : Okay(output[j])
    <3>1. \A j \in 1 .. ((at + 1) - 1) : j = at \/ j \in 1 .. (at - 1)
      BY <1>2
    <3> QED
      BY <1>4, <1>8, <3>1 DEF Underway, Completes
  <2>5. Underway'
    BY <1>2, <2>1, <2>2, <2>3, <2>4 DEF Underway
  <2> QED
    BY <1>2, <1>3, <2>3, <2>5 DEF Agreed
<1>9. CASE sent + 1 # Len(Events(at)) /\ Advances(at, sent + 1)
  <2>1. at' = at /\ sent' = sent + 1
    BY <1>9 DEF SendEvent
  <2>2. PICK c : Return(c) /\ Stage(output, streamed, c, at, sent + 1)
    BY <1>9 DEF Advances
  <2>3. bridge' = c /\ phase' = phase
    BY <2>2 DEF Return
  <2>4. Underway'
    BY <1>2, <1>4, <2>1, <2>2, <2>3 DEF Underway
  <2> QED
    BY <1>2, <1>3, <2>3, <2>4 DEF Agreed
<1> QED
  BY <1>6, <1>7, <1>8, <1>9

\* The terminal event after the last item.
LEMMA TerminalKeepsAgreed ==
    ASSUME IInv, Place, Agreed, NEW status \in {"completed", "incomplete"}, SendTerminal(status)
    PROVE  Agreed'
<1> DEFINE N == Len(output)
<1>1. IsResponse(output) /\ N \in Nat
  BY ResponseFacts DEF Place
<1>2. /\ at = N + 1 /\ sent = 0 /\ ended = "no" /\ ended' = status
      /\ output' = output /\ streamed' = streamed
      /\ ResponseEnded(status, "none")
  BY <1>1 DEF SendTerminal, Place
<1>3. /\ Receiving /\ phase' = phase
      /\ Yields(bridge, bridge', << >>)
      /\ \E m \in DOMAIN bridge'.out :
            /\ bridge'.out[m].type = "message_delta"
            /\ bridge'.out[m].what = deriveStopReason(status, "none", bridge.toolUsed)
  BY <1>2, TerminalHandled
<1>4. phase = "reading" /\ Underway
  BY <1>2, <1>3 DEF Receiving, Agreed
<1>5. N \in 0 .. N /\ at - 1 = N
  BY <1>1, <1>2
<1>6. Begun(output[at], 0) = << >> /\ ~ ToolBegun(output[at], 0)
  BY BegunNothing
<1>7. Shows(bridge) = Whole(output)[N]
  <2>1. Whole(output)[N] \in Seq(BlockTypes)
    BY <1>1, <1>5, WholeRounds
  <2>2. Whole(output)[N] \o << >> = Whole(output)[N]
    BY <2>1
  <2> QED
    BY <1>2, <1>4, <1>5, <1>6, <2>2 DEF Underway, Stage
<1>8. /\ bridge.serverToolUseCount = Cardinality(Searches(output, N))
      /\ bridge.toolUsed <=> UsedTool(output, N)
      /\ bridge \in Bridge
  BY <1>2, <1>4, <1>5, <1>6 DEF Underway, Stage
<1>9. deriveStopReason(status, "none", bridge.toolUsed)
      = deriveStopReason(status, "none", UsedTool(output, N))
  <2>1. CASE UsedTool(output, N)
    BY <1>8, <2>1 DEF deriveStopReason
  <2>2. CASE ~ UsedTool(output, N)
    BY <1>8, <2>2 DEF deriveStopReason
  <2> QED
    BY <2>1, <2>2
<1>10. Shows(bridge') = Whole(output)[N]
  <2>1. Shows(bridge') = Shows(bridge) \o << >>
    BY <1>3 DEF Yields
  <2>2. Shows(bridge) \o << >> = Shows(bridge)
    BY <1>8, ShowsTyped
  <2> QED
    BY <1>7, <2>1, <2>2
<1>11. bridge'.serverToolUseCount = Cardinality(Searches(output, N))
  BY <1>3, <1>8 DEF Yields, Kept
<1>12. \A j \in 1 .. N : Okay(output[j])
  BY <1>4, <1>5 DEF Underway
<1>13. Over'
  <2>1. \E m \in DOMAIN bridge'.out :
            /\ bridge'.out[m].type = "message_delta"
            /\ bridge'.out[m].what = deriveStopReason(ended', "none", UsedTool(output', Len(output')))
    BY <1>2, <1>3, <1>9
  <2>2. Shows(bridge)' = Shows(bridge')
    OBVIOUS
  <2> QED
    BY <1>2, <1>10, <1>11, <1>12, <2>1, <2>2 DEF Over
<1> QED
  BY <1>2, <1>3, <1>4, <1>13 DEF Agreed

\* Every step keeps the invariant.
LEMMA StepKeepsAInv ==
    ASSUME AInv, [AgreementNext]_allVars
    PROVE  AInv'
<1>1. IInv /\ Place
  BY DEF AInv
<1>2. Place'
  BY <1>1, StepKeepsPlace
<1>3. IInv'
  <2>1. at \in Nat /\ at >= 1
    BY <1>1, ResponseFacts DEF Place
  <2>2. [Next]_vars
    BY <1>1, <2>1, AgreementStepIsABridgeStep DEF Place
  <2> QED
    BY <1>1, <2>2, NextKeepsIInv
<1>4. UNCHANGED <<output, streamed>>
  BY DEF AgreementNext, SendEvent, SendTerminal, Finished, source, allVars
<1>5. ASSUME ~ Different'
      PROVE  Agreed'
  <2>1. ~ Different /\ Agreed
    BY <1>4, <1>5, ResponseStays DEF AInv
  <2>2. CASE SendEvent
    BY <1>1, <2>1, <2>2, EventKeepsAgreed
  <2>3. ASSUME NEW status \in {"completed", "incomplete"}, SendTerminal(status)
        PROVE  Agreed'
    BY <1>1, <2>1, <2>3, TerminalKeepsAgreed
  <2>4. CASE Deliver /\ UNCHANGED source
    BY <2>1, <2>4, AgreedStays DEF Deliver, source
  <2>5. CASE Finished \/ UNCHANGED allVars
    BY <2>1, <2>5, AgreedStays DEF Finished, allVars, vars, source
  <2> QED
    BY <2>2, <2>3, <2>4, <2>5 DEF AgreementNext
<1> QED
  BY <1>2, <1>3, <1>5 DEF AInv

-----------------------------------------------------------------------------
(* The theorems                                                             *)

\* The invariant holds of every state, for any responses.
LEMMA Invariant == AgreementSpec => []AInv
<1>1. AgreementInit => AInv
  BY AgreementBegins
<1>2. AInv /\ [AgreementNext]_allVars => AInv'
  BY StepKeepsAInv
<1> QED
  BY <1>1, <1>2, PTL DEF AgreementSpec

\* A response streamed is a run of the bridge: everything proved of the bridge for
\* any upstream holds of it.
THEOREM StreamedResponsesRunTheBridge == AgreementSpec => Spec
<1>1. AgreementInit => Init
  BY DEF AgreementInit
<1>2. AInv /\ [AgreementNext]_allVars => [Next]_vars
  <2> SUFFICES ASSUME AInv, [AgreementNext]_allVars
               PROVE  [Next]_vars
    OBVIOUS
  <2>1. IInv /\ Place
    BY DEF AInv
  <2>2. at \in Nat /\ at >= 1
    BY <2>1, ResponseFacts DEF Place
  <2> QED
    BY <2>1, <2>2, AgreementStepIsABridgeStep DEF Place
<1> QED
  BY <1>1, <1>2, Invariant, PTL DEF AgreementSpec, Spec

\* A response that cannot be converted is an error for the client whether it was
\* streamed or not, and no other is, except where Different says so: in strict mode,
\* for one, a message of which a "text" part was streamed is no error, and whole it is.
THEOREM SameFailures == AgreementSpec => []SameFailure
<1>1. AInv => SameFailure
  <2> SUFFICES ASSUME AInv, ~ Different
               PROVE  /\ phase = "failed" => Message!Fails(output)
                      /\ ended # "no" => ~ Message!Fails(output)
    BY DEF SameFailure
  <2>1. DOMAIN output = 1 .. Len(output)
    BY ResponseFacts DEF AInv, Place
  <2>2. Message!Fails(output) <=> \E k \in 1 .. Len(output) : ~ Okay(output[k])
    BY <2>1 DEF Message!Fails, Okay
  <2> QED
    BY <2>2 DEF AInv, Agreed, Failed, Over
<1> QED
  BY <1>1, Invariant, PTL

\* The client gets the same blocks in the same order, whichever items were
\* streamed part by part: thinking and the rest each in the order of the whole
\* response, except where Different says so.  A streamed part of type "text" and, in
\* best-effort mode, an item of blank type are two of its cases.
THEOREM BlocksAgree == AgreementSpec => []SameBlocks
<1>1. AInv => SameBlocks
  <2> SUFFICES ASSUME AInv, ~ Different, ended # "no"
               PROVE  /\ Thinking(Shown)  = Thinking(Message!content(output))
                      /\ AllOthers(Shown) = AllOthers(Message!content(output))
    BY DEF SameBlocks
  <2>1. IsResponse(output)
    BY ResponseFacts DEF AInv, Place
  <2>2. Shown = Shows(bridge)
    BY DEF Shown, Shows, ShownIn
  <2>3. Shows(bridge) = Whole(output)[Len(output)]
    BY DEF AInv, Agreed, Over
  <2> QED
    BY <2>1, <2>2, <2>3, WholeIsContent
<1> QED
  BY <1>1, Invariant, PTL

\* The stop reason and the number of searches are the same too.
THEOREM SummariesAgree == AgreementSpec => []SameSummary
<1>1. AInv => SameSummary
  <2> DEFINE N == Len(output)
             Lists == \E k \in DOMAIN output : output[k].type = "mcp_list_tools"
  <2> SUFFICES ASSUME AInv, ~ Different, ended # "no"
               PROVE  /\ bridge.serverToolUseCount = Message!serverToolUseCount(output)
                      /\ Lists \/ \E m \in DOMAIN bridge.out :
                            /\ bridge.out[m].type = "message_delta"
                            /\ bridge.out[m].what = deriveStopReason(ended, "none", Message!toolUsed(output))
    BY DEF SameSummary
  <2>1. DOMAIN output = 1 .. N
    BY ResponseFacts DEF AInv, Place
  <2>2. Over
    BY DEF AInv, Agreed
  <2>3. bridge.serverToolUseCount = Message!serverToolUseCount(output)
    <3>1. Searches(output, N) = {k \in DOMAIN output : output[k].type = "web_search_call"}
      BY <2>1 DEF Searches
    <3>2. \A S : Message!Cardinality(S) = Cardinality(S)
      BY DEF Message!Cardinality, Cardinality
    <3> QED
      BY <2>2, <3>1, <3>2 DEF Over, Message!serverToolUseCount
  <2>4. ~ Lists => (UsedTool(output, N) <=> Message!toolUsed(output))
    BY <2>1 DEF UsedTool, Calls, Message!toolUsed
  <2>5. ~ Lists => deriveStopReason(ended, "none", UsedTool(output, N))
                   = deriveStopReason(ended, "none", Message!toolUsed(output))
    <3>1. CASE UsedTool(output, N)
      BY <2>4, <3>1 DEF deriveStopReason
    <3>2. CASE ~ UsedTool(output, N)
      BY <2>4, <3>2 DEF deriveStopReason
    <3> QED
      BY <3>1, <3>2
  <2> QED
    BY <2>2, <2>3, <2>5 DEF Over
<1> QED
  BY <1>1, Invariant, PTL
=============================================================================
