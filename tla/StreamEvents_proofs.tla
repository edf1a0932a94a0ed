------------------------- MODULE StreamEvents_proofs -------------------------
(***************************************************************************)
(* Lemmas about sequences and about DecodeOpenAIStreamLine, for the proofs *)
(* of the modules that read a stream.                                      *)
(***************************************************************************)
EXTENDS StreamAggregate, TLAPS, WellFoundedInduction, FiniteSetTheorems

(* ------------------------------ induction ------------------------------ *)

\* A set with 0 and with the successor of each of its numbers has them all.
LEMMA SetInduction ==
  ASSUME NEW T, 0 \in T, \A n \in Nat : n \in T => n + 1 \in T
  PROVE  Nat \subseteq T
<1> DEFINE R == OpToRel(<, Nat)
           S == Nat \ T
<1>1. IsWellFoundedOn(R, Nat)
  BY NatLessThanWellFounded
<1>2. SUFFICES ASSUME S # {} PROVE FALSE
  OBVIOUS
<1>3. S \subseteq Nat
  OBVIOUS
<1>4. PICK x \in S : \A y \in S : <<y, x>> \notin R
  <2> HIDE DEF R, S
  <2> QED BY <1>1, <1>2, <1>3, WFMin
<1>5. x \in Nat /\ x \notin T /\ x # 0
  BY <1>4
<1>6. x - 1 \in Nat /\ x - 1 \in S
  BY <1>5
<1>7. <<x - 1, x>> \in R
  BY <1>5, <1>6 DEF OpToRel
<1> QED BY <1>4, <1>6, <1>7

(* ----------------------------- FlattenSeq ------------------------------ *)

\* The recursion of FlattenSeq has a solution of the right type.
LEMMA FlattenExists ==
  ASSUME NEW S, NEW seqs \in Seq(Seq(S))
  PROVE  \E f \in [1..Len(seqs) -> Seq(S)] :
           \A i \in 1..Len(seqs) : f[i] = IF i = 1 THEN seqs[i] ELSE f[i - 1] \o seqs[i]
<1> DEFINE Step(f, i) == IF i = 1 THEN seqs[i] ELSE f[i - 1] \o seqs[i]
           Solvable(n) == \E f \in [1..n -> Seq(S)] : \A i \in 1..n : f[i] = Step(f, i)
           T == {n \in Nat : n <= Len(seqs) => Solvable(n)}
<1>1. 0 \in T
  <2> DEFINE f == [i \in 1..0 |-> <<>>]
  <2>1. f \in [1..0 -> Seq(S)]
    OBVIOUS
  <2>2. \A i \in 1..0 : f[i] = Step(f, i)
    OBVIOUS
  <2> HIDE DEF f, Step
  <2> QED BY <2>1, <2>2
<1>2. ASSUME NEW n \in Nat, n \in T PROVE n + 1 \in T
  <2>1. SUFFICES ASSUME n + 1 <= Len(seqs)
                 PROVE  Solvable(n + 1)
    <3> HIDE DEF Solvable
    <3> QED OBVIOUS
  <2>2. PICK f \in [1..n -> Seq(S)] : \A i \in 1..n : f[i] = Step(f, i)
    <3>1. Solvable(n)
      <4> HIDE DEF Solvable
      <4> QED BY <1>2, <2>1
    <3> QED BY <3>1
  <2>3. n + 1 \in 1..Len(seqs) /\ seqs[n + 1] \in Seq(S)
    BY <2>1
  <2>4. Step(f, n + 1) \in Seq(S)
    <3>1. CASE n = 0
      BY <3>1, <2>3
    <3>2. CASE n # 0
      <4>1. n \in 1..n /\ n + 1 # 1 /\ n + 1 - 1 = n
        BY <3>2
      <4>2. f[n] \in Seq(S)
        BY <4>1
      <4> QED BY <4>1, <4>2, <2>3
    <3> QED BY <3>1, <3>2
  <2> DEFINE g == [i \in 1..(n + 1) |-> IF i = n + 1 THEN Step(f, n + 1) ELSE f[i]]
  <2>5. g \in [1..(n + 1) -> Seq(S)]
    <3> HIDE DEF Step
    <3>1. \A i \in 1..(n + 1) : i # n + 1 => i \in 1..n
      OBVIOUS
    <3> QED BY <2>4, <3>1
  <2>6. ASSUME NEW i \in 1..(n + 1) PROVE g[i] = Step(g, i)
    <3>1. i # 1 => i - 1 \in 1..n /\ g[i - 1] = f[i - 1]
      <4> HIDE DEF Step
      <4> QED OBVIOUS
    <3>2. Step(g, i) = Step(f, i)
      BY <3>1
    <3>3. g[i] = Step(f, i)
      <4> HIDE DEF Step
      <4>1. i # n + 1 => i \in 1..n
        OBVIOUS
      <4> QED BY <2>2, <4>1
    <3> QED BY <3>2, <3>3
  <2> HIDE DEF g, Step
  <2> QED BY <2>5, <2>6
<1>3. Len(seqs) \in T
  <2> HIDE DEF T
  <2> QED BY <1>1, <1>2, SetInduction
<1> QED BY <1>3

\* FlattenSeq puts the pieces together from the first to the last.
LEMMA FlattenUnfold ==
  ASSUME NEW S, NEW seqs \in Seq(Seq(S)), Len(seqs) # 0
  PROVE  \E f \in [1..Len(seqs) -> Seq(S)] :
           /\ FlattenSeq(seqs) = f[Len(seqs)]
           /\ f[1] = seqs[1]
           /\ \A n \in Nat : n # 0 /\ n + 1 <= Len(seqs) => f[n + 1] = f[n] \o seqs[n + 1]
<1> DEFINE N == Len(seqs)
           Solves(f) == f = [i \in 1..N |-> IF i = 1 THEN seqs[i] ELSE f[i - 1] \o seqs[i]]
           F == CHOOSE f : Solves(f)
<1>1. FlattenSeq(seqs) = F[N]
  BY DEF FlattenSeq
<1>2. \E f : Solves(f)
  <2>1. PICK f \in [1..N -> Seq(S)] :
           \A i \in 1..N : f[i] = IF i = 1 THEN seqs[i] ELSE f[i - 1] \o seqs[i]
    BY FlattenExists
  <2>2. Solves(f)
    BY <2>1
  <2> HIDE DEF Solves
  <2> QED BY <2>2
<1>3. Solves(F)
  <2> HIDE DEF Solves
  <2> QED BY <1>2
<1> HIDE DEF F
<1>4. F[1] = seqs[1]
  BY <1>3
<1>5. ASSUME NEW n \in Nat, n # 0, n + 1 <= N PROVE F[n + 1] = F[n] \o seqs[n + 1]
  <2>1. n + 1 \in 1..N /\ n + 1 # 1
    BY <1>5
  <2>2. n + 1 - 1 = n
    OBVIOUS
  <2>3. \A i \in 1..N : F[i] = IF i = 1 THEN seqs[i] ELSE F[i - 1] \o seqs[i]
    BY <1>3
  <2>4. \A i \in 1..N : i # 1 => F[i] = F[i - 1] \o seqs[i]
    BY <2>3
  <2> DEFINE k == n + 1
  <2>5. k \in 1..N /\ k # 1 /\ k - 1 = n
    BY <2>1, <2>2
  <2> HIDE DEF k
  <2>6. F[k] = F[n] \o seqs[k]
    BY <2>4, <2>5
  <2> QED BY <2>6 DEF k
<1> DEFINE T == {n \in Nat : n \in 1..N => F[n] \in Seq(S)}
<1>6. 0 \in T
  OBVIOUS
<1>7. ASSUME NEW n \in Nat, n \in T PROVE n + 1 \in T
  <2>1. SUFFICES ASSUME n + 1 \in 1..N PROVE F[n + 1] \in Seq(S)
    OBVIOUS
  <2>2. seqs[n + 1] \in Seq(S)
    BY <2>1
  <2>3. CASE n = 0
    <3>1. n + 1 = 1
      BY <2>3
    <3> QED BY <3>1, <1>4, <2>2
  <2>4. CASE n # 0
    <3>1. F[n] \in Seq(S)
      BY <1>7, <2>1, <2>4
    <3>2. F[n + 1] = F[n] \o seqs[n + 1]
      <4>1. n + 1 <= N
        BY <2>1
      <4> QED BY <1>5, <2>4, <4>1
    <3> QED BY <2>2, <3>1, <3>2
  <2> QED BY <2>3, <2>4
<1>8. Nat \subseteq T
  <2> HIDE DEF T
  <2> QED BY <1>6, <1>7, SetInduction
<1> DEFINE G == [n \in 1..N |-> F[n]]
<1>9. G \in [1..N -> Seq(S)]
  BY <1>8
<1>10. /\ FlattenSeq(seqs) = G[N] /\ G[1] = seqs[1]
       /\ \A n \in Nat : n # 0 /\ n + 1 <= N => G[n + 1] = G[n] \o seqs[n + 1]
  <2>1. N \in 1..N /\ 1 \in 1..N
    OBVIOUS
  <2>2. \A n \in Nat : n # 0 /\ n + 1 <= N => n \in 1..N /\ n + 1 \in 1..N
    OBVIOUS
  <2>3. \A n \in 1..N : G[n] = F[n]
    OBVIOUS
  <2> HIDE DEF G
  <2> QED BY <1>1, <1>4, <1>5, <2>1, <2>2, <2>3
<1> HIDE DEF G
<1> QED BY <1>9, <1>10

\* The pieces of a sequence of sequences, one after the other.
LEMMA FlattenSeqType ==
  ASSUME NEW S, NEW seqs \in Seq(Seq(S))
  PROVE  FlattenSeq(seqs) \in Seq(S)
<1>1. CASE Len(seqs) = 0
  BY <1>1 DEF FlattenSeq
<1>2. CASE Len(seqs) # 0
  <2>1. PICK f \in [1..Len(seqs) -> Seq(S)] : FlattenSeq(seqs) = f[Len(seqs)]
    BY <1>2, FlattenUnfold
  <2> QED BY <1>2, <2>1
<1> QED BY <1>1, <1>2

\* One piece is the whole.
LEMMA FlattenOne ==
  ASSUME NEW S, NEW seqs \in Seq(Seq(S)), Len(seqs) = 1
  PROVE  FlattenSeq(seqs) = seqs[1]
<1>1. PICK f \in [1..Len(seqs) -> Seq(S)] : FlattenSeq(seqs) = f[Len(seqs)] /\ f[1] = seqs[1]
  <2>1. Len(seqs) # 0
    OBVIOUS
  <2> QED BY <2>1, FlattenUnfold
<1> QED BY <1>1

LEMMA SeqInduction ==
  ASSUME NEW A, NEW T, <<>> \in T,
         \A s \in Seq(A) : s \in T => \A a \in A : Append(s, a) \in T
  PROVE  Seq(A) \subseteq T
<1> DEFINE N == {n \in Nat : \A s \in Seq(A) : Len(s) = n => s \in T}
<1>1. 0 \in N
  OBVIOUS
<1>2. ASSUME NEW n \in Nat, n \in N PROVE n + 1 \in N
  <2>1. SUFFICES ASSUME NEW s \in Seq(A), Len(s) = n + 1 PROVE s \in T
    OBVIOUS
  <2> DEFINE t == SubSeq(s, 1, n)
             a == s[n + 1]
  <2>2. t \in Seq(A) /\ Len(t) = n /\ a \in A
    BY <2>1
  <2>3. s = Append(t, a)
    <3>1. \A i \in 1..n : t[i] = s[i]
      BY <2>1
    <3>2. Len(Append(t, a)) = n + 1 /\ Append(t, a) \in Seq(A)
      BY <2>2
    <3>3. ASSUME NEW i \in 1..(n + 1) PROVE Append(t, a)[i] = s[i]
      OBVIOUS
    <3> HIDE DEF t, a
    <3> QED BY <2>1, <3>2, <3>3
  <2> HIDE DEF t, a
  <2>4. t \in T
    BY <1>2, <2>2
  <2> QED BY <2>2, <2>3, <2>4
<1>3. Nat \subseteq N
  BY <1>1, <1>2, SetInduction
<1> QED BY <1>3

LEMMA FlattenNone == FlattenSeq(<<>>) = <<>>
BY DEF FlattenSeq

LEMMA FlattenAppend ==
  ASSUME NEW S, NEW seqs \in Seq(Seq(S)), NEW x \in Seq(S)
  PROVE  FlattenSeq(Append(seqs, x)) = FlattenSeq(seqs) \o x
<1> DEFINE all == Append(seqs, x)
           N == Len(seqs)
           M == N + 1
<1>1. /\ all \in Seq(Seq(S)) /\ Len(all) = M /\ N \in Nat /\ all[M] = x
      /\ \A i \in 1..N : all[i] = seqs[i]
  OBVIOUS
<1> HIDE DEF all
<1>2. PICK g \in [1..M -> Seq(S)] :
           /\ FlattenSeq(all) = g[M] /\ g[1] = all[1]
           /\ \A n \in Nat : n # 0 /\ n + 1 <= M => g[n + 1] = g[n] \o all[n + 1]
  <2>1. Len(all) # 0 /\ all \in Seq(Seq(S))
    BY <1>1
  <2>2. PICK h \in [1..Len(all) -> Seq(S)] :
           /\ FlattenSeq(all) = h[Len(all)] /\ h[1] = all[1]
           /\ \A n \in Nat : n # 0 /\ n + 1 <= Len(all) => h[n + 1] = h[n] \o all[n + 1]
    BY <2>1, FlattenUnfold
  <2>3. Len(all) = M
    BY <1>1
  <2> HIDE DEF M
  <2>4. /\ h \in [1..M -> Seq(S)] /\ FlattenSeq(all) = h[M]
        /\ \A n \in Nat : n # 0 /\ n + 1 <= M => h[n + 1] = h[n] \o all[n + 1]
    BY <2>2, <2>3
  <2> QED BY <2>2, <2>4
<1>3. CASE N = 0
  BY <1>3, <1>1, <1>2, FlattenNone DEF all
<1>4. CASE N # 0
  <2>1. PICK f \in [1..N -> Seq(S)] :
           /\ FlattenSeq(seqs) = f[N] /\ f[1] = seqs[1]
           /\ \A n \in Nat : n # 0 /\ n + 1 <= N => f[n + 1] = f[n] \o seqs[n + 1]
    BY <1>4, FlattenUnfold
  <2> DEFINE T == {n \in Nat : n \in 1..N => g[n] = f[n]}
  <2>2. 0 \in T
    OBVIOUS
  <2>3. ASSUME NEW n \in Nat, n \in T PROVE n + 1 \in T
    <3>1. SUFFICES ASSUME n + 1 \in 1..N PROVE g[n + 1] = f[n + 1]
      OBVIOUS
    <3>2. all[n + 1] = seqs[n + 1]
      BY <1>1, <3>1
    <3>3. CASE n = 0
      BY <3>3, <3>2, <1>2, <2>1
    <3>4. CASE n # 0
      <4>1. g[n] = f[n] /\ n + 1 <= N /\ n + 1 <= M
        BY <2>3, <3>1, <3>4, <1>1
      <4>2. g[n + 1] = g[n] \o all[n + 1] /\ f[n + 1] = f[n] \o seqs[n + 1]
        BY <1>2, <2>1, <3>4, <4>1
      <4> QED BY <3>2, <4>1, <4>2
    <3> QED BY <3>3, <3>4
  <2>4. Nat \subseteq T
    BY <2>2, <2>3, SetInduction
  <2>5. g[N] = f[N]
    <3>1. N \in T /\ N \in 1..N
      <4> HIDE DEF T
      <4> QED BY <2>4, <1>1, <1>4
    <3> QED BY <3>1
  <2>6. g[M] = g[N] \o all[M]
    <3>1. N \in Nat /\ N # 0 /\ N + 1 <= M
      BY <1>1, <1>4
    <3> HIDE DEF N
    <3> QED BY <1>2, <3>1
  <2> QED BY <1>1, <1>2, <2>1, <2>5, <2>6 DEF all
<1> QED BY <1>3, <1>4

(* ------------------------- mapping and flattening ----------------------- *)

\* The pieces that h makes of the elements of s, one after the other.
FlatMap(h, s) == FlattenSeq([i \in DOMAIN s |-> h[s[i]]])

LEMMA FlatMapNone ==
  ASSUME NEW h
  PROVE  FlatMap(h, <<>>) = <<>>
BY FlattenNone DEF FlatMap

\* The pieces that the elements give.
LEMMA FlatMapSeqs ==
  ASSUME NEW A, NEW B, NEW h \in [A -> Seq(B)], NEW s \in Seq(A)
  PROVE  /\ [i \in DOMAIN s |-> h[s[i]]] \in Seq(Seq(B))
         /\ Len([i \in DOMAIN s |-> h[s[i]]]) = Len(s)
         /\ \A i \in 1..Len(s) : [j \in DOMAIN s |-> h[s[j]]][i] = h[s[i]]
<1> DEFINE n == Len(s)
           x == [i \in 1..n |-> h[s[i]]]
<1>1. n \in Nat /\ DOMAIN s = 1..n /\ \A i \in 1..n : s[i] \in A
  OBVIOUS
<1> HIDE DEF n
<1>2. \A i \in 1..n : h[s[i]] \in Seq(B)
  BY <1>1
<1>3. x \in [1..n -> Seq(B)]
  BY <1>2
<1>4. x \in Seq(Seq(B)) /\ Len(x) = n
  BY <1>1
<1>5. [i \in DOMAIN s |-> h[s[i]]] = x
  BY <1>1
<1>6. \A i \in 1..n : x[i] = h[s[i]]
  OBVIOUS
<1> HIDE DEF x
<1> QED BY <1>4, <1>5, <1>6 DEF n

LEMMA FlatMapAppend ==
  ASSUME NEW A, NEW B, NEW h \in [A -> Seq(B)], NEW s \in Seq(A), NEW a \in A
  PROVE  FlatMap(h, Append(s, a)) = FlatMap(h, s) \o h[a]
<1> DEFINE t == Append(s, a)
           n == Len(s)
           x == [i \in DOMAIN s |-> h[s[i]]]
           y == [i \in DOMAIN t |-> h[t[i]]]
<1>1. /\ t \in Seq(A) /\ Len(t) = n + 1 /\ t[n + 1] = a /\ \A i \in 1..n : t[i] = s[i]
      /\ DOMAIN t = 1..(n + 1) /\ DOMAIN s = 1..n /\ n \in Nat
  OBVIOUS
<1>2. x \in Seq(Seq(B)) /\ Len(x) = n /\ \A i \in 1..n : x[i] = h[s[i]]
  BY FlatMapSeqs
<1>3. h[a] \in Seq(B)
  OBVIOUS
<1>4. /\ Append(x, h[a]) \in Seq(Seq(B)) /\ DOMAIN Append(x, h[a]) = 1..(n + 1)
      /\ Append(x, h[a])[n + 1] = h[a] /\ \A i \in 1..n : Append(x, h[a])[i] = x[i]
  BY <1>2
<1>5. y = Append(x, h[a])
  <2>1. DOMAIN y = 1..(n + 1) /\ y = [i \in 1..(n + 1) |-> h[t[i]]]
    BY <1>1
  <2>2. ASSUME NEW i \in 1..(n + 1) PROVE y[i] = Append(x, h[a])[i]
    BY <1>4, <1>2
  <2>3. Append(x, h[a]) = [i \in 1..(n + 1) |-> Append(x, h[a])[i]]
    OBVIOUS
  <2> HIDE DEF x, y, t
  <2> QED BY <2>1, <2>2, <2>3
<1> HIDE DEF x, y
<1>6. FlattenSeq(y) = FlattenSeq(x) \o h[a]
  BY <1>2, <1>3, <1>5, FlattenAppend
<1> QED BY <1>6 DEF FlatMap, x, y

LEMMA FlatMapType ==
  ASSUME NEW A, NEW B, NEW h \in [A -> Seq(B)], NEW s \in Seq(A)
  PROVE  FlatMap(h, s) \in Seq(B)
<1> DEFINE x == [i \in DOMAIN s |-> h[s[i]]]
<1>1. x \in Seq(Seq(B))
  BY FlatMapSeqs
<1> HIDE DEF x
<1>2. FlattenSeq(x) \in Seq(B)
  BY <1>1, FlattenSeqType
<1> QED BY <1>2 DEF FlatMap, x

LEMMA ConcatAppend ==
  ASSUME NEW B, NEW x \in Seq(B), NEW y \in Seq(B), NEW b \in B
  PROVE  x \o Append(y, b) = Append(x \o y, b)
OBVIOUS

\* The end of a sequence one element longer.
LEMMA ConcatOne ==
  ASSUME NEW B, NEW x \in Seq(B), NEW b \in B
  PROVE  /\ x \o <<b>> \in Seq(B) /\ Len(x \o <<b>>) = Len(x) + 1
         /\ (x \o <<b>>)[Len(x) + 1] = b
         /\ \A i \in 1..Len(x) : (x \o <<b>>)[i] = x[i]
OBVIOUS

\* Names for the sets of functions and of sequences, which the provers then
\* leave alone.
Maps(A, B) == [A -> Seq(B)]
Lists(A) == Seq(A)

LEMMA FlatMapConcat ==
  \A A, B : \A h \in Maps(A, B) : \A s, t \in Lists(A) :
    FlatMap(h, s \o t) = FlatMap(h, s) \o FlatMap(h, t)
<1> SUFFICES ASSUME NEW A, NEW B, NEW h \in [A -> Seq(B)], NEW s \in Seq(A), NEW t \in Seq(A)
             PROVE  FlatMap(h, s \o t) = FlatMap(h, s) \o FlatMap(h, t)
  BY DEF Maps, Lists
<1> DEFINE T == {u \in Seq(A) : FlatMap(h, s \o u) = FlatMap(h, s) \o FlatMap(h, u)}
<1>1. <<>> \in T
  <2> DEFINE x == FlatMap(h, s)
             none == <<>>
  <2>1. x \in Seq(B) /\ FlatMap(h, none) = <<>>
    BY FlatMapType, FlatMapNone
  <2>2. s \o none = s /\ none \in Seq(A)
    OBVIOUS
  <2> HIDE DEF x
  <2>3. x \o <<>> = x
    BY <2>1
  <2> HIDE DEF none
  <2>4. FlatMap(h, s \o none) = FlatMap(h, s) \o FlatMap(h, none)
    BY <2>1, <2>2, <2>3 DEF x
  <2>5. none \in T
    BY <2>2, <2>4
  <2> QED BY <2>5 DEF none
<1>2. ASSUME NEW u \in Seq(A), u \in T, NEW a \in A PROVE Append(u, a) \in T
  <2>1. s \o Append(u, a) = Append(s \o u, a) /\ s \o u \in Seq(A) /\ Append(u, a) \in Seq(A)
    BY ConcatAppend
  <2>2. FlatMap(h, Append(s \o u, a)) = FlatMap(h, s \o u) \o h[a]
    BY <2>1, FlatMapAppend
  <2>3. FlatMap(h, s \o u) = FlatMap(h, s) \o FlatMap(h, u)
    BY <1>2
  <2>4. FlatMap(h, Append(u, a)) = FlatMap(h, u) \o h[a]
    BY FlatMapAppend
  <2> DEFINE x == FlatMap(h, s)
             y == FlatMap(h, u)
             z == h[a]
  <2>5. x \in Seq(B) /\ y \in Seq(B) /\ z \in Seq(B)
    BY FlatMapType
  <2> HIDE DEF x, y, z
  <2>6. (x \o y) \o z = x \o (y \o z)
    BY <2>5
  <2> QED BY <2>1, <2>2, <2>3, <2>4, <2>6 DEF x, y, z
<1>3. Seq(A) \subseteq T
  BY <1>1, <1>2, SeqInduction
<1> QED BY <1>3

LEMMA FlatMapOne ==
  ASSUME NEW A, NEW B, NEW h \in [A -> Seq(B)], NEW a \in A
  PROVE  FlatMap(h, <<a>>) = h[a]
<1> DEFINE none == <<>>
<1>1. none \in Seq(A) /\ Append(none, a) = <<a>> /\ FlatMap(h, none) = <<>>
  BY FlatMapNone
<1> HIDE DEF none
<1>2. FlatMap(h, Append(none, a)) = FlatMap(h, none) \o h[a]
  BY <1>1, FlatMapAppend
<1>3. <<>> \o h[a] = h[a]
  OBVIOUS
<1> QED BY <1>1, <1>2, <1>3

\* Two maps, one after the other, are one.
LEMMA FlatMapTwice ==
  \A B, C : \A h \in Maps(B, C) : \A A : \A g \in Maps(A, B), k \in Maps(A, C), s \in Lists(A) :
    (\A a \in A : k[a] = FlatMap(h, g[a])) => FlatMap(h, FlatMap(g, s)) = FlatMap(k, s)
<1> SUFFICES ASSUME NEW B, NEW C, NEW h \in [B -> Seq(C)]
             PROVE  \A A : \A g \in Maps(A, B), k \in Maps(A, C), s \in Lists(A) :
                      (\A a \in A : k[a] = FlatMap(h, g[a]))
                        => FlatMap(h, FlatMap(g, s)) = FlatMap(k, s)
  BY DEF Maps
<1>0. \A x, y \in Seq(B) : FlatMap(h, x \o y) = FlatMap(h, x) \o FlatMap(h, y)
  BY FlatMapConcat DEF Maps, Lists
<1> SUFFICES ASSUME NEW A, NEW g \in [A -> Seq(B)], NEW k \in [A -> Seq(C)], NEW s \in Seq(A),
                    \A a \in A : k[a] = FlatMap(h, g[a])
             PROVE  FlatMap(h, FlatMap(g, s)) = FlatMap(k, s)
  BY DEF Maps, Lists
<1> DEFINE T == {u \in Seq(A) : FlatMap(h, FlatMap(g, u)) = FlatMap(k, u)}
<1>1. <<>> \in T
  BY FlatMapNone
<1>2. ASSUME NEW u \in Seq(A), u \in T, NEW a \in A PROVE Append(u, a) \in T
  <2> DEFINE x == FlatMap(g, u)
             y == g[a]
  <2>1. x \in Seq(B) /\ y \in Seq(B)
    BY FlatMapType
  <2>2. FlatMap(g, Append(u, a)) = x \o y /\ FlatMap(k, Append(u, a)) = FlatMap(k, u) \o k[a]
    BY FlatMapAppend
  <2>3. FlatMap(h, x) = FlatMap(k, u) /\ k[a] = FlatMap(h, y)
    BY <1>2
  <2>4. Append(u, a) \in Seq(A)
    OBVIOUS
  <2> HIDE DEF x, y
  <2>5. FlatMap(h, x \o y) = FlatMap(h, x) \o FlatMap(h, y)
    BY <1>0, <2>1
  <2>6. FlatMap(h, FlatMap(g, Append(u, a))) = FlatMap(k, Append(u, a))
    BY <2>2, <2>3, <2>5
  <2> QED BY <2>4, <2>6
<1>3. Seq(A) \subseteq T
  BY <1>1, <1>2, SeqInduction
<1> QED BY <1>3

\* Where each element gives one, it keeps its place.
LEMMA FlatMapSingle ==
  \A A, B, f : \A h \in Maps(A, B) : \A s \in Lists(A) :
    (\A a \in A : f[a] \in B /\ h[a] = <<f[a]>>)
      => FlatMap(h, s) = [i \in DOMAIN s |-> f[s[i]]]
<1> SUFFICES ASSUME NEW A, NEW B, NEW f, NEW h \in [A -> Seq(B)], NEW s \in Seq(A),
                    \A a \in A : f[a] \in B /\ h[a] = <<f[a]>>
             PROVE  FlatMap(h, s) = [i \in DOMAIN s |-> f[s[i]]]
  BY DEF Maps, Lists
<1> DEFINE Map(u) == [i \in DOMAIN u |-> f[u[i]]]
           T == {u \in Seq(A) : FlatMap(h, u) = Map(u)}
<1>1. <<>> \in T
  <2> DEFINE none == <<>>
  <2>1. Map(none) = none /\ FlatMap(h, none) = none /\ none \in Seq(A)
    BY FlatMapNone
  <2> HIDE DEF none, Map
  <2>2. none \in T
    BY <2>1
  <2> QED BY <2>2 DEF none
<1>2. ASSUME NEW u \in Seq(A), u \in T, NEW a \in A PROVE Append(u, a) \in T
  <2> DEFINE v == Append(u, a)
             n == Len(u)
  <2>1. /\ v \in Seq(A) /\ DOMAIN v = 1..(n + 1) /\ v[n + 1] = a /\ DOMAIN u = 1..n
        /\ \A m \in 1..n : v[m] = u[m]
        /\ n \in Nat
    OBVIOUS
  <2>2. FlatMap(h, v) = FlatMap(h, u) \o h[a]
    BY FlatMapAppend
  <2>3. FlatMap(h, u) = Map(u) /\ h[a] = <<f[a]>> /\ f[a] \in B
    BY <1>2
  <2>4. Map(u) \in Seq(B) /\ Len(Map(u)) = n /\ \A i \in 1..n : Map(u)[i] = f[u[i]]
    <3>1. \A i \in 1..n : f[u[i]] \in B
      BY <2>1
    <3> DEFINE w == [i \in 1..n |-> f[u[i]]]
    <3>2. w \in [1..n -> B] /\ \A i \in 1..n : w[i] = f[u[i]]
      BY <3>1
    <3>3. Map(u) = w
      BY <2>1
    <3> HIDE DEF Map, w, n
    <3>4. w \in Seq(B) /\ Len(w) = n
      BY <2>1, <3>2
    <3> QED BY <3>2, <3>3, <3>4
  <2>5. Map(u) \o <<f[a]>> = Map(v)
    <3>1. Map(v) = [i \in 1..(n + 1) |-> f[v[i]]]
      BY <2>1
    <3> DEFINE x == Map(u)
               b == f[a]
    <3> HIDE DEF v, n, Map
    <3>2. /\ x \o <<b>> \in Seq(B) /\ Len(x \o <<b>>) = n + 1
          /\ (x \o <<b>>)[n + 1] = b /\ \A i \in 1..n : (x \o <<b>>)[i] = x[i]
      <4>1. x \in Seq(B) /\ Len(x) = n /\ b \in B /\ n \in Nat
        BY <2>1, <2>3, <2>4
      <4> HIDE DEF x, b
      <4>2. n = Len(x)
        BY <4>1
      <4> HIDE DEF n
      <4> QED BY <4>1, <4>2, ConcatOne
    <3>3. ASSUME NEW i \in 1..(n + 1) PROVE (x \o <<b>>)[i] = f[v[i]]
      BY <3>2, <2>1, <2>4
    <3>4. x \o <<b>> = [i \in 1..(n + 1) |-> (x \o <<b>>)[i]]
      <4> HIDE DEF x, b
      <4> QED BY <3>2, <2>1
    <3> HIDE DEF x, b
    <3>5. x \o <<b>> = Map(v)
      BY <3>1, <3>3, <3>4
    <3> QED BY <3>5 DEF x, b
  <2> HIDE DEF v, Map
  <2>6. FlatMap(h, v) = Map(v)
    BY <2>2, <2>3, <2>5
  <2> QED BY <2>1, <2>6 DEF v
<1>3. Seq(A) \subseteq T
  BY <1>1, <1>2, SeqInduction
<1> QED BY <1>3

\* What the pieces are is what the whole is.
LEMMA FlatMapInto ==
  ASSUME NEW A, NEW B, NEW h, NEW s \in Seq(A), \A i \in DOMAIN s : h[s[i]] \in Seq(B)
  PROVE  FlatMap(h, s) \in Seq(B)
<1> DEFINE n == Len(s)
           x == [i \in 1..n |-> h[s[i]]]
<1>1. n \in Nat /\ DOMAIN s = 1..n /\ \A i \in 1..n : h[s[i]] \in Seq(B)
  OBVIOUS
<1> HIDE DEF n
<1>2. x \in [1..n -> Seq(B)]
  BY <1>1
<1>3. x \in Seq(Seq(B))
  BY <1>1
<1>4. [i \in DOMAIN s |-> h[s[i]]] = x
  BY <1>1
<1> HIDE DEF x
<1>5. FlattenSeq(x) \in Seq(B)
  BY <1>3, FlattenSeqType
<1> QED BY <1>4, <1>5 DEF FlatMap

\* What is the same piece by piece is the same.
LEMMA FlatMapSame ==
  ASSUME NEW g, NEW h, NEW s, \A i \in DOMAIN s : g[s[i]] = h[s[i]]
  PROVE  FlatMap(g, s) = FlatMap(h, s)
BY DEF FlatMap

LEMMA FlatMapEmpty ==
  ASSUME NEW A, NEW h, NEW s \in Seq(A), \A i \in DOMAIN s : h[s[i]] = <<>>
  PROVE  FlatMap(h, s) = <<>>
<1>1. \A i \in DOMAIN s : h[s[i]] \in Seq({})
  <2>1. <<>> \in Seq({})
    OBVIOUS
  <2> QED BY <2>1
<1>2. FlatMap(h, s) \in Seq({})
  BY <1>1, FlatMapInto
<1> DEFINE x == FlatMap(h, s)
<1>3. x \in Seq({})
  BY <1>2
<1> HIDE DEF x
<1>4. x = <<>>
  BY <1>3
<1> QED BY <1>4 DEF x

\* The same for any f that says what h gives.
LEMMA FlatMapEach ==
  ASSUME NEW A, NEW f, NEW h, NEW s \in Seq(A), \A i \in DOMAIN s : h[s[i]] = <<f[s[i]]>>
  PROVE  FlatMap(h, s) = [i \in DOMAIN s |-> f[s[i]]]
<1> DEFINE D == {s[i] : i \in DOMAIN s}
           C == {f[a] : a \in D}
           g == [a \in D |-> <<f[a]>>]
<1>1. s \in Seq(D)
  OBVIOUS
<1>2. \A a \in D : f[a] \in C
  OBVIOUS
<1>3. \A i \in DOMAIN s : s[i] \in D
  OBVIOUS
<1> HIDE DEF D, C
<1>4. g \in [D -> Seq(C)] /\ \A a \in D : g[a] = <<f[a]>>
  BY <1>2
<1>5. \A i \in DOMAIN s : g[s[i]] = h[s[i]]
  BY <1>3
<1> HIDE DEF g
<1>6. FlatMap(g, s) = [i \in DOMAIN s |-> f[s[i]]]
  <2>1. g \in Maps(D, C) /\ s \in Lists(D)
    BY <1>1, <1>4 DEF Maps, Lists
  <2> QED BY <1>2, <1>4, <2>1, FlatMapSingle
<1>7. FlatMap(g, s) = FlatMap(h, s)
  BY <1>5, FlatMapSame
<1> QED BY <1>6, <1>7

(* ------------------------------- events -------------------------------- *)

\* What DecodeOpenAIStreamLine returns, more exactly than StreamEvent.
DecodedEvent ==
  [type : {"text_delta", "thinking_delta", "thinking_signature"}, index : {0}, val : Pieces]
    \cup [type : {"tool_call_start"}, index : ToolIndices, val : ToolIDs]
    \cup [type : {"tool_call_delta"}, index : ToolIndices, val : Pieces]
    \cup [type : {"message_stop"}, index : {0}, val : Reasons]
    \cup [type : {"usage_final"}, index : {0}, val : Usages]

\* The order of the events of one chunk.
Turn(ev) ==
  CASE ev.type = "thinking_delta"     -> 1
    [] ev.type = "thinking_signature" -> 2
    [] ev.type = "text_delta"         -> 3
    [] ev.type = "tool_call_start"    -> 4
    [] ev.type = "tool_call_delta"    -> 5
    [] ev.type = "message_stop"       -> 6
    [] ev.type = "usage_final"        -> 7

Has(events, type) == \E i \in DOMAIN events : events[i].type = type

LEMMA DecodedIsEvent ==
  ASSUME NEW ev \in DecodedEvent
  PROVE  /\ ev \in StreamEvent /\ ev.type \in EventTypes
         /\ ev.type \in {"text_delta", "thinking_delta", "thinking_signature",
                         "tool_call_delta"} => ev.val \in Pieces
         /\ ev.type = "tool_call_start" => ev.val \in ToolIDs
         /\ ev.type \in {"tool_call_start", "tool_call_delta"} => ev.index \in ToolIndices
         /\ ev.type = "message_stop" => ev.val \in Reasons
         /\ ev.type = "usage_final" => ev.val \in Usages
BY DEF DecodedEvent, StreamEvent, EventTypes

LEMMA TurnType ==
  ASSUME NEW ev, ev.type \in EventTypes
  PROVE  /\ Turn(ev) \in 1..7
         /\ ev.type = "thinking_delta"     <=> Turn(ev) = 1
         /\ ev.type = "thinking_signature" <=> Turn(ev) = 2
         /\ ev.type = "text_delta"         <=> Turn(ev) = 3
         /\ ev.type = "tool_call_start"    <=> Turn(ev) = 4
         /\ ev.type = "tool_call_delta"    <=> Turn(ev) = 5
         /\ ev.type = "message_stop"       <=> Turn(ev) = 6
         /\ ev.type = "usage_final"        <=> Turn(ev) = 7
BY DEF Turn, EventTypes

LEMMA SeqFieldType ==
  ASSUME NEW type, NEW index, NEW v,
         v # Empty => Event(type, index, v) \in DecodedEvent
  PROVE  /\ FieldEvent(type, index, v) \in Seq(DecodedEvent)
         /\ v = Empty => FieldEvent(type, index, v) = <<>>
         /\ v # Empty => FieldEvent(type, index, v) = <<Event(type, index, v)>>
BY DEF FieldEvent

LEMMA FragmentType ==
  ASSUME NEW f \in Fragment
  PROVE  /\ f.id # Empty => Event("tool_call_start", f.index, f.id) \in DecodedEvent
         /\ f.args # Empty => Event("tool_call_delta", f.index, f.args) \in DecodedEvent
         /\ FragmentEvents(f) \in Seq(DecodedEvent)
<1>1. f.id # Empty => Event("tool_call_start", f.index, f.id) \in DecodedEvent
  BY DEF Fragment, Event, DecodedEvent
<1>2. f.args # Empty => Event("tool_call_delta", f.index, f.args) \in DecodedEvent
  BY DEF Fragment, Event, DecodedEvent
<1>3. /\ FieldEvent("tool_call_start", f.index, f.id) \in Seq(DecodedEvent)
      /\ FieldEvent("tool_call_delta", f.index, f.args) \in Seq(DecodedEvent)
  BY <1>1, <1>2, SeqFieldType
<1> QED BY <1>1, <1>2, <1>3 DEF FragmentEvents

LEMMA ChunkEvents ==
  ASSUME NEW c \in Chunk
  PROVE  /\ c.thinking # Empty => Event("thinking_delta", 0, c.thinking) \in DecodedEvent
         /\ c.signature # Empty => Event("thinking_signature", 0, c.signature) \in DecodedEvent
         /\ c.text # Empty => Event("text_delta", 0, c.text) \in DecodedEvent
         /\ c.finish # Empty => Event("message_stop", 0, c.finish) \in DecodedEvent
         /\ c.usage # NoUsage => Event("usage_final", 0, c.usage) \in DecodedEvent
         /\ c.tools \in Seq(Fragment)
BY DEF Chunk, Event, DecodedEvent

\* The events of a chunk have their types.
LEMMA DecodeType ==
  ASSUME NEW c \in Chunk
  PROVE  DecodeOpenAIStreamLine(c) \in Seq(DecodedEvent)
<1> DEFINE fragments == [i \in DOMAIN c.tools |-> FragmentEvents(c.tools[i])]
           usage == IF c.usage = NoUsage THEN <<>> ELSE <<Event("usage_final", 0, c.usage)>>
<1>1. c.tools \in Seq(Fragment)
  BY ChunkEvents
<1>2. fragments \in Seq(Seq(DecodedEvent))
  <2>1. \A i \in DOMAIN c.tools : FragmentEvents(c.tools[i]) \in Seq(DecodedEvent)
    BY <1>1, FragmentType
  <2>2. DOMAIN c.tools = 1..Len(c.tools) /\ Len(c.tools) \in Nat
    BY <1>1
  <2> QED BY <2>1, <2>2
<1>3. FlattenSeq(fragments) \in Seq(DecodedEvent)
  <2> HIDE DEF fragments
  <2> QED BY <1>2, FlattenSeqType
<1>4. usage \in Seq(DecodedEvent)
  BY ChunkEvents
<1>5. /\ FieldEvent("thinking_delta", 0, c.thinking) \in Seq(DecodedEvent)
      /\ FieldEvent("thinking_signature", 0, c.signature) \in Seq(DecodedEvent)
      /\ FieldEvent("text_delta", 0, c.text) \in Seq(DecodedEvent)
      /\ FieldEvent("message_stop", 0, c.finish) \in Seq(DecodedEvent)
  BY ChunkEvents, SeqFieldType
<1>6. DecodeOpenAIStreamLine(c) =
        FieldEvent("thinking_delta", 0, c.thinking)
          \o FieldEvent("thinking_signature", 0, c.signature)
          \o FieldEvent("text_delta", 0, c.text)
          \o FlattenSeq(fragments)
          \o FieldEvent("message_stop", 0, c.finish)
          \o usage
  BY DEF DecodeOpenAIStreamLine
<1> HIDE DEF fragments, usage
<1> QED BY <1>3, <1>4, <1>5, <1>6

(* --------------------- the chunks of the API's order ------------------- *)

In(ev, events) == \E i \in DOMAIN events : events[i] = ev

\* The events are in turn, between two turns.
InTurn(events, first, last) ==
  /\ \A i, j \in DOMAIN events : i < j => Turn(events[i]) < Turn(events[j])
  /\ \A i \in DOMAIN events : Turn(events[i]) \in first..last

LEMMA ConcatFacts ==
  ASSUME NEW S, NEW s \in Seq(S), NEW t \in Seq(S)
  PROVE  LET u == s \o t
         IN  /\ u \in Seq(S) /\ Len(s) \in Nat /\ Len(t) \in Nat
             /\ DOMAIN s = 1..Len(s) /\ DOMAIN t = 1..Len(t) /\ DOMAIN u = 1..(Len(s) + Len(t))
             /\ \A i \in 1..(Len(s) + Len(t)) : u[i] = IF i <= Len(s) THEN s[i] ELSE t[i - Len(s)]
OBVIOUS

LEMMA ConcatIn ==
  ASSUME NEW S, NEW s \in Seq(S), NEW t \in Seq(S), NEW ev
  PROVE  In(ev, s \o t) <=> In(ev, s) \/ In(ev, t)
<1> DEFINE u == s \o t
           m == Len(s)
           n == Len(t)
<1>1. /\ m \in Nat /\ n \in Nat /\ DOMAIN s = 1..m /\ DOMAIN t = 1..n /\ DOMAIN u = 1..(m + n)
      /\ \A i \in 1..(m + n) : u[i] = IF i <= m THEN s[i] ELSE t[i - m]
  BY ConcatFacts
<1> HIDE DEF u, m, n
<1>2. ASSUME In(ev, u) PROVE In(ev, s) \/ In(ev, t)
  <2>1. PICK i \in 1..(m + n) : u[i] = ev
    BY <1>1, <1>2 DEF In
  <2>2. CASE i <= m
    <3>1. i \in 1..m /\ s[i] = ev
      BY <1>1, <2>1, <2>2
    <3> QED BY <1>1, <3>1 DEF In
  <2>3. CASE ~(i <= m)
    <3>1. i - m \in 1..n /\ t[i - m] = ev
      BY <1>1, <2>1, <2>3
    <3> QED BY <1>1, <3>1 DEF In
  <2> QED BY <2>2, <2>3
<1>3. ASSUME In(ev, s) PROVE In(ev, u)
  <2>1. PICK i \in 1..m : s[i] = ev
    BY <1>1, <1>3 DEF In
  <2>2. i \in 1..(m + n) /\ u[i] = ev
    BY <1>1, <2>1
  <2> QED BY <1>1, <2>2 DEF In
<1>4. ASSUME In(ev, t) PROVE In(ev, u)
  <2>1. PICK i \in 1..n : t[i] = ev
    BY <1>1, <1>4 DEF In
  <2>2. i + m \in 1..(m + n) /\ ~(i + m <= m) /\ i + m - m = i
    BY <1>1
  <2>3. u[i + m] = ev
    BY <1>1, <2>1, <2>2
  <2> QED BY <1>1, <2>2, <2>3 DEF In
<1>5. In(ev, u) <=> In(ev, s) \/ In(ev, t)
  BY <1>2, <1>3, <1>4
<1> QED BY <1>5 DEF u

LEMMA ConcatInTurn ==
  ASSUME NEW s \in Seq(DecodedEvent), NEW t \in Seq(DecodedEvent),
         NEW a \in Int, NEW b \in Int, NEW c \in Int, a <= b, b < c,
         InTurn(s, a, b), InTurn(t, b + 1, c)
  PROVE  InTurn(s \o t, a, c)
<1> DEFINE u == s \o t
           m == Len(s)
           n == Len(t)
<1>1. /\ m \in Nat /\ n \in Nat /\ DOMAIN s = 1..m /\ DOMAIN t = 1..n /\ DOMAIN u = 1..(m + n)
      /\ \A i \in 1..(m + n) : u[i] = IF i <= m THEN s[i] ELSE t[i - m]
  BY ConcatFacts
<1>2. /\ \A i, j \in 1..m : i < j => Turn(s[i]) < Turn(s[j])
      /\ \A i \in 1..m : Turn(s[i]) \in a..b
  BY <1>1 DEF InTurn
<1>3. /\ \A i, j \in 1..n : i < j => Turn(t[i]) < Turn(t[j])
      /\ \A i \in 1..n : Turn(t[i]) \in (b + 1)..c
  BY <1>1 DEF InTurn
<1> HIDE DEF u, m, n
<1>4. \A i \in 1..(m + n) : \/ i \in 1..m /\ u[i] = s[i]
                            \/ i - m \in 1..n /\ ~(i <= m) /\ u[i] = t[i - m]
  BY <1>1
<1>5. ASSUME NEW i \in 1..(m + n) PROVE Turn(u[i]) \in a..c
  <2>1. CASE i \in 1..m /\ u[i] = s[i]
    BY <1>2, <2>1
  <2>2. CASE i - m \in 1..n /\ u[i] = t[i - m]
    BY <1>3, <2>2
  <2> QED BY <1>4, <2>1, <2>2
<1>6. ASSUME NEW i \in 1..(m + n), NEW j \in 1..(m + n), i < j
      PROVE  Turn(u[i]) < Turn(u[j])
  <2>1. CASE i \in 1..m /\ u[i] = s[i] /\ j \in 1..m /\ u[j] = s[j]
    BY <1>2, <1>6, <2>1
  <2>2. CASE i \in 1..m /\ u[i] = s[i] /\ j - m \in 1..n /\ u[j] = t[j - m]
    <3>1. Turn(s[i]) \in a..b /\ Turn(t[j - m]) \in (b + 1)..c
      BY <1>2, <1>3, <2>2
    <3> QED BY <2>2, <3>1
  <2>3. CASE /\ i - m \in 1..n /\ u[i] = t[i - m]
             /\ j - m \in 1..n /\ u[j] = t[j - m]
    <3>1. i - m < j - m
      BY <1>1, <1>6
    <3> QED BY <1>3, <2>3, <3>1
  <2>4. ~(i - m \in 1..n /\ ~(i <= m) /\ j \in 1..m)
    BY <1>1, <1>6
  <2> QED BY <1>4, <2>1, <2>2, <2>3, <2>4
<1>7. InTurn(u, a, c)
  BY <1>1, <1>5, <1>6 DEF InTurn
<1> QED BY <1>7 DEF u

\* A field is one event, or none.
LEMMA FieldInTurn ==
  ASSUME NEW type \in EventTypes, NEW index, NEW v,
         v # Empty => Event(type, index, v) \in DecodedEvent
  PROVE  LET s == FieldEvent(type, index, v)
             k == Turn(Event(type, index, v))
         IN  /\ s \in Seq(DecodedEvent) /\ InTurn(s, k, k)
             /\ \A ev : In(ev, s) <=> v # Empty /\ ev = Event(type, index, v)
<1> DEFINE s == FieldEvent(type, index, v)
           x == Event(type, index, v)
           k == Turn(x)
<1>1. k \in Nat
  BY TurnType DEF Event
<1>2. s \in Seq(DecodedEvent) /\ (v = Empty => s = <<>>) /\ (v # Empty => s = <<x>>)
  BY SeqFieldType
<1> HIDE DEF s, x
<1>3. CASE v = Empty
  <2>1. DOMAIN s = {}
    BY <1>2, <1>3
  <2> QED BY <1>2, <1>3, <2>1 DEF InTurn, In, s, x
<1>4. CASE v # Empty
  <2>1. DOMAIN s = {1} /\ s[1] = x
    BY <1>2, <1>4
  <2>2. InTurn(s, k, k)
    BY <1>1, <2>1 DEF InTurn
  <2>3. \A ev : In(ev, s) <=> ev = x
    BY <2>1 DEF In
  <2> QED BY <1>2, <1>4, <2>2, <2>3 DEF s, x
<1> QED BY <1>3, <1>4

LEMMA EventTurn ==
  ASSUME NEW index, NEW v
  PROVE  /\ Turn(Event("thinking_delta", index, v)) = 1
         /\ Turn(Event("thinking_signature", index, v)) = 2
         /\ Turn(Event("text_delta", index, v)) = 3
         /\ Turn(Event("tool_call_start", index, v)) = 4
         /\ Turn(Event("tool_call_delta", index, v)) = 5
         /\ Turn(Event("message_stop", index, v)) = 6
         /\ Turn(Event("usage_final", index, v)) = 7
BY DEF Turn, Event

LEMMA NoneInTurn ==
  ASSUME NEW a, NEW b
  PROVE  /\ <<>> \in Seq(DecodedEvent) /\ InTurn(<<>>, a, b)
         /\ \A ev : ~In(ev, <<>>)
<1>1. DOMAIN <<>> = {}
  OBVIOUS
<1> QED BY <1>1 DEF InTurn, In

LEMMA FragmentInTurn ==
  ASSUME NEW f \in Fragment
  PROVE  LET s == FragmentEvents(f)
         IN  /\ s \in Seq(DecodedEvent) /\ InTurn(s, 4, 5)
             /\ \A ev : In(ev, s) <=>
                  \/ f.id # Empty /\ ev = Event("tool_call_start", f.index, f.id)
                  \/ f.args # Empty /\ ev = Event("tool_call_delta", f.index, f.args)
<1> DEFINE s == FieldEvent("tool_call_start", f.index, f.id)
           t == FieldEvent("tool_call_delta", f.index, f.args)
<1>1. /\ s \in Seq(DecodedEvent) /\ InTurn(s, 4, 4)
      /\ \A ev : In(ev, s) <=> f.id # Empty /\ ev = Event("tool_call_start", f.index, f.id)
  BY FragmentType, FieldInTurn, EventTurn DEF EventTypes
<1>2. /\ t \in Seq(DecodedEvent) /\ InTurn(t, 5, 5)
      /\ \A ev : In(ev, t) <=> f.args # Empty /\ ev = Event("tool_call_delta", f.index, f.args)
  BY FragmentType, FieldInTurn, EventTurn DEF EventTypes
<1>3. FragmentEvents(f) = s \o t
  BY DEF FragmentEvents
<1> HIDE DEF s, t
<1>4. s \o t \in Seq(DecodedEvent)
  BY <1>1, <1>2
<1>5. InTurn(s \o t, 4, 5)
  BY <1>1, <1>2, ConcatInTurn
<1>6. \A ev : In(ev, s \o t) <=> In(ev, s) \/ In(ev, t)
  BY <1>1, <1>2, ConcatIn
<1> QED BY <1>1, <1>2, <1>3, <1>4, <1>5, <1>6

\* The fragments of a chunk with one tool call, or none.
LEMMA ToolsInTurn ==
  ASSUME NEW c \in Chunk, Len(c.tools) <= 1
  PROVE  LET s == FlattenSeq([i \in DOMAIN c.tools |-> FragmentEvents(c.tools[i])])
         IN  /\ s \in Seq(DecodedEvent) /\ InTurn(s, 4, 5)
             /\ \A ev : In(ev, s) <=> \E i \in DOMAIN c.tools :
                  \/ /\ c.tools[i].id # Empty
                     /\ ev = Event("tool_call_start", c.tools[i].index, c.tools[i].id)
                  \/ /\ c.tools[i].args # Empty
                     /\ ev = Event("tool_call_delta", c.tools[i].index, c.tools[i].args)
<1> DEFINE tools == c.tools
           fragments == [i \in DOMAIN tools |-> FragmentEvents(tools[i])]
           s == FlattenSeq(fragments)
<1>1. tools \in Seq(Fragment) /\ Len(tools) \in {0, 1} /\ DOMAIN tools = 1..Len(tools)
  <2>1. tools \in Seq(Fragment)
    BY ChunkEvents
  <2>2. DOMAIN tools = 1..Len(tools)
    BY <2>1
  <2> DEFINE n == Len(tools)
  <2>3. n \in Nat /\ n <= 1
    BY <2>1
  <2> HIDE DEF n
  <2>4. n \in {0, 1}
    BY <2>3
  <2> QED BY <2>1, <2>2, <2>4 DEF n
<1> HIDE DEF tools
<1>2. \A i \in DOMAIN tools : FragmentEvents(tools[i]) \in Seq(DecodedEvent)
  BY <1>1, FragmentType
<1>3. fragments \in Seq(Seq(DecodedEvent)) /\ Len(fragments) = Len(tools)
  BY <1>1, <1>2
<1>4. CASE Len(tools) = 0
  <2>1. DOMAIN tools = {} /\ fragments = <<>>
    BY <1>1, <1>3, <1>4
  <2>2. s = <<>>
    <3> HIDE DEF fragments
    <3> QED BY <1>3, <1>4, <2>1 DEF FlattenSeq
  <2> HIDE DEF s
  <2> QED BY <2>1, <2>2, NoneInTurn DEF s, tools
<1>5. CASE Len(tools) = 1
  <2>1. DOMAIN tools = {1} /\ tools[1] \in Fragment /\ fragments[1] = FragmentEvents(tools[1])
    <3>1. DOMAIN tools = {1}
      BY <1>1, <1>5
    <3>2. tools[1] \in Fragment
      BY <1>1, <3>1
    <3>3. fragments[1] = FragmentEvents(tools[1])
      BY <3>1
    <3> HIDE DEF fragments
    <3> QED BY <3>1, <3>2, <3>3
  <2>2. s = FragmentEvents(tools[1])
    <3> HIDE DEF fragments
    <3> QED BY <1>3, <1>5, <2>1, FlattenOne
  <2> HIDE DEF s
  <2>3. /\ s \in Seq(DecodedEvent) /\ InTurn(s, 4, 5)
        /\ \A ev : In(ev, s) <=>
             \/ tools[1].id # Empty /\ ev = Event("tool_call_start", tools[1].index, tools[1].id)
             \/ tools[1].args # Empty /\ ev = Event("tool_call_delta", tools[1].index, tools[1].args)
    BY <2>1, <2>2, FragmentInTurn
  <2> QED BY <2>1, <2>3 DEF s, tools
<1> QED BY <1>1, <1>4, <1>5 DEF tools

\* The events of such a chunk: each field has its turn.
LEMMA DecodeInTurn ==
  ASSUME NEW c \in Chunk, Len(c.tools) <= 1
  PROVE  LET d == DecodeOpenAIStreamLine(c)
         IN  /\ d \in Seq(DecodedEvent) /\ InTurn(d, 1, 7)
             /\ \A ev : In(ev, d) <=>
                  \/ c.thinking # Empty /\ ev = Event("thinking_delta", 0, c.thinking)
                  \/ c.signature # Empty /\ ev = Event("thinking_signature", 0, c.signature)
                  \/ c.text # Empty /\ ev = Event("text_delta", 0, c.text)
                  \/ \E i \in DOMAIN c.tools :
                       \/ /\ c.tools[i].id # Empty
                          /\ ev = Event("tool_call_start", c.tools[i].index, c.tools[i].id)
                       \/ /\ c.tools[i].args # Empty
                          /\ ev = Event("tool_call_delta", c.tools[i].index, c.tools[i].args)
                  \/ c.finish # Empty /\ ev = Event("message_stop", 0, c.finish)
                  \/ c.usage # NoUsage /\ ev = Event("usage_final", 0, c.usage)
<1> DEFINE s1 == FieldEvent("thinking_delta", 0, c.thinking)
           s2 == FieldEvent("thinking_signature", 0, c.signature)
           s3 == FieldEvent("text_delta", 0, c.text)
           s4 == FlattenSeq([i \in DOMAIN c.tools |-> FragmentEvents(c.tools[i])])
           s6 == FieldEvent("message_stop", 0, c.finish)
           s7 == IF c.usage = NoUsage THEN <<>> ELSE <<Event("usage_final", 0, c.usage)>>
           Tool(ev) == \E i \in DOMAIN c.tools :
                         \/ /\ c.tools[i].id # Empty
                            /\ ev = Event("tool_call_start", c.tools[i].index, c.tools[i].id)
                         \/ /\ c.tools[i].args # Empty
                            /\ ev = Event("tool_call_delta", c.tools[i].index, c.tools[i].args)
<1>1. /\ s1 \in Seq(DecodedEvent) /\ InTurn(s1, 1, 1)
      /\ \A ev : In(ev, s1) <=> c.thinking # Empty /\ ev = Event("thinking_delta", 0, c.thinking)
  BY ChunkEvents, FieldInTurn, EventTurn DEF EventTypes
<1>2. /\ s2 \in Seq(DecodedEvent) /\ InTurn(s2, 2, 2)
      /\ \A ev : In(ev, s2) <=>
           c.signature # Empty /\ ev = Event("thinking_signature", 0, c.signature)
  BY ChunkEvents, FieldInTurn, EventTurn DEF EventTypes
<1>3. /\ s3 \in Seq(DecodedEvent) /\ InTurn(s3, 3, 3)
      /\ \A ev : In(ev, s3) <=> c.text # Empty /\ ev = Event("text_delta", 0, c.text)
  BY ChunkEvents, FieldInTurn, EventTurn DEF EventTypes
<1>4. /\ s4 \in Seq(DecodedEvent) /\ InTurn(s4, 4, 5)
      /\ \A ev : In(ev, s4) <=> Tool(ev)
  BY ToolsInTurn
<1>5. /\ s6 \in Seq(DecodedEvent) /\ InTurn(s6, 6, 6)
      /\ \A ev : In(ev, s6) <=> c.finish # Empty /\ ev = Event("message_stop", 0, c.finish)
  BY ChunkEvents, FieldInTurn, EventTurn DEF EventTypes
<1>6. /\ s7 \in Seq(DecodedEvent) /\ InTurn(s7, 7, 7)
      /\ \A ev : In(ev, s7) <=> c.usage # NoUsage /\ ev = Event("usage_final", 0, c.usage)
  <2> DEFINE x == Event("usage_final", 0, c.usage)
  <2>1. Turn(x) = 7 /\ (c.usage # NoUsage => x \in DecodedEvent)
    BY EventTurn, ChunkEvents
  <2> HIDE DEF x
  <2>2. CASE c.usage = NoUsage
    BY <2>2, NoneInTurn
  <2>3. CASE c.usage # NoUsage
    <3>1. s7 = <<x>>
      BY <2>3 DEF x
    <3> HIDE DEF s7
    <3>2. DOMAIN s7 = {1} /\ s7[1] = x /\ s7 \in Seq(DecodedEvent)
      BY <2>1, <2>3, <3>1
    <3>3. InTurn(s7, 7, 7)
      BY <2>1, <3>2 DEF InTurn
    <3>4. \A ev : In(ev, s7) <=> ev = x
      BY <3>2 DEF In
    <3> QED BY <2>3, <3>2, <3>3, <3>4 DEF x
  <2> QED BY <2>2, <2>3
<1>7. DecodeOpenAIStreamLine(c) = s1 \o s2 \o s3 \o s4 \o s6 \o s7
  BY DEF DecodeOpenAIStreamLine
<1> HIDE DEF s1, s2, s3, s4, s6, s7, Tool
<1> DEFINE d2 == s1 \o s2
           d3 == d2 \o s3
           d4 == d3 \o s4
           d6 == d4 \o s6
           d7 == d6 \o s7
<1>8. /\ d2 \in Seq(DecodedEvent) /\ InTurn(d2, 1, 2)
      /\ \A ev : In(ev, d2) <=> In(ev, s1) \/ In(ev, s2)
  <2>1. d2 \in Seq(DecodedEvent)
    BY <1>1, <1>2
  <2> QED BY <2>1, <1>1, <1>2, ConcatInTurn, ConcatIn
<1> HIDE DEF d2
<1>9. /\ d3 \in Seq(DecodedEvent) /\ InTurn(d3, 1, 3)
      /\ \A ev : In(ev, d3) <=> In(ev, d2) \/ In(ev, s3)
  <2>1. d3 \in Seq(DecodedEvent)
    BY <1>3, <1>8
  <2> QED BY <2>1, <1>3, <1>8, ConcatInTurn, ConcatIn
<1> HIDE DEF d3
<1>10. /\ d4 \in Seq(DecodedEvent) /\ InTurn(d4, 1, 5)
       /\ \A ev : In(ev, d4) <=> In(ev, d3) \/ In(ev, s4)
  <2>1. d4 \in Seq(DecodedEvent)
    BY <1>4, <1>9
  <2> QED BY <2>1, <1>4, <1>9, ConcatInTurn, ConcatIn
<1> HIDE DEF d4
<1>11. /\ d6 \in Seq(DecodedEvent) /\ InTurn(d6, 1, 6)
       /\ \A ev : In(ev, d6) <=> In(ev, d4) \/ In(ev, s6)
  <2>1. d6 \in Seq(DecodedEvent)
    BY <1>5, <1>10
  <2> QED BY <2>1, <1>5, <1>10, ConcatInTurn, ConcatIn
<1> HIDE DEF d6
<1>12. /\ d7 \in Seq(DecodedEvent) /\ InTurn(d7, 1, 7)
       /\ \A ev : In(ev, d7) <=> In(ev, d6) \/ In(ev, s7)
  <2>1. d7 \in Seq(DecodedEvent)
    BY <1>6, <1>11
  <2> QED BY <2>1, <1>6, <1>11, ConcatInTurn, ConcatIn
<1>13. DecodeOpenAIStreamLine(c) = d7
  BY <1>7 DEF d7, d6, d4, d3, d2
<1> HIDE DEF d7
<1>14. \A ev : In(ev, d7) <=>
         In(ev, s1) \/ In(ev, s2) \/ In(ev, s3) \/ In(ev, s4) \/ In(ev, s6) \/ In(ev, s7)
  BY <1>8, <1>9, <1>10, <1>11, <1>12
<1>15. \A ev : In(ev, d7) <=>
         \/ c.thinking # Empty /\ ev = Event("thinking_delta", 0, c.thinking)
         \/ c.signature # Empty /\ ev = Event("thinking_signature", 0, c.signature)
         \/ c.text # Empty /\ ev = Event("text_delta", 0, c.text)
         \/ Tool(ev)
         \/ c.finish # Empty /\ ev = Event("message_stop", 0, c.finish)
         \/ c.usage # NoUsage /\ ev = Event("usage_final", 0, c.usage)
  BY <1>1, <1>2, <1>3, <1>4, <1>5, <1>6, <1>14
<1> QED BY <1>12, <1>13, <1>15 DEF Tool

LEMMA HasIn ==
  ASSUME NEW events, NEW type
  PROVE  Has(events, type) <=> \E ev : In(ev, events) /\ ev.type = type
BY DEF Has, In

LEMMA EventFields ==
  ASSUME NEW type, NEW index, NEW v
  PROVE  /\ Event(type, index, v).type = type /\ Event(type, index, v).index = index
         /\ Event(type, index, v).val = v
BY DEF Event

\* What the events of such a chunk tell of it.
LEMMA DecodeFacts ==
  ASSUME NEW c \in Chunk, Len(c.tools) <= 1
  PROVE  LET d == DecodeOpenAIStreamLine(c)
         IN  /\ d \in Seq(DecodedEvent) /\ InTurn(d, 1, 7)
             /\ \A i \in DOMAIN d :
                  /\ Turn(d[i]) \in 1..3 =>
                       c.thinking # Empty \/ c.signature # Empty \/ c.text # Empty
                  /\ Turn(d[i]) \in {4, 5} =>
                       \E k \in DOMAIN c.tools : d[i].index = c.tools[k].index
             /\ Has(d, "tool_call_start") <=> \E k \in DOMAIN c.tools : c.tools[k].id # Empty
             /\ Has(d, "message_stop") <=> c.finish # Empty
             /\ Has(d, "usage_final") <=> c.usage # NoUsage
<1> DEFINE d == DecodeOpenAIStreamLine(c)
           A1(ev) == c.thinking # Empty /\ ev = Event("thinking_delta", 0, c.thinking)
           A2(ev) == c.signature # Empty /\ ev = Event("thinking_signature", 0, c.signature)
           A3(ev) == c.text # Empty /\ ev = Event("text_delta", 0, c.text)
           A4(ev) == \E i \in DOMAIN c.tools :
                       /\ c.tools[i].id # Empty
                       /\ ev = Event("tool_call_start", c.tools[i].index, c.tools[i].id)
           A5(ev) == \E i \in DOMAIN c.tools :
                       /\ c.tools[i].args # Empty
                       /\ ev = Event("tool_call_delta", c.tools[i].index, c.tools[i].args)
           A6(ev) == c.finish # Empty /\ ev = Event("message_stop", 0, c.finish)
           A7(ev) == c.usage # NoUsage /\ ev = Event("usage_final", 0, c.usage)
<1>1. /\ d \in Seq(DecodedEvent) /\ InTurn(d, 1, 7)
      /\ \A ev : In(ev, d) <=>
           \/ A1(ev) \/ A2(ev) \/ A3(ev)
           \/ \E i \in DOMAIN c.tools :
                \/ /\ c.tools[i].id # Empty
                   /\ ev = Event("tool_call_start", c.tools[i].index, c.tools[i].id)
                \/ /\ c.tools[i].args # Empty
                   /\ ev = Event("tool_call_delta", c.tools[i].index, c.tools[i].args)
           \/ A6(ev) \/ A7(ev)
  BY DecodeInTurn
<1> HIDE DEF d
<1>2. \A ev : In(ev, d) <=> A1(ev) \/ A2(ev) \/ A3(ev) \/ A4(ev) \/ A5(ev) \/ A6(ev) \/ A7(ev)
  BY <1>1
<1>3. /\ \A ev : A1(ev) => ev.type = "thinking_delta" /\ Turn(ev) = 1
      /\ \A ev : A2(ev) => ev.type = "thinking_signature" /\ Turn(ev) = 2
      /\ \A ev : A3(ev) => ev.type = "text_delta" /\ Turn(ev) = 3
      /\ \A ev : A4(ev) => ev.type = "tool_call_start" /\ Turn(ev) = 4
      /\ \A ev : A5(ev) => ev.type = "tool_call_delta" /\ Turn(ev) = 5
      /\ \A ev : A6(ev) => ev.type = "message_stop" /\ Turn(ev) = 6
      /\ \A ev : A7(ev) => ev.type = "usage_final" /\ Turn(ev) = 7
  BY EventTurn, EventFields
<1>4. /\ \A ev : A1(ev) \/ A2(ev) \/ A3(ev) =>
           c.thinking # Empty \/ c.signature # Empty \/ c.text # Empty
      /\ \A ev : A4(ev) \/ A5(ev) => \E k \in DOMAIN c.tools : ev.index = c.tools[k].index
      /\ (\E ev : A4(ev)) <=> \E k \in DOMAIN c.tools : c.tools[k].id # Empty
      /\ (\E ev : A6(ev)) <=> c.finish # Empty
      /\ (\E ev : A7(ev)) <=> c.usage # NoUsage
  <2>1. \A ev : A4(ev) \/ A5(ev) => \E k \in DOMAIN c.tools : ev.index = c.tools[k].index
    BY EventFields
  <2>2. (\E ev : A4(ev)) <=> \E k \in DOMAIN c.tools : c.tools[k].id # Empty
    OBVIOUS
  <2> QED BY <2>1, <2>2
<1> HIDE DEF A1, A2, A3, A4, A5, A6, A7
<1>5. \A i \in DOMAIN d : In(d[i], d)
  BY DEF In
<1>6. ASSUME NEW i \in DOMAIN d
      PROVE  /\ Turn(d[i]) \in 1..3 =>
                  c.thinking # Empty \/ c.signature # Empty \/ c.text # Empty
             /\ Turn(d[i]) \in {4, 5} =>
                  \E k \in DOMAIN c.tools : d[i].index = c.tools[k].index
  <2> DEFINE x == d[i]
  <2> HIDE DEF x
  <2>1. A1(x) \/ A2(x) \/ A3(x) \/ A4(x) \/ A5(x) \/ A6(x) \/ A7(x)
    BY <1>2, <1>5 DEF x
  <2>2. CASE A1(x) \/ A2(x) \/ A3(x)
    <3>1. Turn(x) \in {1, 2, 3}
      BY <1>3, <2>2
    <3> QED BY <1>4, <2>2, <3>1 DEF x
  <2>3. CASE A4(x) \/ A5(x)
    <3>1. Turn(x) \in {4, 5}
      BY <1>3, <2>3
    <3> QED BY <1>4, <2>3, <3>1 DEF x
  <2>4. CASE A6(x) \/ A7(x)
    <3>1. Turn(x) \in {6, 7}
      BY <1>3, <2>4
    <3> QED BY <3>1 DEF x
  <2> QED BY <2>1, <2>2, <2>3, <2>4
<1>7. Has(d, "tool_call_start") <=> \E k \in DOMAIN c.tools : c.tools[k].id # Empty
  <2>1. Has(d, "tool_call_start") <=> \E ev : A4(ev)
    BY <1>2, <1>3, HasIn
  <2> QED BY <1>4, <2>1
<1>8. Has(d, "message_stop") <=> c.finish # Empty
  <2>1. Has(d, "message_stop") <=> \E ev : A6(ev)
    BY <1>2, <1>3, HasIn
  <2> QED BY <1>4, <2>1
<1>9. Has(d, "usage_final") <=> c.usage # NoUsage
  <2>1. Has(d, "usage_final") <=> \E ev : A7(ev)
    BY <1>2, <1>3, HasIn
  <2> QED BY <1>4, <2>1
<1> QED BY <1>1, <1>6, <1>7, <1>8, <1>9 DEF d

\* The events behind the first of a sequence in turn.
LEMMA TailInTurn ==
  ASSUME NEW s \in Seq(DecodedEvent), s # <<>>,
         \A i, j \in DOMAIN s : i < j => Turn(s[i]) < Turn(s[j])
  PROVE  LET t == Tail(s)
         IN  /\ t \in Seq(DecodedEvent)
             /\ \A i, j \in DOMAIN t : i < j => Turn(t[i]) < Turn(t[j])
             /\ \A i \in DOMAIN t : Turn(Head(s)) < Turn(t[i])
             /\ \A i \in DOMAIN t : \E j \in DOMAIN s : t[i] = s[j]
             /\ \A type : Has(s, type) <=> Head(s).type = type \/ Has(t, type)
             /\ \E j \in DOMAIN s : Head(s) = s[j]
<1> DEFINE t == Tail(s)
           n == Len(s)
<1>1. n \in Nat /\ n > 0 /\ DOMAIN s = 1..n /\ Head(s) = s[1]
  OBVIOUS
<1>2. t \in Seq(DecodedEvent) /\ DOMAIN t = 1..(n - 1) /\ \A i \in 1..(n - 1) : t[i] = s[i + 1]
  OBVIOUS
<1> HIDE DEF t, n
<1>3. \A i \in 1..(n - 1) : i + 1 \in 1..n /\ 1 < i + 1
  BY <1>1
<1>4. 1 \in 1..n
  BY <1>1
<1>5. ASSUME NEW i \in DOMAIN t, NEW j \in DOMAIN t, i < j
      PROVE  Turn(t[i]) < Turn(t[j])
  <2>1. i + 1 \in DOMAIN s /\ j + 1 \in DOMAIN s /\ i + 1 < j + 1
    BY <1>1, <1>2, <1>3, <1>5
  <2>2. t[i] = s[i + 1] /\ t[j] = s[j + 1]
    BY <1>2
  <2> QED BY <2>1, <2>2
<1>6. \A i \in DOMAIN t : Turn(Head(s)) < Turn(t[i])
  BY <1>1, <1>2, <1>3, <1>4
<1>7. \A type : Has(s, type) <=> Head(s).type = type \/ Has(t, type)
  <2> TAKE type
  <2>1. ASSUME Has(s, type) PROVE Head(s).type = type \/ Has(t, type)
    <3>1. PICK i \in 1..n : s[i].type = type
      BY <1>1, <2>1 DEF Has
    <3>2. CASE i = 1
      BY <1>1, <3>1, <3>2
    <3>3. CASE i # 1
      <4>1. i - 1 \in 1..(n - 1) /\ t[i - 1] = s[i]
        BY <1>1, <1>2, <3>3
      <4> QED BY <1>2, <3>1, <4>1 DEF Has
    <3> QED BY <3>2, <3>3
  <2>2. ASSUME Has(t, type) PROVE Has(s, type)
    <3>1. PICK i \in 1..(n - 1) : t[i].type = type
      BY <1>2, <2>2 DEF Has
    <3> QED BY <1>1, <1>2, <1>3, <3>1 DEF Has
  <2>3. ASSUME Head(s).type = type PROVE Has(s, type)
    BY <1>1, <1>4, <2>3 DEF Has
  <2> QED BY <2>1, <2>2, <2>3
<1> QED BY <1>1, <1>2, <1>3, <1>4, <1>5, <1>6, <1>7 DEF t

LEMMA HasAppend ==
  ASSUME NEW s \in Seq(DecodedEvent), NEW ev \in DecodedEvent
  PROVE  \A type : Has(Append(s, ev), type) <=> Has(s, type) \/ ev.type = type
<1> DEFINE n == Len(s)
           t == Append(s, ev)
<1>1. n \in Nat /\ DOMAIN s = 1..n /\ DOMAIN t = 1..(n + 1) /\ t[n + 1] = ev
      /\ \A i \in 1..n : t[i] = s[i]
  OBVIOUS
<1> HIDE DEF n, t
<1>2. \A i \in 1..(n + 1) : i \in 1..n \/ i = n + 1
  BY <1>1
<1>3. \A i \in 1..n : i \in 1..(n + 1)
  BY <1>1
<1>4. n + 1 \in 1..(n + 1)
  BY <1>1
<1>5. \A type : Has(t, type) <=> Has(s, type) \/ ev.type = type
  BY <1>1, <1>2, <1>3, <1>4 DEF Has
<1> QED BY <1>5 DEF t

(* ------------------------------ aggregation ---------------------------- *)

Calls == [index : ToolIndices, id : ToolIDs, args : Seq(Pieces)]

Reports == [tokens : Counts, cached : Counts \cup {NotCounted}]

AggregateState ==
  [text : Seq(Pieces), thinking : Seq(Pieces), toolCalls : Seq(Calls),
   stopReason : Reasons \cup {Empty}, usage : Reports \cup {NoUsage},
   webSearchResults : Results \cup {NoResults}, failed : BOOLEAN]

LEMMA MergeType ==
  ASSUME NEW u \in Reports \cup {NoUsage}, NEW v \in Usages
  PROVE  /\ MergeUsage(u, v) \in Reports /\ MergeUsage(u, v).tokens = v.tokens
         /\ MergeUsage(u, v) # NoUsage
         /\ u = NoUsage => MergeUsage(u, v) = v
<1>1. v \in Reports /\ NoUsage \notin Reports
  BY AggregateAssumption DEF Reports
<1> QED BY <1>1 DEF MergeUsage, Reports

Extended(s, n, args) == [s EXCEPT !.toolCalls[n].args = Append(@, args)]

\* The last call with an index gets the arguments, if there is one.
LEMMA ExtendCallFields ==
  ASSUME NEW s \in AggregateState, NEW index \in ToolIndices, NEW args \in Pieces
  PROVE  LET t == ExtendCall(s, index, args)
         IN  \/ t = s /\ \A i \in DOMAIN s.toolCalls : s.toolCalls[i].index # index
             \/ \E n \in DOMAIN s.toolCalls :
                  /\ s.toolCalls[n].index = index
                  /\ \A i \in DOMAIN s.toolCalls : s.toolCalls[i].index = index => i <= n
                  /\ t = Extended(s, n, args)
<1> DEFINE calls == s.toolCalls
           I == {i \in 1..Len(calls) : calls[i].index = index}
           n == IF I # {} THEN Max(I) ELSE 0
<1>1. ExtendCall(s, index, args) =
        IF n = 0 THEN s ELSE Extended(s, n, args)
  BY DEF ExtendCall, SelectLastInSeq, Extended
<1>2. DOMAIN calls = 1..Len(calls) /\ Len(calls) \in Nat
  BY DEF AggregateState
<1>3. CASE I = {}
  BY <1>1, <1>2, <1>3
<1>4. CASE I # {}
  <2>1. IsFiniteSet(I) /\ I \subseteq Int
    <3>1. IsFiniteSet(1..Len(calls))
      BY <1>2, FS_Interval
    <3> QED BY <3>1, <1>2, FS_Subset
  <2>2. \E m \in I : \A i \in I : m >= i
    <3> DEFINE N == Len(calls)
               J == {N - i : i \in I}
    <3>1. J \subseteq Nat /\ J # {}
      <4>1. \A i \in I : N - i \in Nat
        BY <1>2
      <4> QED BY <4>1, <1>4
    <3>2. PICK j \in J : \A k \in J : <<k, j>> \notin OpToRel(<, Nat)
      BY <3>1, NatLessThanWellFounded, WFMin
    <3>3. PICK m \in I : j = N - m
      OBVIOUS
    <3>4. ASSUME NEW i \in I PROVE m >= i
      <4>1. ~(N - i < N - m)
        BY <3>2, <3>3, <3>1 DEF OpToRel
      <4> QED BY <4>1, <1>2
    <3> QED BY <3>3, <3>4
  <2>3. n \in I /\ \A i \in I : n >= i
    <3> HIDE DEF I
    <3> QED BY <2>2, <1>4 DEF Max
  <2>4. n # 0 /\ n \in Nat
    BY <2>3, <1>2
  <2>5. /\ n \in DOMAIN calls /\ calls[n].index = index
        /\ \A i \in DOMAIN calls : calls[i].index = index => i <= n
    BY <2>3, <1>2
  <2>6. ExtendCall(s, index, args) = Extended(s, n, args)
    BY <1>1, <2>4
  <2> HIDE DEF n
  <2> QED BY <2>5, <2>6
<1> QED BY <1>3, <1>4

LEMMA ExtendedType ==
  ASSUME NEW s \in AggregateState, NEW n \in DOMAIN s.toolCalls, NEW args \in Pieces
  PROVE  LET t == Extended(s, n, args)
         IN  /\ t \in AggregateState
             /\ t.webSearchResults = s.webSearchResults /\ t.failed = s.failed
             /\ t.text = s.text /\ t.thinking = s.thinking
             /\ t.stopReason = s.stopReason /\ t.usage = s.usage
             /\ Len(t.toolCalls) = Len(s.toolCalls)
             /\ \A i \in DOMAIN s.toolCalls :
                  /\ t.toolCalls[i].index = s.toolCalls[i].index
                  /\ t.toolCalls[i].id = s.toolCalls[i].id
                  /\ t.toolCalls[i].args = IF i = n THEN Append(s.toolCalls[i].args, args)
                                           ELSE s.toolCalls[i].args
<1> DEFINE calls == s.toolCalls
           call == calls[n]
           longer == Append(call.args, args)
           next == [call EXCEPT !.args = longer]
           all == [calls EXCEPT ![n] = next]
<1>1. calls \in Seq(Calls) /\ call \in Calls
  BY DEF AggregateState
<1>2. longer \in Seq(Pieces)
  <2>1. call.args \in Seq(Pieces)
    BY <1>1 DEF Calls
  <2> QED BY <2>1
<1>3. Extended(s, n, args) = [s EXCEPT !.toolCalls = all]
  BY DEF Extended
<1> HIDE DEF longer
<1>4. next \in Calls /\ next.index = call.index /\ next.id = call.id /\ next.args = longer
  BY <1>1, <1>2 DEF Calls
<1> HIDE DEF next
<1>5. all \in Seq(Calls) /\ Len(all) = Len(calls)
  BY <1>1, <1>4
<1>6. \A i \in DOMAIN calls : all[i] = IF i = n THEN next ELSE calls[i]
  BY <1>1
<1> HIDE DEF all
<1>7. LET t == [s EXCEPT !.toolCalls = all]
      IN  /\ t \in AggregateState /\ t.toolCalls = all
          /\ t.webSearchResults = s.webSearchResults /\ t.failed = s.failed
          /\ t.text = s.text /\ t.thinking = s.thinking
          /\ t.stopReason = s.stopReason /\ t.usage = s.usage
  BY <1>5 DEF AggregateState
<1> QED BY <1>3, <1>4, <1>5, <1>6, <1>7 DEF longer

LEMMA ApplyType ==
  ASSUME NEW s \in AggregateState, NEW ev \in DecodedEvent
  PROVE  /\ Apply(s, ev) \in AggregateState
         /\ Apply(s, ev).webSearchResults = s.webSearchResults /\ Apply(s, ev).failed = s.failed
<1> DEFINE Kept(t) == t \in AggregateState /\ t.webSearchResults = s.webSearchResults
                        /\ t.failed = s.failed
<1>1. ev.type \in EventTypes
  BY DecodedIsEvent
<1>2. CASE ev.type = "text_delta"
  <2>1. Append(s.text, ev.val) \in Seq(Pieces)
    BY <1>2, DecodedIsEvent DEF AggregateState
  <2> QED BY <1>2, <2>1 DEF Apply, AggregateState
<1>3. CASE ev.type = "thinking_delta"
  <2>1. Append(s.thinking, ev.val) \in Seq(Pieces)
    BY <1>3, DecodedIsEvent DEF AggregateState
  <2> QED BY <1>3, <2>1 DEF Apply, AggregateState
<1>4. CASE ev.type = "thinking_signature"
  BY <1>4 DEF Apply
<1>5. CASE ev.type = "tool_call_start"
  <2>1. ev.index \in ToolIndices /\ ev.val \in ToolIDs
    BY <1>5, DecodedIsEvent
  <2>2. [index |-> ev.index, id |-> ev.val, args |-> <<>>] \in Calls
    BY <2>1 DEF Calls
  <2>3. s.toolCalls \in Seq(Calls)
    BY DEF AggregateState
  <2>4. Append(s.toolCalls, [index |-> ev.index, id |-> ev.val, args |-> <<>>]) \in Seq(Calls)
    BY <2>2, <2>3
  <2>5. Kept(StartCall(s, ev.index, ev.val))
    BY <2>4 DEF StartCall, AggregateState
  <2> QED BY <2>5, <1>5 DEF Apply
<1>6. CASE ev.type = "tool_call_delta"
  <2>1. ev.index \in ToolIndices /\ ev.val \in Pieces
    BY <1>6, DecodedIsEvent
  <2>2. Kept(ExtendCall(s, ev.index, ev.val))
    <3>1. CASE ExtendCall(s, ev.index, ev.val) = s
      BY <3>1
    <3>2. CASE ExtendCall(s, ev.index, ev.val) # s
      <4>1. PICK n \in DOMAIN s.toolCalls :
               ExtendCall(s, ev.index, ev.val) = Extended(s, n, ev.val)
        BY <2>1, <3>2, ExtendCallFields
      <4> QED BY <4>1, <2>1, ExtendedType
    <3> QED BY <3>1, <3>2
  <2> QED BY <2>2, <1>6 DEF Apply
<1>7. CASE ev.type = "message_stop"
  BY <1>7, DecodedIsEvent DEF Apply, AggregateState
<1>8. CASE ev.type = "usage_final"
  <2>1. MergeUsage(s.usage, ev.val) \in Reports
    BY <1>8, DecodedIsEvent, MergeType DEF AggregateState
  <2> QED BY <2>1, <1>8 DEF Apply, AggregateState
<1> QED BY <1>1, <1>2, <1>3, <1>4, <1>5, <1>6, <1>7, <1>8 DEF EventTypes

=============================================================================
